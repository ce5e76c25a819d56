---------------------------- MODULE OpenSshImport ----------------------------
(***************************************************************************)
(* The import of an OpenSSH configuration (mobarust-store): the loop that  *)
(* matches a host with a pattern, and the import of a file that is a few   *)
(* lines of blocks and options.  Of the options one stands for all, and    *)
(* "bad" for a value that makes the host skipped.                          *)
(***************************************************************************)
EXTENDS Naturals, Sequences, SequencesExt, FiniteSetsExt

CONSTANTS
    Letters,                    \* what is no wildcard; "end" stands for the end of a pattern
    PatternLength, HostLength,  \* bounds
    ConfigLines, ConfigLength   \* bounds: lines [directive, patterns, value]

VARIABLES
    pattern, host,              \* sequences of characters
    patternIndex, hostIndex,    \* from 1
    starIndex, starMatch,       \* starIndex is 0 for None
    verdict,                    \* "scanning", "matches" or "differs"
    config, known,              \* the file, and the SSH sessions [name, port] before
    imported                    \* by the imports so far: a sequence of sequences

matchVars == <<pattern, host, patternIndex, hostIndex, starIndex, starMatch, verdict>>
importVars == <<config, known, imported>>
openSshVars == <<matchVars, importVars>>

UpTo(n, chars) == UNION {[1..k -> chars] : k \in 0..n}
Wild == {"*", "?"}

OpenSshInit ==
    /\ pattern \in UpTo(PatternLength, Letters \cup Wild)
    /\ host \in UpTo(HostLength, Letters)
    /\ patternIndex = 1 /\ hostIndex = 1
    /\ starIndex = 0 /\ starMatch = 0
    /\ verdict = "scanning"
    /\ config = <<>> /\ known = {} /\ imported = <<>>

OpenSshTypeOK ==
    /\ patternIndex \in 1..(Len(pattern) + 1)
    /\ hostIndex \in 1..(Len(host) + 1) /\ starMatch \in 0..(Len(host) + 1)
    /\ starIndex \in 0..Len(pattern)
    /\ verdict \in {"scanning", "matches", "differs"}

-----------------------------------------------------------------------------
\* host_pattern_matches.

At(i) == IF i <= Len(pattern) THEN pattern[i] ELSE "end"

\* Without a wildcard the two are compared.
Literal == \A i \in DOMAIN pattern : pattern[i] \notin Wild

Verdict(holds) == verdict' = IF holds THEN "matches" ELSE "differs"

Compares ==
    /\ Literal \/ pattern = <<"*">>
    /\ Verdict(pattern = <<"*">> \/ pattern = host)
    /\ UNCHANGED <<pattern, host, patternIndex, hostIndex, starIndex, starMatch>>

MeetsStar ==
    /\ At(patternIndex) = "*"
    /\ starIndex' = patternIndex
    /\ patternIndex' = patternIndex + 1
    /\ starMatch' = hostIndex
    /\ UNCHANGED <<hostIndex, verdict>>

Advances ==
    /\ At(patternIndex) \in {"?", host[hostIndex]}
    /\ patternIndex' = patternIndex + 1
    /\ hostIndex' = hostIndex + 1
    /\ UNCHANGED <<starIndex, starMatch, verdict>>

\* Fault: the star gives a character away twice.
ReturnsToStarLate ==
    /\ starMatch' = starMatch + 1
    /\ hostIndex' = starMatch
    /\ patternIndex' = starIndex + 1

\* The last star takes one character more.
ReturnsToStar ==
    /\ starMatch' = starMatch + 1
    /\ hostIndex' = starMatch + 1
    /\ patternIndex' = starIndex + 1

Backtracks ==
    /\ At(patternIndex) \notin {"*", "?", host[hostIndex]}
    /\ IF starIndex # 0 /\ starMatch <= Len(host)
       THEN ReturnsToStar /\ UNCHANGED <<starIndex, verdict>>
       ELSE Verdict(FALSE) /\ UNCHANGED <<patternIndex, hostIndex, starIndex, starMatch>>

\* The host is used up: only stars may be left.
Finishes ==
    /\ Verdict(\A i \in patternIndex..Len(pattern) : pattern[i] = "*")
    /\ UNCHANGED <<pattern, host, patternIndex, hostIndex, starIndex, starMatch>>

MatchStep ==
    /\ verdict = "scanning"
    /\ \/ Compares
       \/ /\ ~Literal /\ pattern # <<"*">>
          /\ IF hostIndex <= Len(host)
             THEN (MeetsStar \/ Advances \/ Backtracks) /\ UNCHANGED <<pattern, host>>
             ELSE Finishes
    /\ UNCHANGED importVars

\* What a pattern means: its characters lie on the host one behind the other, a star on
\* any number of characters, a question mark on one.
Lies(p, h, place, i) ==
    IF p[i] = "*" THEN place[i] <= place[i + 1]
    ELSE place[i + 1] = place[i] + 1 /\ p[i] \in {"?", h[place[i]]}

Matches(p, h) ==
    \E place \in [1..(Len(p) + 1) -> 1..(Len(h) + 1)] :
        /\ place[1] = 1 /\ place[Len(p) + 1] = Len(h) + 1
        /\ \A i \in 1..Len(p) : Lies(p, h, place, i)

-----------------------------------------------------------------------------
\* parse_openssh_config: blocks with their patterns and options in the order of the
\* file; what stands before the first block is for every host.  A Match block is for none.
Everyone == <<[negated |-> FALSE, glob |-> <<"*">>]>>

TakesLine(blocks, line) ==
    CASE line.directive = "host" -> Append(blocks, [patterns |-> line.patterns, options |-> <<>>])
      [] line.directive = "match" -> Append(blocks, [patterns |-> <<>>, options |-> <<>>])
      [] line.directive = "port" ->
             [blocks EXCEPT ![Len(blocks)].options = Append(@, line.value)]
      [] line.directive = "other" -> blocks

Parsed(lines) ==
    LET upTo[n \in 0..Len(lines)] ==
            IF n = 0 THEN <<[patterns |-> Everyone, options |-> <<>>]>>
            ELSE TakesLine(upTo[n - 1], lines[n])
    IN upTo[Len(lines)]

\* effective_options, of one block: the patterns up to the first negated one that matches.
Applies(block, alias) ==
    /\ \E i \in DOMAIN block.patterns :
          ~block.patterns[i].negated /\ Matches(block.patterns[i].glob, alias)
    /\ \A i \in DOMAIN block.patterns :
          block.patterns[i].negated => ~Matches(block.patterns[i].glob, alias)

Giving(blocks, alias) ==
    {b \in DOMAIN blocks : Applies(blocks[b], alias) /\ blocks[b].options # <<>>}

\* Fault: a later value replaces an earlier one.
LastOption(blocks, alias) ==
    LET giving == Giving(blocks, alias)
    IN IF giving = {} THEN "none" ELSE Last(blocks[Max(giving)].options)

\* ... over all blocks: the first value counts.
EffectiveOption(blocks, alias) ==
    LET giving == Giving(blocks, alias)
    IN IF giving = {} THEN "none" ELSE Head(blocks[Min(giving)].options)

\* is_exact_host_pattern.
Exact(p) == ~p.negated /\ p.glob # <<>> /\ \A i \in DOMAIN p.glob : p.glob[i] \notin Wild

Patterns(blocks) == FlattenSeq([b \in DOMAIN blocks |-> blocks[b].patterns])

Names(sessions) == {s.name : s \in sessions}

\* An alias that is known, was seen or has a bad value is skipped.
TakesAlias(made, p, blocks, had) ==
    LET port == EffectiveOption(blocks, p.glob)
    IN IF Exact(p) /\ port # "bad" /\ p.glob \notin Names(had \cup ToSet(made))
       THEN Append(made, [name |-> p.glob, port |-> port]) ELSE made

Sessions(blocks, had) ==
    LET patterns == Patterns(blocks)
        upTo[n \in 0..Len(patterns)] ==
            IF n = 0 THEN <<>> ELSE TakesAlias(upTo[n - 1], patterns[n], blocks, had)
    IN upTo[Len(patterns)]

\* import_openssh_config, once the file is read and until the store persists.
ImportConfig ==
    /\ Len(imported) < 2
    /\ LET had == known \cup UNION {ToSet(imported[i]) : i \in DOMAIN imported}
       IN imported' = Append(imported, Sessions(Parsed(config), had))
    /\ UNCHANGED <<matchVars, config, known>>

\* The user picks a file.
PicksConfig ==
    /\ config = <<>> /\ imported = <<>>
    /\ verdict # "scanning" /\ pattern = <<>> /\ host = <<>>
    /\ config' \in UpTo(ConfigLength, ConfigLines)
    /\ known' \in SUBSET {[name |-> <<c>>, port |-> "none"] : c \in Letters}
    /\ UNCHANGED <<matchVars, imported>>

OpenSshNext == MatchStep \/ PicksConfig \/ (config # <<>> /\ ImportConfig)

OpenSshFairness == WF_openSshVars(MatchStep)

-----------------------------------------------------------------------------
\* The loop gives the verdict that the meaning of the pattern demands.
GlobIsExact ==
    verdict # "scanning" => (verdict = "matches" <=> Matches(pattern, host))

\* It ends: a star that gives way again and again does not go round in circles.
GlobEnds == <>(verdict # "scanning")

\* The block that line n of the file is in is for the alias.
InForce(n, alias) ==
    LET heads == {i \in 1..(n - 1) : config[i].directive \in {"host", "match"}}
    IN heads = {} \/ LET h == config[CHOOSE i \in heads : \A j \in heads : j <= i]
                     IN h.directive = "host" /\ Applies([patterns |-> h.patterns], alias)

\* The value of the first line that is for the alias, wherever it stands.
FirstValue(alias) ==
    LET lines == {n \in DOMAIN config : config[n].directive = "port" /\ InForce(n, alias)}
    IN IF lines = {} THEN "none" ELSE config[CHOOSE n \in lines : \A m \in lines : n <= m].value

\* Every exact host that was not known and has good values becomes one session with the
\* first value the file has for it, and a second import of the file adds nothing.
ImportIsExact ==
    LET wanted == {p.glob : p \in UNION {{q \in ToSet(config[n].patterns) : Exact(q)} :
                       n \in {m \in DOMAIN config : config[m].directive = "host"}}}
    IN imported # <<>> =>
        /\ ToSet(imported[1]) =
              {[name |-> a, port |-> FirstValue(a)] :
                  a \in {b \in wanted \ Names(known) : FirstValue(b) # "bad"}}
        /\ Len(imported[1]) = Cardinality(ToSet(imported[1]))
        /\ Len(imported) = 2 => imported[2] = <<>>
=============================================================================
