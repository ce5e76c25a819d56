------------------------- MODULE SshCommandContract -------------------------
(***************************************************************************)
(* What the commands of one SSH terminal may rely on, whatever queue,      *)
(* permits and tasks carry them (docs/testing/queued-ssh-commands.md and   *)
(* docs/testing/ssh-reconnect.md describe it; SshSession implements it).   *)
(*                                                                         *)
(* A command that is accepted belongs to the connection it was accepted    *)
(* on.  It is started there or not at all, it is settled before the next   *)
(* connection is opened, and nothing is left when the terminal has ended.  *)
(***************************************************************************)
EXTENDS Naturals

CONSTANT Calls

VARIABLES
    window,     \* what the terminal does with commands
    connection, \* number of the connection commands are accepted on
    phase,      \* where each command is
    home        \* the connection each command was accepted on; 0 for none

contractVars == <<window, connection, phase, home>>

ContractTypeOK ==
    /\ window \in {"before", "open", "closing", "empty", "ended"}
    /\ connection \in Nat
    /\ phase \in [Calls -> {"new", "refused", "accepted", "started", "settled"}]
    /\ home \in [Calls -> Nat]

ContractInit ==
    /\ window = "before"
    /\ connection = 0
    /\ phase = [c \in Calls |-> "new"]
    /\ home = [c \in Calls |-> 0]

Outstanding == {c \in Calls : phase[c] \in {"accepted", "started"}}

\* A connection is opened; the one before owes nothing to anybody.
OpenWindow ==
    /\ window \in {"before", "empty"}
    /\ Outstanding = {}
    /\ window' = "open"
    /\ connection' = connection + 1
    /\ UNCHANGED <<phase, home>>

CloseWindow ==
    /\ window = "open"
    /\ window' = "closing"
    /\ UNCHANGED <<connection, phase, home>>

EmptyWindow ==
    /\ window = "closing"
    /\ Outstanding = {}
    /\ window' = "empty"
    /\ UNCHANGED <<connection, phase, home>>

EndWindow ==
    /\ window \in {"before", "empty"}
    /\ Outstanding = {}
    /\ window' = "ended"
    /\ UNCHANGED <<connection, phase, home>>

Refuse(c) ==
    /\ phase[c] = "new"
    /\ phase' = [phase EXCEPT ![c] = "refused"]
    /\ UNCHANGED <<window, connection, home>>

\* A caller may still be accepted while the connection is being given up.
Accept(c) ==
    /\ phase[c] = "new"
    /\ window \in {"open", "closing"}
    /\ phase' = [phase EXCEPT ![c] = "accepted"]
    /\ home' = [home EXCEPT ![c] = connection]
    /\ UNCHANGED <<window, connection>>

\* Only on the connection that accepted it.
Start(c) ==
    /\ phase[c] = "accepted"
    /\ window = "open"
    /\ home[c] = connection
    /\ phase' = [phase EXCEPT ![c] = "started"]
    /\ UNCHANGED <<window, connection, home>>

Settle(c) ==
    /\ phase[c] \in {"accepted", "started"}
    /\ phase' = [phase EXCEPT ![c] = "settled"]
    /\ UNCHANGED <<window, connection, home>>

ContractNext ==
    \/ OpenWindow \/ CloseWindow \/ EmptyWindow \/ EndWindow
    \/ \E c \in Calls : Refuse(c) \/ Accept(c) \/ Start(c) \/ Settle(c)

ContractSpec == ContractInit /\ [][ContractNext]_contractVars
=============================================================================
