------------------------------ MODULE Campaign ------------------------------
(***************************************************************************)
(* What a campaign of simulation sessions promises to whoever reads its    *)
(* summary: a table of verdicts.  A session starts from the table or from   *)
(* nothing, owes a verdict to the checkpoints it takes up, gives each one   *)
(* verdict and no second one, ends of its own accord only when it has       *)
(* enough successes or owes nothing, and then replaces the table by its     *)
(* own.  A session that dies leaves the table as it was, or unreadable.     *)
(* There are no tasks, rounds, clocks or worker processes here.            *)
(***************************************************************************)
EXTENDS Naturals, FiniteSets

CONSTANTS
    Chk,        \* checkpoints
    Verdicts    \* what a checkpoint may be called, "successful" and "invalid" among them

VARIABLES
    table,      \* the verdicts on record
    readable,   \* whether the record can be read
    phase,      \* "idle", "live", "done" or "aborting"
    wanted,     \* successes this session is content with
    verdict,    \* the verdicts of this session so far
    owed        \* checkpoints it still owes a verdict

vars == <<table, readable, phase, wanted, verdict, owed>>

Open    == "open"
Nothing == [c \in Chk |-> Open]
Successes(v) == Cardinality({c \in Chk : v[c] = "successful"})

(* A session, or no session, with nothing to remember.                     *)
Idle == phase = "idle" /\ wanted = 0 /\ verdict = Nothing /\ owed = {}

Init == table = Nothing /\ readable = TRUE /\ Idle

(* It rejects some checkpoints and owes a verdict to others; what has a     *)
(* verdict keeps it.                                                       *)
Begin(known) ==
    /\ phase = "idle" /\ readable
    /\ owed' \subseteq {c \in Chk : known[c] = Open}
    /\ verdict' \in [Chk -> Verdicts \cup {Open}]
    /\ \A c \in Chk :
          \/ verdict'[c] = known[c]
          \/ known[c] = Open /\ c \notin owed' /\ verdict'[c] = "invalid"
    /\ wanted' \in 0 .. (Successes(known) + Cardinality(owed'))
    /\ phase' = IF owed' = {} THEN "aborting" ELSE "live"
    /\ UNCHANGED <<table, readable>>

(* Verdicts on what is no longer owed; the session may be over, or given up. *)
Judge ==
    /\ phase = "live" /\ owed' \subseteq owed
    /\ verdict' \in [Chk -> Verdicts \cup {Open}]
    /\ \A c \in Chk :
          IF c \in owed \ owed' THEN verdict[c] = Open /\ verdict'[c] \in Verdicts
                                ELSE verdict'[c] = verdict[c]
    /\ phase' \in {"live", "done", "aborting"}
    /\ phase' = "done" => Successes(verdict') >= wanted \/ owed' = {}
    /\ UNCHANGED <<table, readable, wanted>>

Publish ==
    /\ phase \in {"done", "aborting"}
    /\ table' = verdict /\ readable' = readable /\ Idle'

Die ==
    /\ phase # "idle"
    /\ readable' \in BOOLEAN /\ (~readable' => phase \in {"done", "aborting"})
    /\ table' = table /\ Idle'

StartOver ==
    /\ phase = "idle" /\ ~readable
    /\ readable' = TRUE /\ table' = Nothing
    /\ UNCHANGED <<phase, wanted, verdict, owed>>

Next ==
    \/ \E known \in {table, Nothing} : Begin(known)
    \/ Judge \/ Publish \/ Die \/ StartOver

Spec == Init /\ [][Next]_vars
=============================================================================
