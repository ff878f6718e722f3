--------------------------- MODULE TranscriptLog ---------------------------
(***************************************************************************)
(* What the transcript store promises its callers (sdk/repositories.py,    *)
(* add_transcript_turn and list_transcript): each meeting session has one   *)
(* log, a turn is appended to it at most once and in one step, and a turn   *)
(* that could not be stored is reported lost and never shows up later.      *)
(***************************************************************************)
EXTENDS Sequences

CONSTANTS Sessions, Turns

VARIABLES log,   \* what list_transcript returns for each session
          lost   \* turns given up with an error

Stored == {t \in Turns : \E s \in Sessions : \E i \in DOMAIN log[s] : log[s][i] = t}

Init == /\ log = [s \in Sessions |-> << >>]
        /\ lost = {}

AddTurn(s, t) ==
    /\ t \notin Stored \cup lost
    /\ log' = [log EXCEPT ![s] = Append(@, t)]
    /\ lost' = lost

LoseTurns(T) ==
    /\ T \cap Stored = {}
    /\ lost' = lost \cup T
    /\ log' = log

Next == \/ \E s \in Sessions, t \in Turns : AddTurn(s, t)
        \/ \E T \in SUBSET Turns : LoseTurns(T)

Spec == Init /\ [][Next]_<<log, lost>>
=============================================================================
