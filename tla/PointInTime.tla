---------------------------- MODULE PointInTime ----------------------------
(***************************************************************************)
(* What the legislation store promises: at every date it answers with the  *)
(* text of the latest version it knows that had begun by then.  How the    *)
(* text is stored is not its concern.                                      *)
(***************************************************************************)
EXTENDS Integers

CONSTANTS Dates, Sections, Absent

VARIABLES
    known,   \* dates of the versions the store knows
    text,    \* text[v]: what version v says of each section
    answer   \* answer[d][n]: what a reader is told of section n at date d

store == <<known, text, answer>>

Governs(K, v, d) == v \in K /\ v <= d /\ \A w \in K : w <= d => w <= v

Answers(K, T, A) ==
    \A d \in Dates, n \in Sections :
        /\ \A v \in K : Governs(K, v, d) => A[d][n] = T[v][n]
        /\ (\A v \in K : v > d) => A[d][n] = Absent

StoreInit ==
    /\ known = {}
    /\ Answers(known, text, answer)

\* A run adds versions later than every known one, all at once.
Extend ==
    /\ known \subseteq known'
    /\ \A v \in known' \ known, w \in known : w < v
    /\ \A v \in known : text'[v] = text[v]
    /\ Answers(known', text', answer')

\* An operator wipes the store.
Forget ==
    /\ known' = {}
    /\ Answers(known', text', answer')

StoreNext == Extend \/ Forget

StoreSpec == StoreInit /\ [][StoreNext]_store
=============================================================================
