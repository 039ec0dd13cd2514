--------------------------- MODULE PicVoteHistory ---------------------------
(***************************************************************************)
(* PicServer with a history variable: how many votes on its post were      *)
(* stored since a call of get_thumb_count_on_post counted the likes, up to *)
(* the number of users.  It observes and constrains nothing.               *)
(***************************************************************************)
EXTENDS PicServer

ASSUME VoterAssumption == IsFiniteSet(User)

VARIABLE missed

historyVars == <<serverVars, missed>>

Counting(r) == At(r, "half", {"get_thumb_count_on_post"})

StoredFor(p) == \E q \in Req : StoreThumb(q) /\ req[q].query.id = p

Observe ==
    missed' = [r \in Req |->
                 IF ~Counting(r) THEN 0
                 ELSE IF StoredFor(req[r].query.id) /\ missed[r] < Cardinality(User)
                 THEN missed[r] + 1
                 ELSE missed[r]]

HistoryInit == Init /\ missed = [r \in Req |-> 0]
HistoryNext == Next /\ Observe
HistorySpec == HistoryInit /\ [][HistoryNext]_historyVars

-----------------------------------------------------------------------------

Distance(a, b) == IF a < b THEN b - a ELSE a - b

\* get_thumb_count_on_post counts likes and dislikes in two statements.  The number it
\* answers need not be the number of any moment (a vote turned from up to down in between
\* counts as none), but it is off by at most one per vote stored between the two, and by at
\* most one per user however many votes those are.
CountDrift ==
    [][\A r \in Req : CountDislikes(r) =>
         Distance(req'[r].number, Count(req[r].query.id)) <= missed[r]]_historyVars

=============================================================================
