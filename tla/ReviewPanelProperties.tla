------------------------ MODULE ReviewPanelProperties ------------------------
(***************************************************************************)
(* What the review panel of ReviewPanel.tla must, and must not, do.        *)
(***************************************************************************)
EXTENDS ReviewPanel

PresenterOK ==
    /\ queue \in Seq(Jobs)
    /\ active \in Jobs \cup {NoJob}
    /\ done \subseteq Jobs
    /\ disposed \in BOOLEAN /\ panel \in BOOLEAN
StatesOK ==
    /\ cards \in [Jobs -> Seq(CardState)]
    /\ current \in [Jobs -> Nat \ {0}]
    /\ scope \in [Jobs -> {"one", "file", "session"}]
    /\ files \in [Jobs -> SUBSET STRING]
    /\ closed \in [Jobs -> BOOLEAN]
    /\ \A j \in Jobs : Len(cards[j]) = Len(CardsOf[j])
RunsOK ==
    /\ runs \in [Jobs -> Seq(Run)]
    /\ \A j \in Jobs : DOMAIN runs[j] = CardIds(j)
WebviewOK ==
    /\ view.job \in Jobs \cup {NoJob} /\ view.card \in Nat
    /\ Len(mail) <= MaxMail

\* Every variable holds values of its kind; in particular no explanation is
\* tried more than twice per request for it.
TypeOK == PresenterOK /\ StatesOK /\ RunsOK /\ WebviewOK

Requested == done \cup Open

-------------------------------------------------------------------------------
(* Safety. *)

\* No review is lost or answered twice: each is waiting, shown or resolved; a
\* review only waits while another one is shown, and what is shown has a panel
\* (pump() and the ways a panel can be closed under it).
ReviewsAccountedFor ==
    /\ \A k, l \in DOMAIN queue : queue[k] = queue[l] => k = l
    /\ \A k \in DOMAIN queue : queue[k] # active /\ queue[k] \notin done
    /\ active \notin done
    /\ queue # <<>> => active # NoJob
    /\ active # NoJob => panel
    /\ \A j \in Jobs : decision[j] # NoDecision <=> j \in done

\* Accept needs an explanation on the screen, and that of one call: "a timed-out
\* or failed call cannot keep streaming text into the card after the retry has
\* started" (runExplain).  An accepted card is explained so, or was accepted with an earlier, explained card by "rest of file" or "rest of
\* session".
AcceptedWasExplained ==
    \A j \in Jobs : \A i \in CardIds(j) :
        cards[j][i].verdict = "accept" =>
            \E k \in 1..i :
                /\ cards[j][k].verdict = "accept"
                /\ cards[j][k].explain = "done" /\ Cardinality(cards[j][k].text) <= 1
                /\ \/ k = i
                   \/ scope[j] = "session"
                   \/ CardsOf[j][k].path = CardsOf[j][i].path /\ CardsOf[j][k].path \in files[j]

\* No undecided card waits for an explanation nobody is going to ask for:
\* unless all places are taken, it is being explained (scheduleExplains() is
\* called wherever a place or a card becomes free).
NoCardForgotten ==
    active # NoJob =>
        /\ Cardinality(InFlight(runs[active])) <= MaxInFlight
        /\ \A i \in CardIds(active) :
              i >= current[active] /\ cards[active][i].verdict = "none"
                /\ cards[active][i].explain \in {"pending", "streaming"} =>
                  \/ runs[active][i].phase # "none"
                  \/ /\ cards[active][i].explain = "pending"
                     /\ Cardinality(InFlight(runs[active])) = MaxInFlight

\* The panel's state is sound, no review and no card is lost.
PanelInvariant == TypeOK /\ ReviewsAccountedFor /\ NoCardForgotten

\* The decision the gate gets loosens its memory no further than the person
\* asked: "rest of file" only if that was clicked on a card of every file of the
\* request (files whose cards were accepted one by one do not count, nor do files
\* that only share a batched card with one that was), "rest of session" only if
\* that was clicked; neither without an accepted hunk, and nothing of a review
\* that was closed (effectiveScope, finalize).  These are the decisions of
\* Gate.tla.
DecisionLoosensLittle ==
    \A j \in done :
        /\ decision[j].scope = "file" =>
              \A p \in PathsOf[j] : \E i \in CardIds(j) :
                  CardsOf[j][i].path = p /\ <<"acceptFile", i>> \in asked[j]
        /\ decision[j].scope = "session" => \E i \in CardIds(j) : <<"acceptSession", i>> \in asked[j]
        /\ decision[j].scope # "one" => decision[j].accepted # {}
        /\ closed[j] => decision[j].accepted = {}
        /\ decision[j].verdict = "accept" => ~closed[j]

-------------------------------------------------------------------------------
(* Liveness, under FairSpec. *)

\* A person who waits for every explanation decides every review: none starves
\* in the queue, and none waits for an explanation that never comes.
EveryReviewDecided == \A j \in Jobs : j \in Open ~> j \in done
=============================================================================
