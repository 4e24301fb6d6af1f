----------------------------- MODULE ReviewPanel -----------------------------
(***************************************************************************)
(* The review panel (src/review/panel.ts, src/review/pure/state.ts): one   *)
(* review at a time, the others queue.  The cards of the active review are *)
(* explained by the assistant, two at a time, and decided in order.  The   *)
(* webview (src/media/review/review.js) shows some earlier state, and its  *)
(* clicks travel to the host as messages that name a card and no review.   *)
(***************************************************************************)
EXTENDS Naturals, Sequences, FiniteSets

CONSTANTS
    Jobs,           \* identities of the reviews the gate asks for
    CardsOf,        \* the cards of every review, see Cards.tla
    PathsOf,        \* the files of every review
    AllowSession,   \* the setting checkpoint.allowAcceptRestOfSession
    MaxInFlight,    \* MAX_IN_FLIGHT, 2: explanations asked for at a time
    MaxRetries,     \* bound: explanations asked for once more
    MaxMail,        \* bound: clicks on their way to the host
    NoJob

Card == [path : STRING, hunks : (SUBSET STRING) \ {{}}, self : BOOLEAN]

ASSUME CardsAssumption ==
    /\ NoJob \notin Jobs
    /\ IsFiniteSet(Jobs)
    /\ CardsOf \in [Jobs -> Seq(Card)]
    /\ \A j \in Jobs : /\ CardsOf[j] # <<>>
                       /\ {CardsOf[j][i].path : i \in DOMAIN CardsOf[j]} \subseteq PathsOf[j]
ASSUME LimitsAssumption ==
    /\ AllowSession \in BOOLEAN
    /\ MaxInFlight \in Nat \ {0}
    /\ MaxRetries \in Nat
    /\ MaxMail \in Nat \ {0}

Status == {"pending", "streaming", "done", "error"}
Choice == {"none", "accept", "reject"}
Attempts == 0..2 * (MaxRetries + 1)
CardState == [explain : Status, text : SUBSET Attempts, verdict : Choice]
\* runExplain of a card: which of its two tries waits for the assistant, how
\* many tries there were, and which of them may still stream into the card.
Phase == {"none", "first", "backoff", "second"}
Run == [phase : Phase, tries : Attempts, live : SUBSET Attempts]
Click == {"accept", "reject", "acceptFile", "acceptSession", "retry"}

VARIABLES
    queue, active, done,    \* the reviews: waiting, shown, resolved
    disposed, panel,        \* the presenter is gone; a panel is open
    cards, current,         \* per review: ReviewState.cards and .current
    scope, files, closed,   \* per review: scope, fileAcceptedPaths, closedReason
    asked,                  \* per review: the "rest of" clicks obeyed on it, for the properties
    runs,                   \* per review and card: its explanation call
    retries,                \* explanations asked for once more
    decision,               \* what the gate was given
    view,                   \* what the webview shows, possibly outdated
    mail                    \* clicks that have not reached the host

review == <<cards, current, scope, files, closed, asked, runs, retries>>
presenter == <<queue, active, done, disposed, panel>>
webview == <<view, mail>>
vars == <<review, presenter, decision, webview>>

CardIds(j) == DOMAIN CardsOf[j]
NoDecision == [verdict |-> "none", scope |-> "one", accepted |-> {}]
Idle == [job |-> NoJob, card |-> 0, explain |-> "pending"]

-------------------------------------------------------------------------------
(* The pure state machine of one review, on a sequence of card states.      *)

Complete(cs) == \A i \in DOMAIN cs : cs[i].verdict # "none"
FirstUndecided(cs, from) ==
    CHOOSE i \in from..Len(cs) + 1 :
        /\ i <= Len(cs) => cs[i].verdict = "none"
        /\ \A k \in from..i - 1 : cs[k].verdict # "none"

ToExplain(j, cs, rs, from) ==
    {i \in DOMAIN cs : /\ i >= from
                       /\ cs[i].verdict = "none"
                       /\ ~CardsOf[j][i].self
                       /\ cs[i].explain = "pending"
                       /\ rs[i].phase = "none"}
InFlight(rs) == {i \in DOMAIN rs : rs[i].phase # "none"}
Starting(j, cs, rs, from) ==
    {i \in ToExplain(j, cs, rs, from) :
        Cardinality({k \in ToExplain(j, cs, rs, from) : k < i})
            + Cardinality(InFlight(rs)) < MaxInFlight}

\* explainStart: nothing streamed by an earlier try remains.
Started(c) == IF c.explain = "done" THEN c ELSE [c EXCEPT !.explain = "streaming", !.text = {}]
NextTry(r, phase) ==
    [phase |-> phase, tries |-> r.tries + 1, live |-> r.live \cup {r.tries + 1}]

\* scheduleExplains: calls start from the current card on while there is room.
ScheduledCards(j, cs, rs, from) ==
    [i \in DOMAIN cs |-> IF i \in Starting(j, cs, rs, from) THEN Started(cs[i]) ELSE cs[i]]
ScheduledRuns(j, cs, rs, from) ==
    [i \in DOMAIN rs |-> IF i \in Starting(j, cs, rs, from) THEN NextTry(rs[i], "first") ELSE rs[i]]

\* A decision may be taken on the current, undecided card; an acceptance only
\* once its explanation is complete.
CurrentCard(j, i) ==
    /\ i \in CardIds(j)
    /\ cards[j][i].verdict = "none"
    /\ i = current[j]
Acceptable(j, i) == CurrentCard(j, i) /\ cards[j][i].explain = "done"

RestOfFile(j, i) == {k \in CardIds(j) : k >= i /\ CardsOf[j][k].path = CardsOf[j][i].path}
RestOfSession(j, i) == {k \in CardIds(j) : k >= i}
Chosen(j, S, v) ==
    [k \in CardIds(j) |->
        IF k \in S /\ cards[j][k].verdict = "none" THEN [cards[j][k] EXCEPT !.verdict = v]
        ELSE cards[j][k]]

\* "Rest of file" is reported only when it was used on every path of the request.
\* Fault: it is reported as soon as it was used.
AnyFileScope(j, sc, fs) == sc
EffectiveScope(j, sc, fs) ==
    IF sc = "file" /\ ~(PathsOf[j] \subseteq fs) THEN "one" ELSE sc

Finalize(j, cs, sc, fs, cl) ==
    LET yes == {i \in DOMAIN cs : cs[i].verdict = "accept"} IN
    IF cl THEN [verdict |-> "reject", scope |-> "one", accepted |-> {}]
    ELSE [verdict  |-> IF yes = {} THEN "reject" ELSE IF yes = DOMAIN cs THEN "accept" ELSE "partial",
          scope    |-> EffectiveScope(j, sc, fs),
          accepted |-> UNION {CardsOf[j][i].hunks : i \in yes}]

-------------------------------------------------------------------------------
(* Showing reviews. *)

Unstarted(j) ==
    [i \in CardIds(j) |->
        [explain |-> IF CardsOf[j][i].self THEN "done" ELSE "pending", text |-> {}, verdict |-> "none"]]
NoRuns(j) == [i \in CardIds(j) |-> [phase |-> "none", tries |-> 0, live |-> {}]]

\* pump, when no review is active: the next one is shown and explained.  cs and
\* rs are the cards and calls of all reviews at that moment.
Pump(q, cs, rs) ==
    IF q = <<>>
    THEN /\ active' = NoJob /\ queue' = <<>> /\ cards' = cs /\ runs' = rs
         /\ UNCHANGED panel
    ELSE LET n == Head(q) IN
         /\ active' = n
         /\ queue' = Tail(q)
         /\ panel' = TRUE
         /\ cards' = [cs EXCEPT ![n] = ScheduledCards(n, cs[n], rs[n], 1)]
         /\ runs' = [rs EXCEPT ![n] = ScheduledRuns(n, cs[n], rs[n], 1)]

Review(j) ==
    /\ j # active /\ j \notin done /\ \A k \in DOMAIN queue : queue[k] # j
    /\ IF disposed
       THEN /\ done' = done \cup {j}
            /\ closed' = [closed EXCEPT ![j] = TRUE]
            /\ decision' = [decision EXCEPT ![j] = Finalize(j, cards[j], "one", {}, TRUE)]
            /\ UNCHANGED <<queue, active, panel, cards, runs>>
       ELSE /\ IF active = NoJob THEN Pump(Append(queue, j), cards, runs)
               ELSE queue' = Append(queue, j) /\ UNCHANGED <<active, panel, cards, runs>>
            /\ UNCHANGED <<done, closed, decision>>
    /\ UNCHANGED <<disposed, current, scope, files, asked, retries, webview>>

\* Fault: the next review is not shown.
FinishOnly(j, cs, sc, fs, cl) ==
    /\ done' = done \cup {j}
    /\ decision' = [decision EXCEPT ![j] = Finalize(j, cs, sc, fs, cl)]
    /\ active' = NoJob
    /\ cards' = [cards EXCEPT ![j] = cs]
    /\ runs' = [runs EXCEPT ![j] = NoRuns(j)]
    /\ UNCHANGED <<queue, panel>>
\* finish: the calls are cancelled, the gate gets its decision, the next review
\* is shown.  cs: the final card states; cl: closed without a decision.
Finish(j, cs, sc, fs, cl) ==
    /\ done' = done \cup {j}
    /\ decision' = [decision EXCEPT ![j] = Finalize(j, cs, sc, fs, cl)]
    /\ Pump(queue, [cards EXCEPT ![j] = cs], [runs EXCEPT ![j] = NoRuns(j)])

-------------------------------------------------------------------------------
(* The explanations: runExplain of card i of the active review. *)

Explaining(j, i) ==
    /\ j = active
    /\ i \in CardIds(j)
    /\ UNCHANGED <<presenter, current, scope, files, closed, asked, decision, retries, webview>>

\* Fault: the free place is not used.
CallOverOnly(j, i, c, r) ==
    /\ cards' = [cards EXCEPT ![j][i] = c]
    /\ runs' = [runs EXCEPT ![j][i] = [r EXCEPT !.phase = "none"]]
\* The call of card i is over: another card may be explained.
CallOver(j, i, c, r) ==
    LET cs == [cards[j] EXCEPT ![i] = c]
        rs == [runs[j] EXCEPT ![i] = [r EXCEPT !.phase = "none"]]
    IN  /\ cards' = [cards EXCEPT ![j] = ScheduledCards(j, cs, rs, current[j])]
        /\ runs' = [runs EXCEPT ![j] = ScheduledRuns(j, cs, rs, current[j])]

ExplainChunk(j, i, k) ==
    /\ Explaining(j, i)
    /\ k \in runs[j][i].live
    /\ cards[j][i].explain \notin {"done", "error"}
    /\ cards' = [cards EXCEPT ![j][i].explain = "streaming", ![j][i].text = @ \cup {k}]
    /\ UNCHANGED runs

ExplainDone(j, i) ==
    /\ Explaining(j, i)
    /\ runs[j][i].phase \in {"first", "second"}
    /\ CallOver(j, i, [cards[j][i] EXCEPT !.explain = "done"], runs[j][i])

Cancelled(r) == [r EXCEPT !.live = @ \ {r.tries}]

\* A timeout, an empty answer or an error: retried once, after a pause ...
ExplainFails(j, i) ==
    /\ Explaining(j, i)
    /\ runs[j][i].phase = "first"
    /\ runs' = [runs EXCEPT ![j][i] = [Cancelled(@) EXCEPT !.phase = "backoff"]]
    /\ UNCHANGED cards

RetryExplain(j, i) ==
    /\ Explaining(j, i)
    /\ runs[j][i].phase = "backoff"
    /\ cards' = [cards EXCEPT ![j][i] = Started(@)]
    /\ runs' = [runs EXCEPT ![j][i] = NextTry(@, "second")]

\* ... and then, or when the assistant's call was cancelled, given up.
GivesUp(c) == IF c.explain = "done" THEN c ELSE [c EXCEPT !.explain = "error"]
ExplainError(j, i) ==
    /\ Explaining(j, i)
    /\ runs[j][i].phase \in {"first", "second"}
    /\ CallOver(j, i, GivesUp(cards[j][i]), Cancelled(runs[j][i]))

-------------------------------------------------------------------------------
(* The webview: what it shows, what is clicked there.                       *)

Shown == IF active = NoJob THEN Idle
         ELSE [job |-> active, card |-> current[active],
               explain |-> cards[active][current[active]].explain]
\* The render and explain messages posted so far have arrived.
Render ==
    /\ panel
    /\ view # Shown
    /\ view' = Shown
    /\ UNCHANGED <<review, presenter, decision, mail>>

\* The buttons of the card being decided.
Offered(v, kind) ==
    CASE kind = "reject" -> TRUE
      [] kind = "retry" -> v.explain = "error"
      [] kind = "acceptSession" -> AllowSession /\ v.explain = "done"
      [] OTHER -> v.explain = "done"

\* The message says what to do with which card; job, of which review the person
\* saw that card, is not in it and only for the properties.
Message(kind) == [kind |-> kind, card |-> view.card, job |-> view.job]
Press(kind) ==
    /\ panel
    /\ view.job # NoJob
    /\ Offered(view, kind)
    /\ kind = "retry" => retries < MaxRetries
    /\ Len(mail) < MaxMail
    /\ mail' = Append(mail, Message(kind))
    /\ UNCHANGED <<review, presenter, decision, view>>

-------------------------------------------------------------------------------
(* dispatch: one message of the webview, on whatever review is active.      *)

Widening(m) == {<<m.kind, m.card>>} \cap ({"acceptFile", "acceptSession"} \X Nat)
Deliver(kind) ==
    /\ mail # <<>>
    /\ active # NoJob
    /\ Head(mail).kind = kind
    /\ mail' = Tail(mail)
    /\ asked' = [asked EXCEPT ![active] = @ \cup Widening(Head(mail))]
    /\ UNCHANGED <<disposed, view, closed>>

\* The card states after a decision: the review is complete, or moves on.
Advance(j, cs, sc, fs) ==
    /\ scope' = [scope EXCEPT ![j] = sc]
    /\ files' = [files EXCEPT ![j] = fs]
    /\ current' = [current EXCEPT ![j] = FirstUndecided(cs, current[j])]
    /\ UNCHANGED retries
    /\ IF Complete(cs)
       THEN Finish(j, cs, sc, fs, FALSE)
       ELSE /\ cards' = [cards EXCEPT ![j] = ScheduledCards(j, cs, runs[j], current'[j])]
            /\ runs' = [runs EXCEPT ![j] = ScheduledRuns(j, cs, runs[j], current'[j])]
            /\ UNCHANGED <<queue, active, done, panel, decision>>

Target == Head(mail).card
Accept ==
    /\ Deliver("accept")
    /\ Acceptable(active, Target)
    /\ Advance(active, Chosen(active, {Target}, "accept"), scope[active], files[active])

Reject ==
    /\ Deliver("reject")
    /\ CurrentCard(active, Target)
    /\ Advance(active, Chosen(active, {Target}, "reject"), scope[active], files[active])

AcceptFile ==
    /\ Deliver("acceptFile")
    /\ Acceptable(active, Target)
    /\ Advance(active, Chosen(active, RestOfFile(active, Target), "accept"),
               IF scope[active] = "one" THEN "file" ELSE scope[active],
               files[active] \cup {CardsOf[active][Target].path})

AcceptSession ==
    /\ Deliver("acceptSession")
    /\ AllowSession
    /\ Acceptable(active, Target)
    /\ Advance(active, Chosen(active, RestOfSession(active, Target), "accept"), "session", files[active])

\* Retry on a failed explanation: the card is asked for again.
Retry ==
    /\ Deliver("retry")
    /\ Target \in CardIds(active)
    /\ cards[active][Target].explain = "error"
    /\ retries < MaxRetries
    /\ retries' = retries + 1
    /\ LET cs == [cards[active] EXCEPT ![Target].explain = "pending", ![Target].text = {}]
       IN  /\ cards' = [cards EXCEPT ![active] = ScheduledCards(active, cs, runs[active], current[active])]
           /\ runs' = [runs EXCEPT ![active] = ScheduledRuns(active, cs, runs[active], current[active])]
    /\ UNCHANGED <<current, scope, files, queue, active, done, panel, decision>>

\* Refused, or without effect: no review, another card's turn, not explained.
Obeyed(m) ==
    CASE m.kind = "reject" -> CurrentCard(active, m.card)
      [] m.kind = "retry" -> /\ m.card \in CardIds(active)
                             /\ cards[active][m.card].explain = "error"
                             /\ retries < MaxRetries
      [] m.kind = "acceptSession" -> AllowSession /\ Acceptable(active, m.card)
      [] OTHER -> Acceptable(active, m.card)
Refused ==
    /\ mail # <<>>
    /\ active # NoJob => ~Obeyed(Head(mail))
    /\ mail' = Tail(mail)
    /\ UNCHANGED <<review, presenter, decision, view>>

-------------------------------------------------------------------------------
(* The panel's end, and the presenter's.                                    *)

\* The person closes the panel: the active review is rejected, the next one
\* opens a panel of its own.  Clicks on their way are lost.
ClosePanel ==
    /\ panel
    /\ view' = Idle
    /\ mail' = <<>>
    /\ IF active = NoJob
       THEN panel' = FALSE /\ UNCHANGED <<queue, active, done, cards, runs, closed, decision>>
       ELSE /\ closed' = [closed EXCEPT ![active] = TRUE]
            /\ done' = done \cup {active}
            /\ decision' = [decision EXCEPT ![active] =
                   Finalize(active, cards[active], scope[active], files[active], TRUE)]
            /\ LET rs == [runs EXCEPT ![active] = NoRuns(active)]
               IN  IF queue = <<>>
                   THEN /\ active' = NoJob /\ panel' = FALSE /\ runs' = rs
                        /\ UNCHANGED <<queue, cards>>
                   ELSE Pump(queue, cards, rs)
    /\ UNCHANGED <<disposed, current, scope, files, asked, retries>>

Open == {queue[k] : k \in DOMAIN queue} \cup ({active} \ {NoJob})
Dispose ==
    /\ ~disposed
    /\ disposed' = TRUE
    /\ queue' = <<>>
    /\ active' = NoJob
    /\ done' = done \cup Open
    /\ closed' = [j \in Jobs |-> closed[j] \/ j \in Open]
    /\ decision' = [j \in Jobs |->
           IF j \in Open THEN Finalize(j, cards[j], scope[j], files[j], TRUE) ELSE decision[j]]
    /\ runs' = [j \in Jobs |-> IF j \in Open THEN NoRuns(j) ELSE runs[j]]
    /\ panel' = FALSE
    /\ view' = Idle
    /\ mail' = <<>>
    /\ UNCHANGED <<cards, current, scope, files, asked, retries>>

-------------------------------------------------------------------------------
Init ==
    /\ queue = <<>> /\ active = NoJob /\ done = {}
    /\ disposed = FALSE /\ panel = FALSE
    /\ cards = [j \in Jobs |-> Unstarted(j)]
    /\ current = [j \in Jobs |-> 1]
    /\ scope = [j \in Jobs |-> "one"]
    /\ files = [j \in Jobs |-> {}]
    /\ closed = [j \in Jobs |-> FALSE]
    /\ asked = [j \in Jobs |-> {}]
    /\ runs = [j \in Jobs |-> NoRuns(j)]
    /\ retries = 0
    /\ decision = [j \in Jobs |-> NoDecision]
    /\ view = Idle
    /\ mail = <<>>

Explain(j, i) ==
    \/ ExplainDone(j, i)
    \/ ExplainFails(j, i)
    \/ RetryExplain(j, i)
    \/ ExplainError(j, i)
Dispatch == Accept \/ Reject \/ AcceptFile \/ AcceptSession \/ Retry \/ Refused
Next ==
    \/ \E j \in Jobs : Review(j)
    \/ \E j \in Jobs : \E i \in CardIds(j) : Explain(j, i) \/ \E k \in Attempts : ExplainChunk(j, i, k)
    \/ Render
    \/ \E kind \in Click : Press(kind)
    \/ Dispatch
    \/ ClosePanel
    \/ Dispose

Spec == Init /\ [][Next]_vars

(***************************************************************************)
(* Fairness: calls to the assistant end (they have a timeout; a card is    *)
(* asked for finitely often, so all of them do), messages between host and *)
(* webview arrive, and a patient person waits for the explanation, then    *)
(* accepts, or rejects what could not be explained.                        *)
(***************************************************************************)
PatientPress == Press("accept") \/ (view.explain = "error" /\ Press("reject"))
Fairness ==
    /\ WF_vars(\E j \in Jobs : \E i \in CardIds(j) : Explain(j, i))
    /\ WF_vars(Render)
    /\ WF_vars(Dispatch)
    /\ WF_vars(PatientPress)

FairSpec == Spec /\ Fairness
=============================================================================
