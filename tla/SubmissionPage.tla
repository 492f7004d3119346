--------------------------- MODULE SubmissionPage ---------------------------
(***************************************************************************)
(* frontend/src/pages/SubmissionDetail.tsx and the verification workflow   *)
(* panel beside BountyHub.  The page reads the submission, its lifecycle   *)
(* and its project in three reads of their own, each answered by the chain *)
(* or by the read cache of the tab, and computes from whatever it has got  *)
(* so far how far the case is and what the visitor may do.  The dispute    *)
(* window it judges by the browser's clock, as it stood when the page was  *)
(* last rendered: time that passes does not render it again.               *)
(***************************************************************************)
EXTENDS BountyHub, TLC

Report == INSTANCE ReportEnvelope

CONSTANTS
  Unread,                   \* what a read has not answered yet
  DefaultJuryWindow, DefaultAdjudicationWindow,
  ClockLag, ClockLead       \* how far a browser's clock may be behind the chain's, and ahead of it

VARIABLE page   \* by submission: what its page last fetched and what of it is on screen

pageVars == <<vars, page>>

ASSUME PageAssumption == Unread \notin Submission /\ ClockLag \in Nat /\ ClockLead \in Nat

NoPage == [seen |-> Unread,          \* the answer to submissions(id)
           known |-> Unread,         \* the answer to getSubmissionLifecycle(id)
           hasLifecycle |-> FALSE,   \* known is part of what is shown
           hasProject |-> FALSE,     \* the project is part of what is shown
           rendered |-> 0,           \* Date.now() of the last rendering
           mounted |-> FALSE,        \* the panel is on screen
           draft |-> Unread]         \* the report in the panel's text area

LifecycleView(s) ==
  [status |-> submissions[s].status, source |-> lifecycle[s].verdictSource,
   juryDeadline |-> lifecycle[s].juryDeadline,
   adjudicationDeadline |-> lifecycle[s].adjudicationDeadline]

\* getActualStatus: a submission read as rejected or in adjudication stays that way,
\* otherwise the lifecycle read, which may be older or newer, is believed.
ActualStatus(p) ==
  IF p.seen.status \in {"Invalid", "JuryPending", "AwaitingOwnerAdjudication"} \/ ~p.hasLifecycle
  THEN p.seen.status ELSE p.known.status

ShownSource(p) == IF p.hasLifecycle THEN p.known.source ELSE "None"

\* A deadline of zero is not shown.
ShownDeadlines(p) ==
  IF p.hasLifecycle THEN [jury |-> p.known.juryDeadline, owner |-> p.known.adjudicationDeadline]
  ELSE [jury |-> 0, owner |-> 0]

-----------------------------------------------------------------------------
(* What the page shows of the case, by stage, by node and by card *)

InAdjudication == {"JuryPending", "AwaitingOwnerAdjudication"}

VerifyStage(p) ==
  IF ActualStatus(p) = "Committed" THEN "upcoming"
  ELSE IF ActualStatus(p) = "Revealed" THEN "active" ELSE "completed"

JuryStage(p) ==
  IF ActualStatus(p) = "JuryPending" THEN "active"
  ELSE IF ActualStatus(p) = "AwaitingOwnerAdjudication" THEN "completed"
  ELSE [None |-> "upcoming", Verification |-> "skipped",
        Jury |-> "completed", Owner |-> "completed"][ShownSource(p)]

OwnerStage(p) ==
  IF ActualStatus(p) = "AwaitingOwnerAdjudication" THEN "active"
  ELSE [None |-> "upcoming", Verification |-> "skipped",
        Jury |-> "skipped", Owner |-> "completed"][ShownSource(p)]

WriteBackNode(p) ==
  IF ActualStatus(p) \in InAdjudication THEN "upcoming"
  ELSE IF ShownSource(p) # "None" THEN "completed"
  ELSE IF ActualStatus(p) \in {"Committed", "Revealed"} THEN "upcoming" ELSE "active"

\* The last stage is active whenever the case is not in adjudication, from the commit on.
FinalStage(p) == IF ActualStatus(p) \in InAdjudication THEN "upcoming" ELSE "active"

\* resolveStageState of every stage: verification, jury and owner are as their nodes are
Stages(p) ==
  [committed |-> "completed",
   revealed |-> IF ActualStatus(p) # "Committed" THEN "completed" ELSE "active",
   verification |-> VerifyStage(p), jury |-> JuryStage(p), owner |-> OwnerStage(p),
   final |-> FinalStage(p)]

NodeStatuses(p) ==
  [verifyPoc |-> VerifyStage(p), jury |-> JuryStage(p), owner |-> OwnerStage(p),
   writeBack |-> WriteBackNode(p)]

\* buildJuryAggregate: what is public of the jury, once the case has come to it
JuryAggregate(p) ==
  IF ActualStatus(p) \notin InAdjudication /\ ShownSource(p) \notin {"Jury", "Owner"} THEN Unread
  ELSE [deadline |-> ShownDeadlines(p).jury, source |-> ShownSource(p)]

\* getSubmissionTimeline: the steps that are ticked off
Timeline(p) ==
  LET status == ActualStatus(p)
  IN  {"Committed"} \cup (IF status # "Committed" THEN {"Revealed"} ELSE {})
        \cup (IF status \in {"Verified", "Finalized"} THEN {"Verified"} ELSE {})
        \cup (IF status \in {"Invalid", "Finalized"} THEN {status} ELSE {})

\* The headline, by the first of the conditions that holds
Headline(p) ==
  LET status == ActualStatus(p)
  IN  IF status = "Revealed" THEN "in verification"
      ELSE IF status = "JuryPending" THEN "jury is open"
      ELSE IF status = "AwaitingOwnerAdjudication" THEN "owner is asked"
      ELSE IF status = "Disputed" THEN "disputed"
      ELSE IF status = "Invalid" THEN "invalid"
      ELSE [None |-> "final", Verification |-> "verification decided",
            Jury |-> "jury decided", Owner |-> "owner decided"][ShownSource(p)]

\* The four cards: what each says of its branch, "idle" when it only explains it
Cards(p) ==
  LET status == ActualStatus(p)
      source == ShownSource(p)
  IN  [verification |-> IF status \in InAdjudication THEN "moved on"
                        ELSE IF source = "Verification" THEN "settled" ELSE "idle",
       jury |-> IF status = "JuryPending" THEN "active" ELSE "idle",
       owner |-> IF status = "AwaitingOwnerAdjudication" THEN "open"
                 ELSE IF source = "Owner" THEN "settled" ELSE "idle",
       final |-> IF source # "None" THEN "packaged" ELSE "idle"]

-----------------------------------------------------------------------------
(* What the page offers *)

DisputeWindowOpen(p) ==
  p.seen.disputeDeadline > 0 /\ p.seen.disputeDeadline >= p.rendered
NoWindowOpen(p) == ~DisputeWindowOpen(p)   \* a variant with a fault, not used below
DisputeWindowClosed(p) ==
  p.seen.disputeDeadline > 0 /\ p.rendered > p.seen.disputeDeadline

OffersChallenge(p) ==
  ActualStatus(p) = "Verified" /\ ~p.seen.challenged /\ DisputeWindowOpen(p)

OffersResolve(p) ==
  ActualStatus(p) = "Disputed" /\ p.seen.challenged /\ DisputeWindowOpen(p)

OffersFinalize(p) ==
  ActualStatus(p) \in {"Verified", "Disputed"} /\ DisputeWindowClosed(p)

SeverityIndex == [NONE |-> 0, LOW |-> 1, MEDIUM |-> 2, HIGH |-> 3, CRITICAL |-> 4]

\* buildManualJuryDemoDraft: a verified report for the manual jury run, put together from
\* what the page knows.  While the project is not read its windows are a guess.  A commit
\* has some positive time; a verdict that accepted the finding has left a drain.
ManualJuryDraft(p, s) ==
  IF ActualStatus(p) \notin InAdjudication THEN Unread
  ELSE Report!StrictFail(s, FALSE, IF p.seen.severity = "NONE" THEN 0 ELSE 1,
         [juryWindow |-> IF p.hasProject THEN ConfigOf(s).juryWindow ELSE DefaultJuryWindow,
          adjudicationWindow |-> IF p.hasProject THEN ConfigOf(s).adjudicationWindow
                                                 ELSE DefaultAdjudicationWindow,
          committed |-> StartTime, revealed |-> p.seen.revealTimestamp],
         SeverityIndex[p.seen.severity], "NONE")

\* buildAutoRevealDemoDraft: a cycle of the relayer, for a submission not yet revealed
OffersAutoReveal(p) == ActualStatus(p) = "Committed" /\ p.seen.revealTimestamp = 0

\* buildOwnerAdjudicationDraft: a form for the owner's testimony, with its deadline
OwnerDraft(p) ==
  IF ActualStatus(p) # "AwaitingOwnerAdjudication" THEN Unread
  ELSE [deadline |-> ShownDeadlines(p).owner]

\* buildVerificationWorkflowViewModel: what the panel is given
ViewModel(p, s) ==
  [headline |-> Headline(p), stages |-> Stages(p), nodes |-> NodeStatuses(p), cards |-> Cards(p),
   juryAggregate |-> JuryAggregate(p), autoReveal |-> OffersAutoReveal(p), manualJury |-> ManualJuryDraft(p, s),
   owner |-> OwnerDraft(p)]

-----------------------------------------------------------------------------
PageInit == Init /\ page = [s \in SubmissionIds |-> NoPage]

\* runCachedRead: a read that was made less than ten seconds ago is not made again.
Answers(fresh, cached) == {fresh} \cup ({cached} \ {Unread})

\* The page is rendered, with p for what it holds, whenever that changes: the browser's
\* clock is read then, and not again until the next time.
Renders(s, p) ==
  \E clock \in (now - ClockLag) .. (now + ClockLead) :
    page' = [page EXCEPT ![s] = [p EXCEPT !.rendered = clock]]

\* The page is opened: everything it shows comes from a new round of reads.
OpenPage(s) ==
  /\ s < nextSubmissionId
  /\ \E sub \in Answers(submissions[s], page[s].seen) :
       Renders(s, [NoPage EXCEPT !.seen = sub, !.known = page[s].known])
  /\ UNCHANGED vars

\* The lifecycle, the jury's and the grouping's metadata arrive together; a read that
\* fails leaves the page without them.
ShowLifecycle(s) ==
  /\ page[s].seen # Unread /\ ~page[s].hasLifecycle
  /\ \E view \in Answers(LifecycleView(s), page[s].known) :
       Renders(s, [page[s] EXCEPT !.known = view, !.hasLifecycle = TRUE])
  /\ UNCHANGED vars

ShowProject(s) ==
  /\ page[s].seen # Unread /\ ~page[s].hasProject
  /\ Renders(s, [page[s] EXCEPT !.hasProject = TRUE])
  /\ UNCHANGED vars

\* The panel fills its text area when it first appears, with what the page knows then,
\* and never again.
Mount(s) ==
  /\ page[s].seen # Unread /\ ~page[s].mounted
  /\ Renders(s, [page[s] EXCEPT !.mounted = TRUE, !.draft = ViewModel(page[s], s).manualJury])
  /\ UNCHANGED vars

\* After a challenge, a resolution or a finalization of its own the page drops the read
\* cache and reads again, under a new request id that silences the reads under way.
Refresh(s) ==
  /\ page[s].mounted /\ Accepted(s)
  /\ Renders(s, [page[s] EXCEPT !.seen = submissions[s], !.known = Unread, !.hasLifecycle = FALSE])
  /\ UNCHANGED vars

\* Anything else that renders the page: a wallet connected, an action begun, an error shown.
Rerender(s) ==
  /\ page[s].seen # Unread
  /\ Renders(s, page[s])
  /\ UNCHANGED vars

PageStep ==
  \E s \in SubmissionIds :
    OpenPage(s) \/ ShowLifecycle(s) \/ ShowProject(s) \/ Mount(s) \/ Refresh(s) \/ Rerender(s)

PageNext == (Next /\ UNCHANGED page) \/ PageStep

PageSpec == PageInit /\ [][PageNext]_pageVars

-----------------------------------------------------------------------------
Shown == {s \in SubmissionIds : page[s].mounted}

OffersRight(s) ==
  LET p   == page[s]
      sub == submissions[s]
  IN  /\ OffersFinalize(p) =>
           \/ sub.status \in {"Verified", "Disputed"} /\ now + ClockLead > sub.disputeDeadline
           \/ sub.status \in {"Finalized", "Invalid"}
      /\ OffersChallenge(p) =>
           \/ sub.challenged
           \/ sub.status = "Verified"
           \/ sub.status = "Finalized" /\ now > sub.disputeDeadline
      /\ OffersResolve(p) => sub.challenged

(* However old its reads are and in whichever order they were answered, Finalize is not   *)
(* offered before the contract takes it, but for as long as the browser's clock is ahead, *)
(* Challenge is not offered without an accepted verdict, and Resolve not without a        *)
(* challenge.  Each may be offered too late: a page that is not rendered again goes on    *)
(* offering what the window that has closed since allowed.                                *)
OffersFollowTheCase == \A s \in Shown : OffersRight(s)

StagesTrue(s) ==
  LET view   == ViewModel(page[s], s)
      nodes  == view.nodes
      cards  == view.cards
      record == lifecycle[s]
      beforeOwner == \/ submissions[s].status = "AwaitingOwnerAdjudication"
                     \/ record.verdictSource = "Owner"
  IN  /\ view.stages.revealed = "completed" => submissions[s].status # "Committed"
      /\ view.stages.final = "upcoming"     => record.juryDeadline > 0
      /\ nodes.verifyPoc = "completed" => submissions[s].status \notin {"Committed", "Revealed"}
      /\ nodes.jury \in {"active", "completed"} => record.juryDeadline > 0
      /\ nodes.jury = "skipped" => record.verdictSource = "Verification"
      /\ nodes.owner \in {"active", "completed"} => beforeOwner
      /\ nodes.owner = "skipped" => record.verdictSource \in {"Verification", "Jury"}
      /\ nodes.writeBack \in {"active", "completed"} => record.verdictSource # "None"
      /\ Timeline(page[s]) \cap {"Finalized", "Invalid"} \subseteq {submissions[s].status}
      /\ "Verified" \in Timeline(page[s]) => record.finalValidity = "Valid"
      /\ view.headline = "in verification" => submissions[s].status # "Committed"
      /\ view.headline = "jury is open"    => record.juryDeadline > 0
      /\ view.headline = "owner is asked"  => beforeOwner
      /\ view.headline = "verification decided" => record.verdictSource = "Verification"
      /\ view.headline = "jury decided"    => record.verdictSource = "Jury"
      /\ view.headline = "owner decided"   => record.verdictSource = "Owner"
      /\ view.headline = "disputed"        => submissions[s].challenged
      /\ view.headline = "invalid"         => submissions[s].status = "Invalid"
      /\ cards.verification = "moved on"   => record.juryDeadline > 0
      /\ cards.verification = "settled"    => record.verdictSource = "Verification"
      /\ cards.owner = "settled"           => record.verdictSource = "Owner"
      /\ cards.final = "packaged"          => record.verdictSource # "None"
      /\ view.juryAggregate # Unread => view.juryAggregate.deadline \in {0, record.juryDeadline}
      /\ view.owner # Unread         => view.owner.deadline \in {0, record.adjudicationDeadline}
      /\ view.autoReveal             => view.juryAggregate = Unread /\ nodes.writeBack = "upcoming"

(* What the page says of a case has happened to it on chain, though the two halves of it  *)
(* were read at different times: a node, a card or a headline that shows a branch as      *)
(* entered, passed over or decided, a result as written back or rejected, and a deadline. *)
(* It is not said of the two things the page says without a verdict, the active Final     *)
(* Result stage and the headline that goes with it.                                       *)
StagesNeverLie == \A s \in Shown : StagesTrue(s)

(* A report drafted by the page that the jury workflow opens a case from is about a       *)
(* submission the contract has sent to the jury, counts from its reveal, and sets the     *)
(* deadlines the contract recorded, unless the windows in it are the page's guess.        *)
DraftDatesTheCase ==
  \A s \in SubmissionIds :
    LET e == page[s].draft
    IN  (e # Unread /\ Report!OpensCase(e)) =>
          /\ e.adjudication.revealTimestampSec = submissions[s].revealTimestamp
          /\ \/ e.adjudication.juryWindow = DefaultJuryWindow
             \/ Report!Deadlines(e) = [jury |-> lifecycle[s].juryDeadline,
                                       adjudication |-> lifecycle[s].adjudicationDeadline]
=============================================================================
