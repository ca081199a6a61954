---------------------------- MODULE PanelReview ----------------------------
(***************************************************************************)
(* The agent panel review: a workflow that curates the comments on issues  *)
(* labelled panel-review.  A label starts a job that posts the brief; a    *)
(* sweep, weekly or asked for, posts on every labelled issue a status, the *)
(* brief and a summary of the panelists' opinions.  GitHub runs one job of *)
(* the group at a time and cancels it when the next one starts, so a job   *)
(* may end between any two of its requests.                                *)
(***************************************************************************)
EXTENDS Naturals, SequencesExt, FiniteSetsExt

CONSTANTS
    PvIssue,          \* issues, by age
    PvLocked,         \* those on which no comment can be made
    PvAgent,          \* panelists
    PvSays,           \* what may be said, by whom
    PvOpinions,       \* bound: opinions posted
    PvEvents,         \* bound: labels added, sweeps asked for
    PvFaults          \* bound: requests to GitHub that fail

MIN_OPINIONS_FOR_SUMMARY == 2
MAX_RETRIES == 3
Stance == {"support", "oppose", "modify"}

ASSUME PanelAssumption ==
    /\ PvIssue \subseteq Nat /\ PvLocked \subseteq PvIssue
    /\ PvSays \subseteq [by : PvAgent, stance : Stance]
    /\ {PvOpinions, PvEvents, PvFaults} \subseteq Nat

VARIABLES
    pvLabelled,     \* open issues that carry panel-review
    pvOpinions,     \* the panelists' comments on an issue, oldest first
    pvPosted,       \* the script's comments on it, by the marker they carry;
                    \* two stand for any number
    pvSummary,      \* the last summary of an issue
    pvJob,          \* the job of the concurrency group
    pvEvents, pvFaults

pvVars == <<pvLabelled, pvOpinions, pvPosted, pvSummary, pvJob, pvEvents,
          pvFaults>>

\* What a comment of the script starts with.  The marker a summary is looked
\* for by is not the one it is posted with.
BRIEF_MARKER == "panel-review:brief"
STATUS_MARKER == "panel-review:status"
SUMMARY_MARKER == "panel-review:summary"
Posted == "panel-summary"
Marker == {BRIEF_MARKER, STATUS_MARKER, SUMMARY_MARKER, Posted}

Unheard == [votes |-> <<>>, stance |-> "undecided", level |-> "insufficient"]

\* A job: the issues it still has to do and the steps left for the first of
\* them.  A look at the comments of that issue is good for one comment; the
\* opinions it saw are what a summary is made of.
Job(run, mode, todo, plan) ==
  [run |-> run, mode |-> mode, todo |-> todo, plan |-> plan,
   looked |-> FALSE, seen |-> <<>>, tries |-> 1]
Idle == Job("none", "both", <<>>, <<>>)

PvInit ==
  /\ pvLabelled = {} /\ pvOpinions = [i \in PvIssue |-> <<>>]
  /\ pvPosted = [i \in PvIssue |-> [m \in Marker |-> 0]]
  /\ pvSummary = [i \in PvIssue |-> Unheard]
  /\ pvJob = Idle
  /\ pvEvents = 0 /\ pvFaults = 0
------------------------------------------------------------------------------

\* The opinion that counts is the last one of each panelist.
Votes(opinions) ==
  [a \in {opinions[k].by : k \in DOMAIN opinions} |->
     opinions[Max({k \in DOMAIN opinions : opinions[k].by = a})].stance]

Tally(votes, stance) == Cardinality({a \in DOMAIN votes : votes[a] = stance})

\* calculateConsensus: the percentage is rounded half up.
Percent(most, total) == (200 * most + total) \div (2 * total)
Level(percent) ==
  CASE percent = 100 -> "unanimous"
    [] percent \in 76..99 -> "strong"
    [] percent \in 50..75 -> "moderate"
    [] percent < 50 -> "weak"
DominantStance(support, oppose, modify) ==
  LET most == Max({support, oppose, modify})
  IN CASE support > oppose /\ support > modify -> "support"
       [] oppose > support /\ oppose > modify -> "oppose"
       [] modify > support /\ modify > oppose -> "modify"
       [] OTHER -> IF support > 0 /\ support = oppose THEN "contested"
                   ELSE IF most = 0 THEN "undecided"
                   ELSE IF support = most THEN "support" ELSE "oppose"

Summary(opinions) ==
  LET votes == Votes(opinions)
      T(stance) == Tally(votes, stance)
      most == Max({T(s) : s \in Stance})
  IN [votes |-> votes,
      stance |-> DominantStance(T("support"), T("oppose"), T("modify")),
      level |-> Level(Percent(most, Cardinality(DOMAIN votes)))]
------------------------------------------------------------------------------
\* What a sweep does with one issue, in this order.
Plan(mode) ==
  <<"check", "status">>
    \o (IF mode \in {"brief", "both"} THEN <<"brief">> ELSE <<>>)
    \o (IF mode \in {"summarize", "both"} THEN <<"summarize">> ELSE <<>>)

NextIssue(job) ==
  IF Len(job.todo) = 1 THEN Idle
  ELSE Job(job.run, job.mode, Tail(job.todo), Plan(job.mode))

StepOn(job) ==
  IF Len(job.plan) = 1 THEN NextIssue(job)
  ELSE Job(job.run, job.mode, job.todo, Tail(job.plan))

\* withRetry: another attempt looks again; after the last one the sweep notes
\* the failure and goes on to the next issue.  The job of a label has one
\* attempt.
Attempt(job, next, last, given) ==
  CASE job.run = "label" -> Idle
    [] job.run # "label" /\ job.tries <= last -> next
    [] job.run # "label" /\ job.tries > last -> given
Again(job) ==
  [job EXCEPT !.tries = @ + 1, !.looked = FALSE, !.seen = <<>>]

\* Wrong: a sweep ends with the first issue it gives up.
RetryOnly(job) == Attempt(job, Again(job), MAX_RETRIES - 1, Idle)

Retry(job) == Attempt(job, Again(job), MAX_RETRIES - 1, NextIssue(job))

HasExistingConsensus(i) == pvPosted[i][SUMMARY_MARKER] > 0

\* The step finds its comment there, or too few opinions.
NothingToPost(step, i) ==
  \/ step = "status" /\ pvPosted[i][STATUS_MARKER] > 0
  \/ step = "brief" /\ pvPosted[i][BRIEF_MARKER] > 0
  \/ step = "summarize"
     /\ Cardinality(DOMAIN Votes(pvOpinions[i])) < MIN_OPINIONS_FOR_SUMMARY

MarkerOf(step) ==
  CASE step = "status" -> STATUS_MARKER
    [] step = "brief" -> BRIEF_MARKER
    [] step = "summarize" -> Posted
------------------------------------------------------------------------------
\* Whatever starts a run of the workflow cancels the job under way: its own
\* label, any other label, and a sweep somebody asks for.
PvLabel(i) ==
  /\ pvEvents < PvEvents /\ i \notin pvLabelled
  /\ pvLabelled' = pvLabelled \cup {i}
  /\ pvJob' = Job("label", "brief", <<i>>, <<"brief">>)
  /\ pvEvents' = pvEvents + 1
  /\ UNCHANGED <<pvOpinions, pvPosted, pvSummary, pvFaults>>

PvOtherLabel ==
  /\ pvEvents < PvEvents /\ pvJob # Idle
  /\ pvJob' = Idle /\ pvEvents' = pvEvents + 1
  /\ UNCHANGED <<pvLabelled, pvOpinions, pvPosted, pvSummary, pvFaults>>

\* One issue may be named, whether it carries the label or not.
PvDispatch(mode) ==
  /\ pvEvents < PvEvents
  /\ \/ pvJob' = Job("sweep", mode, <<>>, <<"list">>)
     \/ \E i \in PvIssue : pvJob' = Job("sweep", mode, <<i>>, <<"list">>)
  /\ pvEvents' = pvEvents + 1
  /\ UNCHANGED <<pvLabelled, pvOpinions, pvPosted, pvSummary, pvFaults>>

\* A week is longer than the two hours a job may take.
PvCron ==
  /\ pvJob = Idle
  /\ pvJob' = Job("sweep", "both", <<>>, <<"list">>)
  /\ UNCHANGED <<pvLabelled, pvOpinions, pvPosted, pvSummary, pvEvents, pvFaults>>

PvUnlabel(i) ==
  /\ i \in pvLabelled
  /\ pvLabelled' = pvLabelled \ {i}
  /\ UNCHANGED <<pvOpinions, pvPosted, pvSummary, pvJob, pvEvents, pvFaults>>

PvOpinion(i, opinion) ==
  /\ i \notin PvLocked
  /\ FoldSet(LAMBDA k, n : n + Len(pvOpinions[k]), 0, PvIssue) < PvOpinions
  /\ pvOpinions' = [pvOpinions EXCEPT ![i] = Append(@, opinion)]
  /\ UNCHANGED <<pvLabelled, pvPosted, pvSummary, pvJob, pvEvents, pvFaults>>
------------------------------------------------------------------------------
At(step) == pvJob.plan # <<>> /\ Head(pvJob.plan) = step
Posting == At("status") \/ At("brief") \/ At("summarize")

\* The issues, the oldest first.
PvList ==
  /\ At("list")
  /\ LET todo == IF pvJob.todo # <<>> THEN pvJob.todo
                 ELSE SetToSortSeq(pvLabelled, LAMBDA i, j : i < j)
     IN pvJob' = IF todo = <<>> THEN Idle
                 ELSE Job("sweep", pvJob.mode, todo, Plan(pvJob.mode))
  /\ UNCHANGED <<pvLabelled, pvOpinions, pvPosted, pvSummary, pvEvents, pvFaults>>

PvCheck ==
  /\ At("check")
  /\ pvJob' = IF HasExistingConsensus(Head(pvJob.todo))
              THEN NextIssue(pvJob) ELSE StepOn(pvJob)
  /\ UNCHANGED <<pvLabelled, pvOpinions, pvPosted, pvSummary, pvEvents, pvFaults>>

PvLook ==
  /\ Posting /\ ~pvJob.looked
  /\ LET i == Head(pvJob.todo)
     IN pvJob' = IF NothingToPost(Head(pvJob.plan), i) THEN StepOn(pvJob)
                 ELSE [pvJob EXCEPT !.looked = TRUE,
                         !.seen = IF At("summarize") THEN pvOpinions[i] ELSE <<>>]
  /\ UNCHANGED <<pvLabelled, pvOpinions, pvPosted, pvSummary, pvEvents, pvFaults>>

Write(i, step) ==
  /\ pvPosted' = [pvPosted EXCEPT ![i][MarkerOf(step)] = Min({@ + 1, 2})]
  /\ pvSummary' = IF step = "summarize"
                  THEN [pvSummary EXCEPT ![i] = Summary(pvJob.seen)]
                  ELSE pvSummary

PvPost ==
  /\ Posting /\ pvJob.looked
  /\ Head(pvJob.todo) \notin PvLocked
  /\ Write(Head(pvJob.todo), Head(pvJob.plan))
  /\ pvJob' = StepOn(pvJob)
  /\ UNCHANGED <<pvLabelled, pvOpinions, pvEvents, pvFaults>>

\* The comment is made and the answer lost.
PvPostLost ==
  /\ Posting /\ pvJob.looked /\ pvFaults < PvFaults
  /\ Head(pvJob.todo) \notin PvLocked
  /\ Write(Head(pvJob.todo), Head(pvJob.plan))
  /\ pvJob' = Retry(pvJob)
  /\ pvFaults' = pvFaults + 1
  /\ UNCHANGED <<pvLabelled, pvOpinions, pvEvents>>

PvRefused ==
  /\ Posting /\ pvJob.looked
  /\ Head(pvJob.todo) \in PvLocked
  /\ pvJob' = Retry(pvJob)
  /\ UNCHANGED <<pvLabelled, pvOpinions, pvPosted, pvSummary, pvEvents, pvFaults>>

\* A request fails: without the list the sweep ends, without the first look
\* at an issue it goes on to the next.
PvFail ==
  /\ pvJob # Idle /\ pvFaults < PvFaults
  /\ pvJob' = IF At("list") THEN Idle
              ELSE IF At("check") THEN NextIssue(pvJob)
              ELSE Retry(pvJob)
  /\ pvFaults' = pvFaults + 1
  /\ UNCHANGED <<pvLabelled, pvOpinions, pvPosted, pvSummary, pvEvents>>

PvNext ==
  \/ \E i \in PvIssue : PvLabel(i) \/ PvUnlabel(i)
  \/ \E i \in PvIssue, opinion \in PvSays : PvOpinion(i, opinion)
  \/ \E mode \in {"brief", "summarize", "both"} : PvDispatch(mode)
  \/ PvOtherLabel \/ PvCron
  \/ PvList \/ PvCheck \/ PvLook \/ PvPost \/ PvPostLost \/ PvRefused \/ PvFail

\* The weekly sweep comes, and a job that is not cancelled goes on.
PvGoesOn == PvList \/ PvCheck \/ PvLook \/ PvPost \/ PvRefused
PvFairness == WF_pvVars(PvCron) /\ WF_pvVars(PvGoesOn)

PvSpec == PvInit /\ [][PvNext]_pvVars /\ PvFairness
------------------------------------------------------------------------------
PanelTypeOK ==
  /\ pvLabelled \subseteq PvIssue
  /\ \A i \in PvIssue :
       /\ pvOpinions[i] \in Seq(PvSays)
       /\ pvPosted[i] \in [Marker -> 0..2]
       /\ pvSummary[i].stance \in Stance \cup {"contested", "undecided"}
       /\ pvSummary[i].level \in
            {"unanimous", "strong", "moderate", "weak", "insufficient"}
  /\ pvJob.run \in {"none", "label", "sweep"}
  /\ pvJob.todo \in Seq(PvIssue) /\ pvJob.tries \in 1..MAX_RETRIES
  /\ pvEvents \in 0..PvEvents /\ pvFaults \in 0..PvFaults

\* An issue gets one brief and one status, however often a label is set, a
\* sweep is cancelled between its requests or a request is repeated whose
\* answer was lost.
PanelPostsOnce ==
  \A i \in PvIssue :
    pvPosted[i][BRIEF_MARKER] < 2 /\ pvPosted[i][STATUS_MARKER] < 2

\* A summary counts at least two panelists, each by the last thing it had
\* said at some moment, and no stance had more votes than the one it names;
\* it says contested only of a tie for the lead, and unanimous only when all
\* agree.
SummaryTrue ==
  \A i \in PvIssue : pvPosted[i][Posted] > 0 =>
    LET s == pvSummary[i]
        Lead(x) == \A y \in Stance : Tally(s.votes, y) <= Tally(s.votes, x)
    IN /\ \E n \in 0..Len(pvOpinions[i]) : \A a \in PvAgent :
            LET said == {k \in 1..n : pvOpinions[i][k].by = a}
            IN IF said = {} THEN a \notin DOMAIN s.votes
               ELSE /\ a \in DOMAIN s.votes
                    /\ \E k \in said : /\ pvOpinions[i][k].stance = s.votes[a]
                                       /\ \A j \in said : j <= k
       /\ Cardinality(DOMAIN s.votes) >= 2
       /\ s.stance \in Stance => Lead(s.stance)
       /\ s.stance = "contested" => Lead("support") /\ Lead("oppose")
       /\ s.stance # "undecided"
       /\ s.level = "unanimous" =>
            \A a, b \in DOMAIN s.votes : s.votes[a] = s.votes[b]


\* An issue that keeps its label is briefed, although jobs are cancelled and
\* requests fail, and although an older issue can never be commented on.
BriefComes ==
  \A i \in PvIssue \ PvLocked :
    i \in pvLabelled ~>
      (i \notin pvLabelled \/ pvPosted[i][BRIEF_MARKER] > 0)

\* "Skip if we already posted a summary for this opinion count."  An issue
\* gets no summary after one that counted just as many panelists.  It does not
\* hold, see the README.  No run checks it.
SummaryOnce ==
  [][\A i \in PvIssue :
       /\ pvSummary'[i] # pvSummary[i] \/ pvPosted'[i][Posted] > pvPosted[i][Posted]
       /\ pvPosted[i][Posted] > 0
       => Cardinality(DOMAIN pvSummary'[i].votes)
            # Cardinality(DOMAIN pvSummary[i].votes)]_pvVars
=============================================================================
