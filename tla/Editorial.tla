------------------------------ MODULE Editorial ------------------------------
(***************************************************************************)
(* From the selected topic of a Mission to its script: the research task    *)
(* and the content task of one MissionExecution (worker/tasks), and the     *)
(* services they share with the API (research_service, content_service).    *)
(*                                                                          *)
(* run_research and the last step of generate_content are one transaction   *)
(* under the lock of their request, so RUNNING is never seen by others.     *)
(* What is read before the lock stays in the session, and a column is       *)
(* written only when it differs from what the session remembers.            *)
(*                                                                          *)
(* Sources, claims, sections and citations are abstracted to whether the    *)
(* research is sufficient and whether the script passes QA; the topic is    *)
(* selected and stays so.                                                   *)
(***************************************************************************)
EXTENDS Integers, FiniteSets, FiniteSetsExt, Sequences, SequencesExt

CONSTANTS
    Worker,         \* workers of the research and content tasks, and callers of generate
    Request,        \* ResearchRequest rows the task may come to have
    Hook,           \* hooks of the content request
    DefaultHook,    \* the one the provider marks as selected
    MaxVersion,     \* bound of the versions of a brief and of a script
    MaxCalls        \* bound of the calls of the API

ASSUME ConstantsAssumption ==
    /\ IsFiniteSet(Request) /\ DefaultHook \in Hook
    /\ MaxVersion \in Nat \ {0} /\ MaxCalls \in Nat

VARIABLES
    research,   \* ResearchRequest rows of the task, with the versions of their brief
    content,    \* the ContentGenerationRequest of the task, with its script versions
    hooks,      \* hooks that are selected
    worker,     \* what each worker does and remembers
    cancelling, \* requests whose cancel has read its row and not yet written
    qa,         \* the run_qa under way
    calls,      \* calls of the API so far
    accepted    \* results of the tasks: briefs and scripts

vars == <<research, content, hooks, worker, cancelling, qa, calls, accepted>>

-----------------------------------------------------------------------------
Version == 1..MaxVersion
Outcome == {"NONE", "SUFFICIENT", "INSUFFICIENT"}
Verdict == {"PASSED", "BLOCKED"}

Brief == [current : BOOLEAN, outcome : Outcome \ {"NONE"}]
Script == [current : BOOLEAN, verdict : Verdict, hook : SUBSET Hook]
BriefId == Request \X Version

ResearchRow == [status : {"NONE", "PENDING", "SUCCEEDED", "CANCELLED"}, outcome : Outcome, briefs : BoundedSeq(Brief, MaxVersion)]
ContentRow == [status : {"NONE", "DRAFT", "SUCCEEDED", "CANCELLED"}, outcome : Verdict \cup {"NONE"},
               brief : {<<>>} \cup BriefId, scripts : BoundedSeq(Script, MaxVersion)]
WorkerState ==
    [pc : {"idle", "creating"}]
    \cup [pc : {"research"}, request : Request, status : {"PENDING", "SUCCEEDED", "CANCELLED"}, outcome : Outcome]
    \cup [pc : {"content"}, status : {"DRAFT", "SUCCEEDED", "CANCELLED"}, outcome : Verdict \cup {"NONE"}]
    \cup [pc : {"generating"}, outcome : Verdict \cup {"NONE"}]

Made == {b \in BriefId : b[2] \in DOMAIN research[b[1]].briefs}

\* The rows, what sessions remember of them, and the versions that a Mission was
\* given, which exist: the number of a version is taken before it is inserted.
TypeOK ==
    /\ \A r \in Request : research[r] \in ResearchRow
    /\ content \in ContentRow
    /\ hooks \subseteq Hook
    /\ \A w \in Worker : worker[w] \in WorkerState
    /\ cancelling \subseteq Request \cup {"content"}
    /\ qa \in [pc : {"idle"}] \cup [pc : {"opened"}, outcome : Verdict \cup {"NONE"}]
              \cup [pc : {"judging"}, outcome : Verdict \cup {"NONE"}, version : Version, current : BOOLEAN]
    /\ calls \in 0..MaxCalls
    /\ accepted \subseteq [task : {"research"}, brief : Made]
                         \cup [task : {"content"}, brief : Made, script : DOMAIN content.scripts]

Idle == [pc |-> "idle"]

Init ==
    /\ research = [r \in Request |-> [status |-> "NONE", outcome |-> "NONE", briefs |-> <<>>]]
    /\ content = [status |-> "NONE", outcome |-> "NONE", brief |-> <<>>, scripts |-> <<>>]
    /\ hooks = {}
    /\ worker = [w \in Worker |-> Idle]
    /\ cancelling = {}
    /\ qa = Idle
    /\ calls = 0
    /\ accepted = {}

-----------------------------------------------------------------------------
Goto(w, s) == worker' = [worker EXCEPT ![w] = s]
Researching(r, row) == [pc |-> "research", request |-> r, status |-> row.status, outcome |-> row.outcome]
Writing(row) == [pc |-> "content", status |-> row.status, outcome |-> row.outcome]
AcceptBrief(b) == accepted' = accepted \cup {[task |-> "research", brief |-> b]}
AcceptScript(v) == accepted' = accepted \cup {[task |-> "content", brief |-> content.brief, script |-> v]}

\* The new version is current, and no other.
\* Mutant: the last version stays current.
Appended(versions, row) == Append(versions, row)
Superseded(versions, row) == Append([v \in DOMAIN versions |-> [versions[v] EXCEPT !.current = FALSE]], row)
\* Mutant: the number is taken when the new version is there.
VersionAfterInsert(versions) == Len(versions) + 2
NextVersion(versions) == Len(versions) + 1
CurrentOf(versions) == CHOOSE v \in DOMAIN versions : versions[v].current

-----------------------------------------------------------------------------
(* _execute_canonical_research. *)

Known == {r \in Request : research[r].status # "NONE"}

\* The request is looked up by its task; more than one is an error.
FindResearch(w) ==
    /\ worker[w].pc = "idle" /\ Cardinality(Known) <= 1
    /\ Goto(w, IF Known = {} THEN [pc |-> "creating"]
               ELSE LET r == CHOOSE k \in Known : TRUE IN Researching(r, research[r]))
    /\ UNCHANGED <<research, content, hooks, cancelling, qa, calls, accepted>>

\* No key is unique: who found none creates one.
CreateResearch(w) ==
    /\ worker[w].pc = "creating"
    /\ \E r \in Request \ Known :
        /\ research' = [research EXCEPT ![r].status = "PENDING"]
        /\ Goto(w, Researching(r, research'[r]))
    /\ UNCHANGED <<content, hooks, cancelling, qa, calls, accepted>>

\* run_research under the lock of the request.
Researched(r, outcome) ==
    /\ Len(research[r].briefs) < MaxVersion
    /\ research' = [research EXCEPT ![r] =
          [status |-> "SUCCEEDED", outcome |-> outcome,
           briefs |-> Superseded(@.briefs, [current |-> TRUE, outcome |-> outcome])]]

\* The lock does not refresh the request the session found PENDING.
RunResearch(w, outcome) ==
    /\ worker[w].pc = "research" /\ worker[w].status = "PENDING"
    /\ LET r == worker[w].request IN
       /\ Researched(r, outcome)
       /\ IF outcome = "SUFFICIENT" THEN AcceptBrief(<<r, NextVersion(research[r].briefs)>>)
          ELSE UNCHANGED accepted
    /\ Goto(w, Idle)
    /\ UNCHANGED <<content, hooks, cancelling, qa, calls>>

Sufficient(seen, brief) == seen = "SUFFICIENT" /\ brief.outcome = "SUFFICIENT"

\* A retry answers with the brief that is current by now.
ReuseResearch(w) ==
    /\ worker[w].pc = "research" /\ worker[w].status # "PENDING"
    /\ LET r == worker[w].request
           v == CurrentOf(research[r].briefs) IN
       IF worker[w].status = "SUCCEEDED" /\ Sufficient(worker[w].outcome, research[r].briefs[v])
           THEN AcceptBrief(<<r, v>>) ELSE UNCHANGED accepted
    /\ Goto(w, Idle)
    /\ UNCHANGED <<research, content, hooks, cancelling, qa, calls>>

-----------------------------------------------------------------------------
(* _execute_canonical_content. *)

BriefAccepted(b) == [task |-> "research", brief |-> b] \in accepted

\* The request is unique by its key: a rival or a retry gets the one there is.
CreateContent(w, b) ==
    /\ worker[w].pc = "idle" /\ BriefAccepted(b)
    /\ research[b[1]].status = "SUCCEEDED"
    /\ Sufficient(research[b[1]].outcome, research[b[1]].briefs[b[2]])
    /\ content.status # "NONE" => content.brief = b
    /\ content' = IF content.status # "NONE" THEN content
                  ELSE [content EXCEPT !.status = "DRAFT", !.brief = b]
    /\ Goto(w, Writing(content'))
    /\ UNCHANGED <<research, hooks, cancelling, qa, calls, accepted>>

\* Hooks are made by the first generation.
HooksAfter == IF content.scripts = <<>> THEN {DefaultHook} ELSE hooks

Written(old, seen, new) == IF new = seen THEN old ELSE new

\* generate_content, whose status test knows only RUNNING, from a request remembered with "seen".
Generated(seen, verdict) ==
    /\ Len(content.scripts) < MaxVersion
    /\ hooks' = HooksAfter
    /\ content' = [content EXCEPT
          !.status = "SUCCEEDED",
          !.outcome = Written(@, seen, verdict),
          !.scripts = Superseded(@, [current |-> TRUE, verdict |-> verdict, hook |-> HooksAfter])]

GenerateContent(w, verdict) ==
    /\ worker[w].pc = "content" /\ worker[w].status = "DRAFT"
    /\ Generated(worker[w].outcome, verdict)
    /\ IF verdict = "PASSED" THEN AcceptScript(NextVersion(content.scripts)) ELSE UNCHANGED accepted
    /\ Goto(w, Idle)
    /\ UNCHANGED <<research, cancelling, qa, calls>>

\* Mutant: what the request says is enough.
AcceptableByOutcome(outcome, verdict) == outcome = "PASSED"
Acceptable(outcome, verdict) == outcome = "PASSED" /\ verdict = "PASSED"

ReuseContent(w) ==
    /\ worker[w].pc = "content" /\ worker[w].status # "DRAFT"
    /\ LET v == CurrentOf(content.scripts) IN
       IF worker[w].status = "SUCCEEDED" /\ Acceptable(worker[w].outcome, content.scripts[v].verdict)
           THEN AcceptScript(v) ELSE UNCHANGED accepted
    /\ Goto(w, Idle)
    /\ UNCHANGED <<research, content, hooks, cancelling, qa, calls>>

\* The worker dies, or its task fails, between two transactions.
Die(w) ==
    /\ worker[w].pc # "idle"
    /\ Goto(w, Idle)
    /\ UNCHANGED <<research, content, hooks, cancelling, qa, calls, accepted>>

-----------------------------------------------------------------------------
(* The API. *)

Call == calls < MaxCalls /\ calls' = calls + 1

\* A request of the API has a session of its own: its lock reads the row.
RunAgain(r, outcome) ==
    /\ Call
    /\ research[r].status \in {"PENDING", "SUCCEEDED"}
    /\ Researched(r, outcome)
    /\ UNCHANGED <<content, hooks, worker, cancelling, qa, accepted>>

\* generate and regenerate: the provider works between the read and the lock.
BeginGenerate(w) ==
    /\ Call
    /\ worker[w].pc = "idle" /\ content.status # "NONE"
    /\ Goto(w, [pc |-> "generating", outcome |-> content.outcome])
    /\ UNCHANGED <<research, content, hooks, cancelling, qa, accepted>>
GenerateAgain(w, verdict) ==
    /\ worker[w].pc = "generating"
    /\ Generated(worker[w].outcome, verdict)
    /\ Goto(w, Idle)
    /\ UNCHANGED <<research, cancelling, qa, accepted, calls>>

\* The cancels test a status they read without a lock.
BeginCancel(x) ==
    /\ Call
    /\ IF x = "content" THEN content.status = "DRAFT" ELSE research[x].status = "PENDING"
    /\ cancelling' = cancelling \cup {x}
    /\ UNCHANGED <<research, content, hooks, worker, qa, accepted>>
CommitCancel(x) ==
    /\ x \in cancelling
    /\ cancelling' = cancelling \ {x}
    /\ IF x = "content" THEN content' = [content EXCEPT !.status = "CANCELLED"] /\ UNCHANGED research
       ELSE research' = [research EXCEPT ![x].status = "CANCELLED"] /\ UNCHANGED content
    /\ UNCHANGED <<hooks, worker, qa, accepted, calls>>

SelectHook(h) ==
    /\ Call
    /\ content.scripts # <<>>
    /\ hooks' = {h}
    /\ UNCHANGED <<research, content, worker, cancelling, qa, accepted>>
DeselectHook(h) ==
    /\ Call
    /\ h \in hooks
    /\ hooks' = hooks \ {h}
    /\ UNCHANGED <<research, content, worker, cancelling, qa, accepted>>

\* run_qa reads the request, then a version and whether it is current, and judges
\* it; the text, the DNA and the brief are what they were, and so is the verdict.
OpenQA ==
    /\ Call
    /\ qa.pc = "idle" /\ content.scripts # <<>>
    /\ qa' = [pc |-> "opened", outcome |-> content.outcome]
    /\ UNCHANGED <<research, content, hooks, worker, cancelling, accepted>>
JudgeQA(v) ==
    /\ qa.pc = "opened" /\ v \in DOMAIN content.scripts
    /\ qa' = [pc |-> "judging", outcome |-> qa.outcome, version |-> v, current |-> content.scripts[v].current]
    /\ UNCHANGED <<research, content, hooks, worker, cancelling, accepted, calls>>
CommitQA ==
    /\ qa.pc = "judging"
    /\ content' = [content EXCEPT
          !.outcome = IF qa.current THEN Written(@, qa.outcome, content.scripts[qa.version].verdict) ELSE @]
    /\ qa' = Idle
    /\ UNCHANGED <<research, hooks, worker, cancelling, accepted, calls>>

Next ==
    \/ \E w \in Worker :
        \/ FindResearch(w) \/ CreateResearch(w) \/ ReuseResearch(w) \/ ReuseContent(w) \/ Die(w)
        \/ \E o \in Outcome \ {"NONE"} : RunResearch(w, o)
        \/ \E b \in BriefId : CreateContent(w, b)
        \/ \E verdict \in Verdict : GenerateContent(w, verdict) \/ GenerateAgain(w, verdict)
        \/ BeginGenerate(w)
    \/ \E r \in Request, o \in Outcome \ {"NONE"} : RunAgain(r, o)
    \/ OpenQA \/ CommitQA
    \/ \E x \in Request \cup {"content"} : BeginCancel(x) \/ CommitCancel(x)
    \/ \E h \in Hook : SelectHook(h) \/ DeselectHook(h)
    \/ \E v \in Version : JudgeQA(v)

Spec == Init /\ [][Next]_vars

-----------------------------------------------------------------------------
\* Of the versions of a brief and of a script exactly the last is current, and at
\* most one hook is selected, whoever of the workers and the API wrote them from a
\* request read before the lock, and however generations and choices alternate.
OneCurrent ==
    /\ \A r \in Request : LET b == research[r].briefs IN \A v \in DOMAIN b : b[v].current = (v = Len(b))
    /\ LET s == content.scripts IN \A v \in DOMAIN s :
          s[v].current = (v = Len(s)) /\ Cardinality(s[v].hook) <= 1
    /\ Cardinality(hooks) <= 1

\* What a Mission goes on with: sufficient briefs, and scripts that passed QA, all
\* from one brief that its research had accepted, though retries, reruns and QA
\* change the requests between the reads.
AcceptedIsSound ==
    \A a \in accepted :
        /\ research[a.brief[1]].briefs[a.brief[2]].outcome = "SUFFICIENT"
        /\ a.task = "content" =>
              /\ content.scripts[a.script].verdict = "PASSED"
              /\ BriefAccepted(a.brief)
              /\ a.brief = content.brief
=============================================================================
