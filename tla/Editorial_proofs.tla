-------------------------- MODULE Editorial_proofs --------------------------
(***************************************************************************)
(* The safety of Editorial for every number of workers, requests, hooks,    *)
(* versions and calls of the API.                                           *)
(***************************************************************************)
EXTENDS Editorial, FiniteSetTheorems, SequenceTheorems, TLAPS

-----------------------------------------------------------------------------
(* The inductive invariant. *)

Rows == /\ research \in [Request -> ResearchRow]
        /\ content \in ContentRow
        /\ hooks \subseteq Hook
        /\ worker \in [Worker -> WorkerState]
        /\ cancelling \subseteq Request \cup {"content"}
        /\ qa \in [pc : {"idle"}] \cup [pc : {"opened"}, outcome : Verdict \cup {"NONE"}]
              \cup [pc : {"judging"}, outcome : Verdict \cup {"NONE"}, version : Version, current : BOOLEAN]
        /\ calls \in 0..MaxCalls

LastCurrent(versions) == \A v \in DOMAIN versions : versions[v].current = (v = Len(versions))
OneHook(chosen) == \E h \in Hook : chosen \subseteq {h}

VersionInv == /\ \A r \in Request : LastCurrent(research[r].briefs)
              /\ LastCurrent(content.scripts)
              /\ \A v \in DOMAIN content.scripts : OneHook(content.scripts[v].hook)
              /\ OneHook(hooks)

\* A request that has succeeded has a version, and a content request a brief that
\* its research accepted.
StatusInv == /\ \A r \in Request : research[r].status = "SUCCEEDED" => research[r].briefs # <<>>
             /\ content.status = "SUCCEEDED" => content.scripts # <<>>
             /\ content.scripts # <<>> => content.status # "NONE"
             /\ content.status # "NONE" => content.brief \in BriefId /\ BriefAccepted(content.brief)
             /\ "content" \in cancelling => content.status # "NONE"

\* What a worker remembers may be old, but the versions it goes on with exist.
Remembers(s) ==
    /\ s.pc = "research" /\ s.status = "SUCCEEDED" => research[s.request].briefs # <<>>
    /\ s.pc \in {"content", "generating"} => content.status # "NONE"
    /\ s.pc = "content" /\ s.status = "SUCCEEDED" => content.scripts # <<>>

WorkerInv == \A w \in Worker : Remembers(worker[w])

QaInv == qa.pc = "judging" => qa.version \in DOMAIN content.scripts

\* An answer to the Mission: a version that exists, sufficient or passed, of the
\* brief of the content request.
SoundBrief(b) == /\ b \in BriefId /\ b[2] \in DOMAIN research[b[1]].briefs
                 /\ research[b[1]].briefs[b[2]].outcome = "SUFFICIENT"

Sound(a) ==
    \/ \E b \in BriefId : a = [task |-> "research", brief |-> b] /\ SoundBrief(b)
    \/ \E v \in DOMAIN content.scripts :
          /\ a = [task |-> "content", brief |-> content.brief, script |-> v]
          /\ content.status # "NONE"
          /\ content.scripts[v].verdict = "PASSED"

AcceptedInv == \A a \in accepted : Sound(a)

IndInv == Rows /\ VersionInv /\ StatusInv /\ WorkerInv /\ QaInv /\ AcceptedInv

-----------------------------------------------------------------------------
(* Versions. *)

LEMMA BoundedSeqIsSeq ==
    ASSUME NEW R, NEW n \in Nat, NEW s \in BoundedSeq(R, n)
    PROVE  /\ s \in Seq(R) /\ Len(s) \in 0..n /\ DOMAIN s = 1..Len(s)
           /\ \A v \in DOMAIN s : s[v] \in R
<1>1. PICK m \in 0..n : s \in [1..m -> R]
  BY DEF BoundedSeq, SeqOf
<1>2. Len(s) = m /\ s \in Seq(R)
  BY <1>1
<1> QED
  BY <1>1, <1>2

LEMMA SeqIsBounded ==
    ASSUME NEW R, NEW n \in Nat, NEW s \in Seq(R), Len(s) <= n
    PROVE  s \in BoundedSeq(R, n)
<1>1. s \in [1..Len(s) -> R] /\ Len(s) \in 0..n
  OBVIOUS
<1> QED
  BY <1>1 DEF BoundedSeq, SeqOf

Retired(version) == [version EXCEPT !.current = FALSE]

\* The new version is the last and alone is current; the old ones stay.
LEMMA SupersededVersions ==
    ASSUME NEW R, NEW s \in BoundedSeq(R, MaxVersion), Len(s) < MaxVersion, NEW row \in R,
           \A x \in R : Retired(x) \in R
    PROVE  /\ Superseded(s, row) \in BoundedSeq(R, MaxVersion)
           /\ DOMAIN Superseded(s, row) = 1..(Len(s) + 1) /\ Len(Superseded(s, row)) = Len(s) + 1
           /\ Superseded(s, row)[Len(s) + 1] = row
           /\ \A v \in 1..Len(s) : Superseded(s, row)[v] = Retired(s[v])
           /\ DOMAIN s = 1..Len(s) /\ Len(s) \in Nat /\ Len(s) + 1 \in Version
<1>1. /\ s \in Seq(R) /\ Len(s) \in Nat /\ DOMAIN s = 1..Len(s) /\ MaxVersion \in Nat
      /\ \A v \in DOMAIN s : s[v] \in R
  BY BoundedSeqIsSeq, ConstantsAssumption
<1> DEFINE old == [v \in DOMAIN s |-> Retired(s[v])]
<1>2. old \in [1..Len(s) -> R]
  BY <1>1
<1>3. old \in Seq(R) /\ Len(old) = Len(s)
  BY <1>1, <1>2
<1>4. \A v \in 1..Len(s) : old[v] = Retired(s[v])
  BY <1>1
<1> HIDE DEF old
<1>5. /\ Append(old, row) \in Seq(R) /\ Len(Append(old, row)) = Len(s) + 1
      /\ Append(old, row)[Len(s) + 1] = row
      /\ \A v \in 1..Len(s) : Append(old, row)[v] = old[v]
  BY <1>1, <1>3
<1>6. Superseded(s, row) = Append(old, row)
  BY DEF Superseded, old, Retired
<1>9. Len(Append(old, row)) <= MaxVersion
  BY <1>1, <1>5
<1>7. Append(old, row) \in BoundedSeq(R, MaxVersion)
  BY <1>1, <1>5, <1>9, SeqIsBounded
<1>8. DOMAIN Append(old, row) = 1..(Len(s) + 1)
  BY <1>1, <1>5
<1> QED
  BY <1>1, <1>4, <1>5, <1>6, <1>7, <1>8 DEF Version

LEMMA CurrentIsLast ==
    ASSUME NEW s, s # <<>>, LastCurrent(s), NEW R, s \in Seq(R)
    PROVE  CurrentOf(s) = Len(s) /\ Len(s) \in DOMAIN s
<1>3. Len(s) \in Nat /\ Len(s) # 0 /\ DOMAIN s = 1..Len(s)
  OBVIOUS
<1>4. Len(s) \in DOMAIN s
  BY <1>3
<1>1. Len(s) \in DOMAIN s /\ s[Len(s)].current
  BY <1>4 DEF LastCurrent
<1>2. \A v \in DOMAIN s : s[v].current => v = Len(s)
  BY DEF LastCurrent
<1> QED
  BY <1>1, <1>2 DEF CurrentOf
-----------------------------------------------------------------------------
(* The rows. *)

LEMMA VersionRows ==
    /\ \A x \in Brief : Retired(x) \in Brief
                       /\ Retired(x).outcome = x.outcome
                       /\ Retired(x).current = FALSE
    /\ \A x \in Script : /\ Retired(x) \in Script
                         /\ Retired(x).verdict = x.verdict
                         /\ Retired(x).hook = x.hook
                         /\ Retired(x).current = FALSE
BY DEF Brief, Script, Retired

\* Nothing that a Mission may have been given goes away.
BriefsKept == \A r \in Request :
    /\ research[r].briefs # <<>> => research'[r].briefs # <<>>
    /\ \A v \in DOMAIN research[r].briefs :
          v \in DOMAIN research'[r].briefs /\ research'[r].briefs[v].outcome = research[r].briefs[v].outcome
ScriptsKept ==
    /\ content.scripts # <<>> => content'.scripts # <<>>
    /\ \A v \in DOMAIN content.scripts :
          v \in DOMAIN content'.scripts /\ content'.scripts[v].verdict = content.scripts[v].verdict
Grows == /\ BriefsKept /\ ScriptsKept /\ accepted \subseteq accepted'
         /\ content.status # "NONE" => content'.status # "NONE" /\ content'.brief = content.brief

\* run_research: the request has succeeded, with a new version that is current.
LEMMA ResearchedRows ==
    ASSUME Rows, VersionInv, NEW r \in Request, NEW o \in Outcome \ {"NONE"}, Researched(r, o)
    PROVE  /\ research' \in [Request -> ResearchRow]
           /\ \A k \in Request : LastCurrent(research'[k].briefs)
           /\ \A k \in Request \ {r} : research'[k] = research[k]
           /\ research'[r].briefs # <<>>
           /\ NextVersion(research[r].briefs) \in Version \cap DOMAIN research'[r].briefs
           /\ research'[r].briefs[NextVersion(research[r].briefs)].outcome = o
           /\ BriefsKept
<1> DEFINE old == research[r].briefs
           row == [current |-> TRUE, outcome |-> o]
           new == Superseded(old, row)
<1>1. old \in BoundedSeq(Brief, MaxVersion) /\ Len(old) < MaxVersion /\ row \in Brief /\ LastCurrent(old)
  BY DEF Rows, ResearchRow, Researched, Brief, VersionInv
<1>2. /\ new \in BoundedSeq(Brief, MaxVersion) /\ DOMAIN new = 1..(Len(old) + 1) /\ Len(new) = Len(old) + 1
      /\ new[Len(old) + 1] = row /\ \A v \in 1..Len(old) : new[v] = Retired(old[v])
      /\ DOMAIN old = 1..Len(old) /\ Len(old) \in Nat /\ Len(old) + 1 \in Version
  <2>1. \A x \in Brief : Retired(x) \in Brief
    BY VersionRows
  <2> HIDE DEF old, row
  <2> QED
    BY <1>1, <2>1, SupersededVersions
<1>3. \A v \in 1..Len(old) : old[v] \in Brief
  BY <1>1, <1>2, BoundedSeqIsSeq, ConstantsAssumption
<1>4. research' = [research EXCEPT ![r] = [status |-> "SUCCEEDED", outcome |-> o, briefs |-> new]]
  BY DEF Researched
<1>5. research'[r] = [status |-> "SUCCEEDED", outcome |-> o, briefs |-> new]
  BY <1>4 DEF Rows
<1> HIDE DEF old, row, new
<1>6. research' \in [Request -> ResearchRow]
  <2>1. [status |-> "SUCCEEDED", outcome |-> o, briefs |-> new] \in ResearchRow
    BY <1>2 DEF ResearchRow
  <2> QED
    BY <2>1, <1>4 DEF Rows
<1>7. \A k \in Request \ {r} : research'[k] = research[k]
  BY <1>4 DEF Rows
<1>8. new # <<>>
  BY <1>2
<1>9. LastCurrent(new)
  <2> SUFFICES ASSUME NEW v \in 1..(Len(old) + 1) PROVE new[v].current = (v = Len(old) + 1)
    BY <1>2 DEF LastCurrent
  <2>1. CASE v = Len(old) + 1
    <3>1. new[v].current = TRUE
      BY <2>1, <1>2 DEF row
    <3> QED
      BY <3>1, <2>1
  <2>2. CASE v # Len(old) + 1
    <3>1. v \in 1..Len(old)
      BY <2>2, <1>2
    <3>3. new[v] = Retired(old[v]) /\ old[v] \in Brief
      BY <3>1, <1>2, <1>3
    <3> QED
      BY <3>3, <2>2, VersionRows
  <2> QED
    BY <2>1, <2>2
<1>10. \A k \in Request : LastCurrent(research'[k].briefs)
  BY <1>5, <1>7, <1>9 DEF VersionInv
<1>11. \A v \in DOMAIN old : v \in DOMAIN new /\ new[v].outcome = old[v].outcome
  BY <1>2, <1>3, VersionRows
<1>12. BriefsKept
  BY <1>5, <1>7, <1>8, <1>11 DEF BriefsKept, old
<1>13. NextVersion(old) = Len(old) + 1 /\ Len(old) + 1 \in DOMAIN new /\ new[Len(old) + 1].outcome = o
  BY <1>2 DEF NextVersion, row
<1> QED
  BY <1>2, <1>5, <1>6, <1>7, <1>8, <1>10, <1>12, <1>13 DEF old

\* generate_content: the same for the script, with the hooks selected then.
LEMMA GeneratedRows ==
    ASSUME Rows, VersionInv, NEW seen \in Verdict \cup {"NONE"}, NEW verdict \in Verdict, Generated(seen, verdict)
    PROVE  /\ content' \in ContentRow /\ hooks' \subseteq Hook
           /\ LastCurrent(content'.scripts) /\ OneHook(hooks')
           /\ \A v \in DOMAIN content'.scripts : OneHook(content'.scripts[v].hook)
           /\ content'.scripts # <<>> /\ content'.status = "SUCCEEDED" /\ content'.brief = content.brief
           /\ NextVersion(content.scripts) \in DOMAIN content'.scripts
           /\ content'.scripts[NextVersion(content.scripts)].verdict = verdict
           /\ ScriptsKept
<1> DEFINE old == content.scripts
           row == [current |-> TRUE, verdict |-> verdict, hook |-> HooksAfter]
           new == Superseded(old, row)
<1>0. HooksAfter \subseteq Hook /\ OneHook(HooksAfter)
  BY ConstantsAssumption DEF HooksAfter, Rows, VersionInv, OneHook
<1>1. old \in BoundedSeq(Script, MaxVersion) /\ Len(old) < MaxVersion /\ row \in Script /\ LastCurrent(old)
  BY <1>0 DEF Rows, ContentRow, Generated, Script, VersionInv
<1>2. /\ new \in BoundedSeq(Script, MaxVersion) /\ DOMAIN new = 1..(Len(old) + 1) /\ Len(new) = Len(old) + 1
      /\ new[Len(old) + 1] = row /\ \A v \in 1..Len(old) : new[v] = Retired(old[v])
      /\ DOMAIN old = 1..Len(old) /\ Len(old) \in Nat
  <2>1. \A x \in Script : Retired(x) \in Script
    BY VersionRows
  <2> HIDE DEF old, row
  <2> QED
    BY <1>1, <2>1, SupersededVersions
<1>3. \A v \in 1..Len(old) : old[v] \in Script
  BY <1>1, <1>2, BoundedSeqIsSeq, ConstantsAssumption
<1>4. PICK o \in Verdict \cup {"NONE"} : o = Written(content.outcome, seen, verdict)
  BY DEF Written, Rows, ContentRow
<1>5. content' = [content EXCEPT !.status = "SUCCEEDED", !.outcome = o, !.scripts = new] /\ hooks' = HooksAfter
  BY <1>4 DEF Generated
<1> HIDE DEF old, row, new
<1>6. /\ content' \in ContentRow /\ content'.status = "SUCCEEDED" /\ content'.scripts = new
      /\ content'.brief = content.brief
  BY <1>2, <1>4, <1>5 DEF Rows, ContentRow
<1>8. new # <<>>
  BY <1>2
<1>9. \A v \in DOMAIN new : new[v].current = (v = Len(new)) /\ OneHook(new[v].hook)
  <2> SUFFICES ASSUME NEW v \in 1..(Len(old) + 1) PROVE new[v].current = (v = Len(old) + 1) /\ OneHook(new[v].hook)
    BY <1>2
  <2>1. CASE v = Len(old) + 1
    <3>1. new[v].current = TRUE /\ new[v].hook = HooksAfter
      BY <2>1, <1>2 DEF row
    <3> QED
      BY <3>1, <2>1, <1>0
  <2>2. CASE v # Len(old) + 1
    <3>1. v \in 1..Len(old)
      BY <2>2, <1>2
    <3>2. OneHook(old[v].hook)
      BY <3>1, <1>2 DEF VersionInv, old
    <3>3. new[v] = Retired(old[v]) /\ old[v] \in Script
      BY <3>1, <1>2, <1>3
    <3> QED
      BY <3>2, <3>3, <2>2, <1>2, VersionRows
  <2> QED
    BY <2>1, <2>2
<1>11. \A v \in DOMAIN old : v \in DOMAIN new /\ new[v].verdict = old[v].verdict
  BY <1>2, <1>3, VersionRows
<1>12. ScriptsKept
  BY <1>6, <1>8, <1>11 DEF ScriptsKept, old
<1>13. NextVersion(old) = Len(old) + 1 /\ Len(old) + 1 \in DOMAIN new /\ new[Len(old) + 1].verdict = verdict
  BY <1>2 DEF NextVersion, row
<1> QED
  BY <1>0, <1>5, <1>6, <1>8, <1>9, <1>12, <1>13 DEF old, LastCurrent

-----------------------------------------------------------------------------
(* What one step has to keep. *)

LEMMA AcceptedAgain ==
    ASSUME StatusInv, AcceptedInv, Grows, \A a \in accepted' \ accepted : Sound(a)'
    PROVE  AcceptedInv'
<1>1. SUFFICES ASSUME NEW a \in accepted PROVE Sound(a)'
  BY <1>1 DEF AcceptedInv
<1>2. Sound(a)
  BY DEF AcceptedInv
<1>3. CASE \E b \in BriefId : a = [task |-> "research", brief |-> b] /\ SoundBrief(b)
  <2>1. PICK b \in BriefId : a = [task |-> "research", brief |-> b] /\ SoundBrief(b)
    BY <1>3
  <2>2. b[1] \in Request
    BY DEF BriefId
  <2>3. SoundBrief(b)'
    BY <2>1, <2>2 DEF SoundBrief, Grows, BriefsKept
  <2> QED
    BY <2>1, <2>3 DEF Sound
<1>4. CASE \E v \in DOMAIN content.scripts :
              /\ a = [task |-> "content", brief |-> content.brief, script |-> v]
              /\ content.status # "NONE"
              /\ content.scripts[v].verdict = "PASSED"
  <2>1. PICK v \in DOMAIN content.scripts :
            /\ a = [task |-> "content", brief |-> content.brief, script |-> v]
            /\ content.status # "NONE"
            /\ content.scripts[v].verdict = "PASSED"
    BY <1>4
  <2>2. v \in DOMAIN content'.scripts /\ content'.scripts[v].verdict = "PASSED"
    BY <2>1 DEF Grows, ScriptsKept
  <2>3. content'.status # "NONE" /\ content'.brief = content.brief
    BY <2>1 DEF Grows
  <2> QED
    BY <2>1, <2>2, <2>3 DEF Sound
<1> QED
  BY <1>2, <1>3, <1>4 DEF Sound

\* What a worker remembers stays true while the rows grow, and one worker moves.
LEMMA WorkersRemember ==
    ASSUME Rows, WorkerInv, Grows
    PROVE  /\ UNCHANGED worker => WorkerInv'
           /\ \A w \in Worker, s \in WorkerState :
                 Goto(w, s) /\ Remembers(s)' => worker' \in [Worker -> WorkerState] /\ WorkerInv'
<1>1. ASSUME NEW s \in WorkerState, Remembers(s) PROVE Remembers(s)'
  <2>1. s.pc = "research" => s.request \in Request
    BY DEF WorkerState
  <2> QED
    BY <1>1, <2>1 DEF Remembers, Grows, BriefsKept, ScriptsKept
<1>2. \A v \in Worker : worker[v] \in WorkerState /\ Remembers(worker[v])
  BY DEF Rows, WorkerInv
<1>3. \A v \in Worker : \E s \in WorkerState : s = worker[v] /\ Remembers(s)'
  BY <1>1, <1>2
<1>4. UNCHANGED worker => WorkerInv'
  BY <1>3 DEF WorkerInv
<1>5. ASSUME NEW w \in Worker, NEW s \in WorkerState, Goto(w, s), Remembers(s)'
      PROVE  worker' \in [Worker -> WorkerState] /\ WorkerInv'
  <2>1. worker' = [worker EXCEPT ![w] = s]
    BY <1>5 DEF Goto
  <2>2. worker' \in [Worker -> WorkerState]
    BY <2>1 DEF Rows
  <2>3. \A v \in Worker : worker'[v] = IF v = w THEN s ELSE worker[v]
    BY <2>1 DEF Rows
  <2>4. \A v \in Worker : Remembers(worker[v])'
    <3> SUFFICES ASSUME NEW v \in Worker PROVE Remembers(worker[v])'
      OBVIOUS
    <3>1. PICK t \in WorkerState : t = worker'[v] /\ Remembers(t)'
      BY <1>3, <1>5, <2>3
    <3> QED
      BY <3>1
  <2> QED
    BY <2>2, <2>4 DEF WorkerInv
<1> QED
  BY <1>4, <1>5

LEMMA IdleWorker == Idle \in WorkerState /\ Remembers(Idle)'
BY DEF Idle, WorkerState, Remembers

LEMMA UnchangedGrows == UNCHANGED <<research, content>> /\ accepted \subseteq accepted' => Grows
BY DEF Grows, BriefsKept, ScriptsKept

LEMMA InitInv == Init => IndInv
<1> SUFFICES ASSUME Init PROVE IndInv
  OBVIOUS
<1>1. /\ <<>> \in BoundedSeq(Brief, MaxVersion) /\ <<>> \in BoundedSeq(Script, MaxVersion)
  <2>1. <<>> \in Seq(Brief) /\ <<>> \in Seq(Script) /\ Len(<<>>) = 0 /\ MaxVersion \in Nat /\ 0 <= MaxVersion
    BY ConstantsAssumption
  <2> QED
    BY <2>1, SeqIsBounded
<1>2. research \in [Request -> ResearchRow]
  <2>1. [status |-> "NONE", outcome |-> "NONE", briefs |-> <<>>] \in ResearchRow
    BY <1>1 DEF ResearchRow, Outcome
  <2> QED
    BY <2>1 DEF Init
<1>3. content \in ContentRow
  BY <1>1 DEF Init, ContentRow
<1>4. worker \in [Worker -> WorkerState] /\ \A w \in Worker : worker[w] = Idle
  BY DEF Init, Idle, WorkerState
<1>5. Rows
  BY <1>2, <1>3, <1>4, ConstantsAssumption DEF Init, Rows, Idle
<1>6. VersionInv
  BY ConstantsAssumption DEF Init, VersionInv, LastCurrent, OneHook
<1>7. StatusInv /\ QaInv /\ AcceptedInv
  BY DEF Init, StatusInv, QaInv, AcceptedInv, Idle
<1>8. WorkerInv
  BY <1>4 DEF WorkerInv, Remembers, Idle
<1> QED
  BY <1>5, <1>6, <1>7, <1>8 DEF IndInv

-----------------------------------------------------------------------------
(* The steps that leave both requests alone. *)

\* They move one worker at most, and what they answer to the Mission is sound.
LEMMA Quiet ==
    ASSUME IndInv, UNCHANGED <<research, content>>, accepted \subseteq accepted',
           \A a \in accepted' \ accepted : Sound(a)',
           UNCHANGED worker \/ \E w \in Worker, s \in WorkerState : Goto(w, s) /\ Remembers(s)',
           hooks' \subseteq Hook, OneHook(hooks'),
           cancelling' \subseteq Request \cup {"content"}, "content" \in cancelling' => content.status # "NONE",
           calls' \in 0..MaxCalls,
           UNCHANGED qa
    PROVE  IndInv'
<1>1. Grows
  BY UnchangedGrows
<1>2. worker' \in [Worker -> WorkerState] /\ WorkerInv'
  BY <1>1, WorkersRemember DEF IndInv, Rows
<1>3. Rows'
  BY <1>2 DEF IndInv, Rows
<1>4. VersionInv' /\ QaInv'
  BY DEF IndInv, VersionInv, QaInv
<1>5. StatusInv'
  BY DEF IndInv, StatusInv, BriefAccepted
<1>6. AcceptedInv'
  BY <1>1, AcceptedAgain DEF IndInv
<1> QED
  BY <1>2, <1>3, <1>4, <1>5, <1>6 DEF IndInv

LEMMA CallsCounted == Rows /\ Call => calls' \in 0..MaxCalls
<1> SUFFICES ASSUME Rows, Call PROVE calls' \in 0..MaxCalls
  OBVIOUS
<1>1. calls \in 0..MaxCalls /\ MaxCalls \in Nat /\ calls < MaxCalls /\ calls' = calls + 1
  BY ConstantsAssumption DEF Rows, Call
<1> QED
  BY <1>1

LEMMA FindResearchStep ==
    ASSUME IndInv, NEW w \in Worker, FindResearch(w)
    PROVE  IndInv'
<1>1. UNCHANGED <<research, content, hooks, cancelling, qa, calls, accepted>>
  BY DEF FindResearch
<1>2. CASE Known = {}
  <2> DEFINE s == [pc |-> "creating"]
  <2>1. Goto(w, s) /\ s \in WorkerState /\ Remembers(s)'
    BY <1>2 DEF FindResearch, WorkerState, Remembers
  <2> QED
    BY <1>1, <2>1, Quiet DEF IndInv, Rows, VersionInv, StatusInv
<1>3. CASE Known # {}
  <2>1. PICK r \in Known : r = CHOOSE k \in Known : TRUE
    BY <1>3
  <2>2. r \in Request /\ research[r].status # "NONE" /\ research[r] \in ResearchRow
    BY DEF Known, IndInv, Rows
  <2>3. PICK s \in WorkerState : s = Researching(r, research[r])
    BY <2>2 DEF Researching, WorkerState, ResearchRow
  <2>4. Goto(w, s)
    BY <1>3, <2>1, <2>3 DEF FindResearch
  <2>5. s.pc = "research" /\ s.request = r /\ s.status = research[r].status
    BY <2>3 DEF Researching
  <2>6. Remembers(s)'
    BY <1>1, <2>2, <2>5 DEF Remembers, IndInv, StatusInv
  <2> QED
    BY <1>1, <2>4, <2>6, Quiet DEF IndInv, Rows, VersionInv, StatusInv
<1> QED
  BY <1>2, <1>3

LEMMA ReuseResearchStep ==
    ASSUME IndInv, NEW w \in Worker, ReuseResearch(w)
    PROVE  IndInv'
<1>1. UNCHANGED <<research, content, hooks, cancelling, qa, calls>> /\ Goto(w, Idle)
  BY DEF ReuseResearch
<1>2. PICK r \in Request : r = worker[w].request
  BY DEF ReuseResearch, IndInv, Rows, WorkerState
<1>3. CASE worker[w].status = "SUCCEEDED" /\ Sufficient(worker[w].outcome, research[r].briefs[CurrentOf(research[r].briefs)])
  <2> DEFINE s == research[r].briefs
  <2>1. s # <<>> /\ LastCurrent(s) /\ s \in BoundedSeq(Brief, MaxVersion)
    BY <1>2, <1>3 DEF ReuseResearch, IndInv, WorkerInv, Remembers, VersionInv, Rows, ResearchRow
  <2>2. s \in Seq(Brief) /\ Len(s) \in 0..MaxVersion /\ DOMAIN s = 1..Len(s)
    BY <2>1, BoundedSeqIsSeq, ConstantsAssumption
  <2>3. CurrentOf(s) = Len(s) /\ Len(s) \in DOMAIN s
    BY <2>1, <2>2, CurrentIsLast
  <2>4. PICK v \in Version : v = CurrentOf(s)
    BY <2>2, <2>3 DEF Version
  <2>5. accepted' = accepted \cup {[task |-> "research", brief |-> <<r, v>>]}
    BY <1>2, <1>3, <2>4 DEF ReuseResearch, AcceptBrief
  <2>6. <<r, v>> \in BriefId /\ s[v].outcome = "SUFFICIENT" /\ v \in DOMAIN s
    BY <1>3, <2>3, <2>4 DEF BriefId, Sufficient
  <2>7. SoundBrief(<<r, v>>)'
    BY <1>1, <2>6 DEF SoundBrief
  <2>8. \A a \in accepted' \ accepted : Sound(a)'
    BY <2>5, <2>6, <2>7 DEF Sound
  <2>9. accepted \subseteq accepted'
    BY <2>5
  <2> QED
    BY <1>1, <2>8, <2>9, IdleWorker, Quiet DEF IndInv, Rows, VersionInv, StatusInv
<1>4. CASE ~(worker[w].status = "SUCCEEDED" /\ Sufficient(worker[w].outcome, research[r].briefs[CurrentOf(research[r].briefs)]))
  <2>1. UNCHANGED accepted
    BY <1>2, <1>4 DEF ReuseResearch
  <2> QED
    BY <1>1, <2>1, IdleWorker, Quiet DEF IndInv, Rows, VersionInv, StatusInv
<1> QED
  BY <1>3, <1>4

LEMMA ReuseContentStep ==
    ASSUME IndInv, NEW w \in Worker, ReuseContent(w)
    PROVE  IndInv'
<1> DEFINE s == content.scripts
           good == worker[w].status = "SUCCEEDED" /\ Acceptable(worker[w].outcome, s[CurrentOf(s)].verdict)
<1>1. UNCHANGED <<research, content, hooks, cancelling, qa, calls>> /\ Goto(w, Idle)
  BY DEF ReuseContent
<1>3. CASE good
  <2>1. s # <<>> /\ LastCurrent(s) /\ s \in BoundedSeq(Script, MaxVersion) /\ content.status # "NONE"
    BY <1>3 DEF ReuseContent, IndInv, WorkerInv, Remembers, VersionInv, Rows, ContentRow
  <2>2. s \in Seq(Script) /\ Len(s) \in 0..MaxVersion /\ DOMAIN s = 1..Len(s)
    BY <2>1, BoundedSeqIsSeq, ConstantsAssumption
  <2>3. CurrentOf(s) = Len(s) /\ Len(s) \in DOMAIN s
    BY <2>1, <2>2, CurrentIsLast
  <2>4. PICK v \in DOMAIN s : v = CurrentOf(s)
    BY <2>3
  <2>5. accepted' = accepted \cup {[task |-> "content", brief |-> content.brief, script |-> v]}
    BY <1>3, <2>4 DEF ReuseContent, AcceptScript
  <2>6. s[v].verdict = "PASSED"
    BY <1>3, <2>4 DEF Acceptable
  <2>8. \A a \in accepted' \ accepted : Sound(a)'
    BY <1>1, <2>1, <2>5, <2>6 DEF Sound
  <2>9. accepted \subseteq accepted'
    BY <2>5
  <2> QED
    BY <1>1, <2>8, <2>9, IdleWorker, Quiet DEF IndInv, Rows, VersionInv, StatusInv
<1>4. CASE ~good
  <2>1. UNCHANGED accepted
    BY <1>4 DEF ReuseContent
  <2> QED
    BY <1>1, <2>1, IdleWorker, Quiet DEF IndInv, Rows, VersionInv, StatusInv
<1> QED
  BY <1>3, <1>4

LEMMA DieStep ==
    ASSUME IndInv, NEW w \in Worker, Die(w)
    PROVE  IndInv'
BY IdleWorker, Quiet DEF Die, IndInv, Rows, VersionInv, StatusInv

LEMMA BeginGenerateStep ==
    ASSUME IndInv, NEW w \in Worker, BeginGenerate(w)
    PROVE  IndInv'
<1>1. calls' \in 0..MaxCalls /\ UNCHANGED <<research, content, hooks, cancelling, qa, accepted>>
  BY CallsCounted DEF BeginGenerate, IndInv
<1>2. PICK s \in WorkerState : s = [pc |-> "generating", outcome |-> content.outcome]
  BY DEF WorkerState, IndInv, Rows, ContentRow
<1>3. Goto(w, s)
  BY <1>2 DEF BeginGenerate
<1>4. Remembers(s)'
  BY <1>1, <1>2 DEF Remembers, BeginGenerate
<1> QED
  BY <1>1, <1>3, <1>4, Quiet DEF IndInv, Rows, VersionInv, StatusInv

LEMMA BeginCancelStep ==
    ASSUME IndInv, NEW x \in Request \cup {"content"}, BeginCancel(x)
    PROVE  IndInv'
<1>1. calls' \in 0..MaxCalls
  BY CallsCounted DEF BeginCancel, IndInv
<1>2. cancelling' \subseteq Request \cup {"content"}
  BY DEF BeginCancel, IndInv, Rows
<1> QED
  BY <1>1, <1>2, Quiet DEF BeginCancel, IndInv, Rows, VersionInv, StatusInv

LEMMA HookStep ==
    ASSUME IndInv, NEW h \in Hook, SelectHook(h) \/ DeselectHook(h)
    PROVE  IndInv'
<1>1. calls' \in 0..MaxCalls
  BY CallsCounted DEF SelectHook, DeselectHook, IndInv
<1>2. hooks' \subseteq Hook
  BY DEF SelectHook, DeselectHook, IndInv, Rows
<1>3. OneHook(hooks')
  BY DEF SelectHook, DeselectHook, IndInv, VersionInv, OneHook
<1> QED
  BY <1>1, <1>2, <1>3, Quiet DEF SelectHook, DeselectHook, IndInv, Rows, StatusInv

-----------------------------------------------------------------------------
(* The steps that write the research requests. *)

\* The brief with the next number exists after the run, and is what was accepted.
LEMMA ResearchWrites ==
    ASSUME IndInv, UNCHANGED <<content, hooks, qa>>,
           BriefsKept, research' \in [Request -> ResearchRow],
           \A r \in Request : /\ LastCurrent(research'[r].briefs)
                              /\ research'[r].status = "SUCCEEDED" => research'[r].briefs # <<>>,
           accepted \subseteq accepted', \A a \in accepted' \ accepted : Sound(a)',
           UNCHANGED worker \/ \E w \in Worker, s \in WorkerState : Goto(w, s) /\ Remembers(s)',
           cancelling' \subseteq cancelling, calls' \in 0..MaxCalls
    PROVE  IndInv'
<1>1. Grows
  BY DEF Grows, ScriptsKept
<1>2. worker' \in [Worker -> WorkerState] /\ WorkerInv'
  BY <1>1, WorkersRemember DEF IndInv, Rows
<1>3. Rows'
  BY <1>2 DEF IndInv, Rows
<1>4. VersionInv' /\ QaInv'
  BY DEF IndInv, VersionInv, QaInv
<1>5. StatusInv'
  BY DEF IndInv, StatusInv, BriefAccepted
<1>6. AcceptedInv'
  BY <1>1, AcceptedAgain DEF IndInv
<1> QED
  BY <1>2, <1>3, <1>4, <1>5, <1>6 DEF IndInv

LEMMA CreateResearchStep ==
    ASSUME IndInv, NEW w \in Worker, CreateResearch(w)
    PROVE  IndInv'
<1>1. PICK r \in Request \ Known : /\ research' = [research EXCEPT ![r].status = "PENDING"]
                                   /\ Goto(w, Researching(r, research'[r]))
  BY DEF CreateResearch
<1>2. /\ research[r] \in ResearchRow
      /\ research' = [research EXCEPT ![r] = [research[r] EXCEPT !.status = "PENDING"]]
  BY <1>1 DEF IndInv, Rows
<1>3. /\ [research[r] EXCEPT !.status = "PENDING"] \in ResearchRow
      /\ [research[r] EXCEPT !.status = "PENDING"].status = "PENDING"
      /\ [research[r] EXCEPT !.status = "PENDING"].briefs = research[r].briefs
  BY <1>2 DEF ResearchRow
<1>4. /\ research' \in [Request -> ResearchRow]
      /\ \A k \in Request : research'[k] = IF k = r THEN [research[r] EXCEPT !.status = "PENDING"] ELSE research[k]
  BY <1>2, <1>3 DEF IndInv, Rows
<1>5. \A k \in Request : research'[k].briefs = research[k].briefs
  BY <1>3, <1>4
<1>6. BriefsKept
  BY <1>5 DEF BriefsKept
<1>7. \A k \in Request : /\ LastCurrent(research'[k].briefs)
                         /\ research'[k].status = "SUCCEEDED" => research'[k].briefs # <<>>
  BY <1>3, <1>4, <1>5 DEF IndInv, VersionInv, StatusInv
<1>8. research'[r].status = "PENDING" /\ research'[r] \in ResearchRow
  BY <1>3, <1>4
<1>9. PICK s \in WorkerState : s = Researching(r, research'[r])
  BY <1>8 DEF Researching, WorkerState, ResearchRow
<1>10. Goto(w, s)
  BY <1>1, <1>9
<1>11. Remembers(s)'
  BY <1>8, <1>9 DEF Remembers, Researching
<1> QED
  BY <1>4, <1>6, <1>7, <1>10, <1>11, ResearchWrites DEF CreateResearch, IndInv, Rows

LEMMA RunResearchStep ==
    ASSUME IndInv, NEW w \in Worker, NEW o \in Outcome \ {"NONE"}, RunResearch(w, o)
    PROVE  IndInv'
<1>1. PICK r \in Request : r = worker[w].request
  BY DEF RunResearch, IndInv, Rows, WorkerState
<1>2. /\ Researched(r, o) /\ Goto(w, Idle) /\ UNCHANGED <<content, hooks, cancelling, qa, calls>>
      /\ IF o = "SUFFICIENT" THEN AcceptBrief(<<r, NextVersion(research[r].briefs)>>) ELSE UNCHANGED accepted
  BY <1>1 DEF RunResearch
<1>3. /\ research' \in [Request -> ResearchRow]
      /\ \A k \in Request : LastCurrent(research'[k].briefs)
      /\ \A k \in Request \ {r} : research'[k] = research[k]
      /\ research'[r].briefs # <<>>
      /\ NextVersion(research[r].briefs) \in Version \cap DOMAIN research'[r].briefs
      /\ research'[r].briefs[NextVersion(research[r].briefs)].outcome = o
      /\ BriefsKept
  BY <1>2, ResearchedRows DEF IndInv
<1>4. PICK v \in Version : v = NextVersion(research[r].briefs)
  BY <1>3
<1>5. accepted \subseteq accepted' /\ \A a \in accepted' \ accepted : Sound(a)'
  <2>1. CASE o = "SUFFICIENT"
    <3>1. accepted' = accepted \cup {[task |-> "research", brief |-> <<r, v>>]}
      BY <1>2, <1>4, <2>1 DEF AcceptBrief
    <3>2. <<r, v>> \in BriefId /\ SoundBrief(<<r, v>>)'
      BY <1>3, <1>4, <2>1 DEF SoundBrief, BriefId
    <3> QED
      BY <3>1, <3>2 DEF Sound
  <2> QED
    BY <1>2, <2>1
<1>6. \A k \in Request : research'[k].status = "SUCCEEDED" => research'[k].briefs # <<>>
  BY <1>3 DEF IndInv, StatusInv
<1> QED
  BY <1>2, <1>3, <1>5, <1>6, IdleWorker, ResearchWrites DEF IndInv, Rows

LEMMA RunAgainStep ==
    ASSUME IndInv, NEW r \in Request, NEW o \in Outcome \ {"NONE"}, RunAgain(r, o)
    PROVE  IndInv'
<1>1. Researched(r, o) /\ UNCHANGED <<content, hooks, worker, cancelling, qa, accepted>>
  BY DEF RunAgain
<1>2. calls' \in 0..MaxCalls
  BY CallsCounted DEF RunAgain, IndInv
<1>3. /\ research' \in [Request -> ResearchRow]
      /\ \A k \in Request : LastCurrent(research'[k].briefs)
      /\ \A k \in Request \ {r} : research'[k] = research[k]
      /\ research'[r].briefs # <<>>
      /\ BriefsKept
  BY <1>1, ResearchedRows DEF IndInv
<1>4. \A k \in Request : research'[k].status = "SUCCEEDED" => research'[k].briefs # <<>>
  BY <1>3 DEF IndInv, StatusInv
<1> QED
  BY <1>1, <1>2, <1>3, <1>4, ResearchWrites DEF IndInv, Rows

LEMMA CancelResearchStep ==
    ASSUME IndInv, NEW r \in Request, r # "content", CommitCancel(r)
    PROVE  IndInv'
<1>1. /\ cancelling' = cancelling \ {r} /\ UNCHANGED <<content, hooks, worker, qa, accepted, calls>>
      /\ research' = [research EXCEPT ![r].status = "CANCELLED"]
  BY DEF CommitCancel
<1>2. /\ research[r] \in ResearchRow
      /\ research' = [research EXCEPT ![r] = [research[r] EXCEPT !.status = "CANCELLED"]]
  BY <1>1 DEF IndInv, Rows
<1>3. /\ [research[r] EXCEPT !.status = "CANCELLED"] \in ResearchRow
      /\ [research[r] EXCEPT !.status = "CANCELLED"].status = "CANCELLED"
      /\ [research[r] EXCEPT !.status = "CANCELLED"].briefs = research[r].briefs
  BY <1>2 DEF ResearchRow
<1>4. /\ research' \in [Request -> ResearchRow]
      /\ \A k \in Request : research'[k] = IF k = r THEN [research[r] EXCEPT !.status = "CANCELLED"] ELSE research[k]
  BY <1>2, <1>3 DEF IndInv, Rows
<1>5. \A k \in Request : research'[k].briefs = research[k].briefs
  BY <1>3, <1>4
<1>6. BriefsKept
  BY <1>5 DEF BriefsKept
<1>7. \A k \in Request : /\ LastCurrent(research'[k].briefs)
                         /\ research'[k].status = "SUCCEEDED" => research'[k].briefs # <<>>
  BY <1>3, <1>4, <1>5 DEF IndInv, VersionInv, StatusInv
<1>8. cancelling' \subseteq cancelling /\ calls' \in 0..MaxCalls
  BY <1>1 DEF IndInv, Rows
<1> QED
  BY <1>1, <1>4, <1>6, <1>7, <1>8, ResearchWrites

-----------------------------------------------------------------------------
(* The steps that write the content request. *)

LEMMA ContentWrites ==
    ASSUME IndInv, UNCHANGED research, ScriptsKept,
           content.status # "NONE" => content'.status # "NONE" /\ content'.brief = content.brief,
           content' \in ContentRow, hooks' \subseteq Hook,
           LastCurrent(content'.scripts), OneHook(hooks'),
           \A v \in DOMAIN content'.scripts : OneHook(content'.scripts[v].hook),
           content'.status = "SUCCEEDED" => content'.scripts # <<>>,
           content'.status # "NONE" => content'.brief \in BriefId /\ BriefAccepted(content'.brief),
           content'.scripts # <<>> => content'.status # "NONE",
           accepted \subseteq accepted', \A a \in accepted' \ accepted : Sound(a)',
           UNCHANGED worker \/ \E w \in Worker, s \in WorkerState : Goto(w, s) /\ Remembers(s)',
           cancelling' \subseteq cancelling, UNCHANGED calls, UNCHANGED qa \/ qa' = Idle
    PROVE  IndInv'
<1>1. Grows
  BY DEF Grows, BriefsKept
<1>2. worker' \in [Worker -> WorkerState] /\ WorkerInv'
  BY <1>1, WorkersRemember DEF IndInv, Rows
<1>3. Rows'
  BY <1>2 DEF IndInv, Rows, Idle
<1>4. VersionInv'
  BY DEF IndInv, VersionInv
<1>5. StatusInv'
  BY DEF IndInv, StatusInv, BriefAccepted
<1>6. AcceptedInv'
  BY <1>1, AcceptedAgain DEF IndInv
<1>7. QaInv'
  BY DEF IndInv, QaInv, Idle, ScriptsKept
<1> QED
  BY <1>2, <1>3, <1>4, <1>5, <1>6, <1>7 DEF IndInv

LEMMA CreateContentStep ==
    ASSUME IndInv, NEW w \in Worker, NEW b \in BriefId, CreateContent(w, b)
    PROVE  IndInv'
<1>1. /\ UNCHANGED <<research, hooks, cancelling, qa, calls, accepted>>
      /\ BriefAccepted(b) /\ Goto(w, Writing(content'))
  BY DEF CreateContent
<1>2. content \in ContentRow
  BY DEF IndInv, Rows
<1>3. /\ content' \in ContentRow /\ content'.scripts = content.scripts /\ content'.brief = b
      /\ content'.status # "NONE"
      /\ content'.status = "SUCCEEDED" => content.status = "SUCCEEDED"
      /\ content.status # "NONE" => content.brief = b
  <2>1. CASE content.status # "NONE"
    BY <1>2, <2>1 DEF CreateContent
  <2>2. CASE content.status = "NONE"
    <3>1. content' = [content EXCEPT !.status = "DRAFT", !.brief = b]
      BY <2>2 DEF CreateContent
    <3> QED
      BY <1>2, <2>2, <3>1 DEF ContentRow
  <2> QED
    BY <2>1, <2>2
<1>4. ScriptsKept
  BY <1>3 DEF ScriptsKept
<1>5. PICK s \in WorkerState : s = Writing(content')
  BY <1>3 DEF Writing, WorkerState, ContentRow
<1>6. Remembers(s)'
  BY <1>3, <1>5 DEF Remembers, Writing, IndInv, StatusInv
<1>7. Goto(w, s)
  BY <1>1, <1>5
<1> QED
  BY <1>1, <1>3, <1>4, <1>6, <1>7, ContentWrites DEF IndInv, Rows, VersionInv, StatusInv

\* A generation, of a task or of the API, from what its session remembers.
LEMMA Generation ==
    ASSUME IndInv, NEW w \in Worker, NEW verdict \in Verdict,
           worker[w].pc \in {"content", "generating"}, Generated(worker[w].outcome, verdict),
           IF worker[w].pc = "content" /\ verdict = "PASSED"
               THEN AcceptScript(NextVersion(content.scripts)) ELSE UNCHANGED accepted,
           Goto(w, Idle), UNCHANGED <<research, cancelling, qa, calls>>
    PROVE  IndInv'
<1>1. PICK seen \in Verdict \cup {"NONE"} : seen = worker[w].outcome
  BY DEF IndInv, Rows, WorkerState
<1>2. Generated(seen, verdict)
  BY <1>1
<1>3. /\ content' \in ContentRow /\ hooks' \subseteq Hook
      /\ LastCurrent(content'.scripts) /\ OneHook(hooks')
      /\ \A v \in DOMAIN content'.scripts : OneHook(content'.scripts[v].hook)
      /\ content'.scripts # <<>> /\ content'.status = "SUCCEEDED" /\ content'.brief = content.brief
      /\ NextVersion(content.scripts) \in DOMAIN content'.scripts
      /\ content'.scripts[NextVersion(content.scripts)].verdict = verdict
      /\ ScriptsKept
  BY <1>2, GeneratedRows DEF IndInv
<1>4. content.status # "NONE" /\ content.brief \in BriefId /\ BriefAccepted(content.brief)
  BY DEF IndInv, WorkerInv, Remembers, StatusInv
<1>5. accepted \subseteq accepted' /\ \A a \in accepted' \ accepted : Sound(a)'
  <2>1. CASE worker[w].pc = "content" /\ verdict = "PASSED"
    <3>1. PICK v \in DOMAIN content'.scripts : v = NextVersion(content.scripts)
      BY <1>3
    <3>2. accepted' = accepted \cup {[task |-> "content", brief |-> content'.brief, script |-> v]}
      BY <1>3, <2>1, <3>1 DEF AcceptScript
    <3> QED
      BY <1>3, <2>1, <3>1, <3>2 DEF Sound
  <2> QED
    BY <2>1
<1>6. BriefAccepted(content'.brief)
  BY <1>3, <1>4
<1> QED
  BY <1>3, <1>4, <1>5, <1>6, IdleWorker, ContentWrites DEF IndInv, Rows

LEMMA GenerateStep ==
    ASSUME IndInv, NEW w \in Worker, NEW verdict \in Verdict, GenerateContent(w, verdict) \/ GenerateAgain(w, verdict)
    PROVE  IndInv'
BY Generation DEF GenerateContent, GenerateAgain

LEMMA CancelContentStep ==
    ASSUME IndInv, CommitCancel("content")
    PROVE  IndInv'
<1>1. /\ cancelling' = cancelling \ {"content"} /\ UNCHANGED <<research, hooks, worker, qa, accepted, calls>>
      /\ content' = [content EXCEPT !.status = "CANCELLED"] /\ "content" \in cancelling
  BY DEF CommitCancel
<1>2. /\ content' \in ContentRow /\ content'.status = "CANCELLED" /\ content'.scripts = content.scripts
      /\ content'.brief = content.brief
  BY <1>1 DEF IndInv, Rows, ContentRow
<1>3. content.status # "NONE" /\ content.brief \in BriefId /\ BriefAccepted(content.brief)
  BY <1>1 DEF IndInv, StatusInv
<1>4. ScriptsKept
  BY <1>2 DEF ScriptsKept
<1> QED
  BY <1>1, <1>2, <1>3, <1>4, ContentWrites DEF IndInv, Rows, VersionInv, StatusInv

LEMMA CommitQAStep ==
    ASSUME IndInv, CommitQA
    PROVE  IndInv'
<1>1. /\ qa' = Idle /\ UNCHANGED <<research, hooks, worker, cancelling, accepted, calls>>
      /\ qa.pc = "judging" /\ qa.version \in DOMAIN content.scripts
  BY DEF CommitQA, IndInv, QaInv
<1>2. content.scripts[qa.version].verdict \in Verdict
  <2>1. content.scripts \in BoundedSeq(Script, MaxVersion)
    BY DEF IndInv, Rows, ContentRow
  <2>2. content.scripts[qa.version] \in Script
    BY <1>1, <2>1, BoundedSeqIsSeq, ConstantsAssumption
  <2> QED
    BY <2>2 DEF Script
<1>3. content.outcome \in Verdict \cup {"NONE"} /\ content \in ContentRow
  BY DEF IndInv, Rows, ContentRow
<1>4. PICK o \in Verdict \cup {"NONE"} :
         o = IF qa.current THEN Written(content.outcome, qa.outcome, content.scripts[qa.version].verdict)
             ELSE content.outcome
  BY <1>2, <1>3 DEF Written
<1>5. content' = [content EXCEPT !.outcome = o]
  BY <1>4 DEF CommitQA
<1>6. /\ content' \in ContentRow /\ content'.status = content.status /\ content'.scripts = content.scripts
      /\ content'.brief = content.brief
  BY <1>3, <1>5 DEF ContentRow
<1>7. ScriptsKept
  BY <1>6 DEF ScriptsKept
<1> QED
  BY <1>1, <1>6, <1>7, ContentWrites DEF IndInv, Rows, VersionInv, StatusInv

\* A check that opens or judges writes nothing but what it remembers.
LEMMA OpenStep ==
    ASSUME IndInv, OpenQA \/ \E v \in Version : JudgeQA(v)
    PROVE  IndInv'
<1>1. UNCHANGED <<research, content, hooks, worker, cancelling, accepted>> /\ calls' \in 0..MaxCalls
  BY CallsCounted DEF OpenQA, JudgeQA, IndInv, Rows
<1>2. /\ qa' \in [pc : {"idle"}] \cup [pc : {"opened"}, outcome : Verdict \cup {"NONE"}]
              \cup [pc : {"judging"}, outcome : Verdict \cup {"NONE"}, version : Version, current : BOOLEAN]
      /\ qa'.pc = "judging" => qa'.version \in DOMAIN content.scripts
  <2>1. CASE OpenQA
    BY <2>1 DEF OpenQA, IndInv, Rows, ContentRow
  <2>2. CASE \E v \in Version : JudgeQA(v)
    <3>1. PICK v \in Version : JudgeQA(v)
      BY <2>2
    <3>2. content.scripts[v].current \in BOOLEAN
      <4>1. content.scripts \in BoundedSeq(Script, MaxVersion) /\ v \in DOMAIN content.scripts
        BY <3>1 DEF IndInv, Rows, ContentRow, JudgeQA
      <4>2. content.scripts[v] \in Script
        BY <4>1, BoundedSeqIsSeq, ConstantsAssumption
      <4> QED
        BY <4>2 DEF Script
    <3>3. qa.outcome \in Verdict \cup {"NONE"}
      BY <3>1 DEF JudgeQA, IndInv, Rows
    <3> QED
      BY <3>1, <3>2, <3>3 DEF JudgeQA
  <2> QED
    BY <2>1, <2>2
<1>3. Grows
  BY <1>1, UnchangedGrows
<1>4. WorkerInv' /\ AcceptedInv'
  BY <1>1, <1>3, WorkersRemember, AcceptedAgain DEF IndInv
<1>5. Rows' /\ QaInv'
  BY <1>1, <1>2 DEF IndInv, Rows, QaInv
<1>6. VersionInv' /\ StatusInv'
  BY <1>1 DEF IndInv, VersionInv, StatusInv, BriefAccepted
<1> QED
  BY <1>4, <1>5, <1>6 DEF IndInv

-----------------------------------------------------------------------------
(* The theorems. *)

\* The invariant holds in every reachable state.
THEOREM Inductive == Spec => []IndInv
<1>1. IndInv /\ [Next]_vars => IndInv'
  <2> SUFFICES ASSUME IndInv, [Next]_vars PROVE IndInv'
    OBVIOUS
  <2>1. CASE UNCHANGED vars
    <3>1. UNCHANGED <<research, content, hooks, worker, cancelling, qa, calls, accepted>>
      BY <2>1 DEF vars
    <3>2. Rows' /\ VersionInv' /\ QaInv'
      BY <3>1 DEF IndInv, Rows, VersionInv, QaInv
    <3>3. StatusInv' /\ WorkerInv'
      BY <3>1 DEF IndInv, StatusInv, WorkerInv, BriefAccepted, Remembers
    <3>4. AcceptedInv'
      BY <3>1, UnchangedGrows, AcceptedAgain DEF IndInv
    <3> QED
      BY <3>2, <3>3, <3>4 DEF IndInv
  <2>2. ASSUME NEW w \in Worker,
               \/ FindResearch(w) \/ CreateResearch(w) \/ ReuseResearch(w) \/ ReuseContent(w) \/ Die(w)
               \/ BeginGenerate(w)
        PROVE  IndInv'
    BY <2>2, FindResearchStep, CreateResearchStep, ReuseResearchStep, ReuseContentStep, DieStep, BeginGenerateStep
  <2>3. ASSUME NEW w \in Worker,
               \/ \E o \in Outcome \ {"NONE"} : RunResearch(w, o)
               \/ \E b \in BriefId : CreateContent(w, b)
               \/ \E verdict \in Verdict : GenerateContent(w, verdict) \/ GenerateAgain(w, verdict)
        PROVE  IndInv'
    BY <2>3, RunResearchStep, CreateContentStep, GenerateStep
  <2>4. ASSUME NEW r \in Request, NEW o \in Outcome \ {"NONE"}, RunAgain(r, o) PROVE IndInv'
    BY <2>4, RunAgainStep
  <2>5. ASSUME NEW x \in Request \cup {"content"}, BeginCancel(x) \/ CommitCancel(x) PROVE IndInv'
    BY <2>5, BeginCancelStep, CancelContentStep, CancelResearchStep
  <2>6. ASSUME NEW h \in Hook, SelectHook(h) \/ DeselectHook(h) PROVE IndInv'
    BY <2>6, HookStep
  <2>7. CASE OpenQA \/ CommitQA \/ \E v \in Version : JudgeQA(v)
    BY <2>7, OpenStep, CommitQAStep
  <2> QED
    BY <2>1, <2>2, <2>3, <2>4, <2>5, <2>6, <2>7 DEF Next
<1> QED
  BY InitInv, <1>1, PTL DEF Spec

\* Every state of the service, of the two tasks and of the API is one the rows can
\* hold, and every version given to a Mission exists: AcceptBrief and AcceptScript
\* take the number before the version is inserted (research_service, content_service).
THEOREM EditorialTypeCorrect == Spec => []TypeOK
<1>1. IndInv => TypeOK
  <2> SUFFICES ASSUME IndInv PROVE TypeOK
    OBVIOUS
  <2>1. accepted \subseteq [task : {"research"}, brief : Made]
                         \cup [task : {"content"}, brief : Made, script : DOMAIN content.scripts]
    <3> SUFFICES ASSUME NEW a \in accepted
                 PROVE  a \in [task : {"research"}, brief : Made]
                         \cup [task : {"content"}, brief : Made, script : DOMAIN content.scripts]
      OBVIOUS
    <3>1. \A b \in BriefId : BriefAccepted(b) => b \in Made
      BY DEF IndInv, AcceptedInv, Sound, SoundBrief, Made, BriefAccepted
    <3>2. Sound(a)
      BY DEF IndInv, AcceptedInv
    <3>3. CASE \E b \in BriefId : a = [task |-> "research", brief |-> b] /\ SoundBrief(b)
      BY <3>3 DEF SoundBrief, Made
    <3>4. CASE \E v \in DOMAIN content.scripts :
                  a = [task |-> "content", brief |-> content.brief, script |-> v] /\ content.status # "NONE"
      BY <3>1, <3>4 DEF IndInv, StatusInv
    <3> QED
      BY <3>2, <3>3, <3>4 DEF Sound
  <2> QED
    BY <2>1 DEF TypeOK, IndInv, Rows
<1> QED
  BY <1>1, Inductive, PTL

\* Of the versions of every brief and script exactly the last is current, and at
\* most one hook is selected, for any number of rival tasks, runs and choices.
THEOREM OneVersionCurrent == Spec => []OneCurrent
<1>1. ASSUME NEW chosen, OneHook(chosen) PROVE Cardinality(chosen) <= 1
  <2>1. PICK h \in Hook : chosen \subseteq {h}
    BY <1>1 DEF OneHook
  <2>2. IsFiniteSet({h}) /\ Cardinality({h}) = 1
    BY FS_Singleton
  <2>3. Cardinality(chosen) \in Nat /\ Cardinality(chosen) <= Cardinality({h})
    BY <2>1, <2>2, FS_Subset, FS_CardinalityType
  <2> QED
    BY <2>2, <2>3
<1>2. IndInv => OneCurrent
  BY <1>1 DEF IndInv, VersionInv, LastCurrent, OneCurrent
<1> QED
  BY <1>2, Inductive, PTL

\* What a Mission was given stays sound: a sufficient brief, a script that passed
\* QA, and both of the one accepted brief of the content request.
THEOREM AcceptedStaysSound == Spec => []AcceptedIsSound
<1>1. IndInv => AcceptedIsSound
  <2> SUFFICES ASSUME IndInv, NEW a \in accepted
               PROVE  /\ research[a.brief[1]].briefs[a.brief[2]].outcome = "SUFFICIENT"
                      /\ a.task = "content" => /\ content.scripts[a.script].verdict = "PASSED"
                                               /\ BriefAccepted(a.brief) /\ a.brief = content.brief
    BY DEF AcceptedIsSound
  <2>1. Sound(a)
    BY DEF IndInv, AcceptedInv
  <2>2. \A b \in BriefId : BriefAccepted(b) => SoundBrief(b)
    BY DEF IndInv, AcceptedInv, Sound, BriefAccepted
  <2>3. CASE \E b \in BriefId : a = [task |-> "research", brief |-> b] /\ SoundBrief(b)
    BY <2>3 DEF SoundBrief
  <2>4. CASE \E v \in DOMAIN content.scripts :
                /\ a = [task |-> "content", brief |-> content.brief, script |-> v]
                /\ content.status # "NONE" /\ content.scripts[v].verdict = "PASSED"
    <3>1. content.brief \in BriefId /\ BriefAccepted(content.brief)
      BY <2>4 DEF IndInv, StatusInv
    <3> QED
      BY <2>2, <2>4, <3>1 DEF SoundBrief
  <2> QED
    BY <2>1, <2>3, <2>4 DEF Sound
<1> QED
  BY <1>1, Inductive, PTL
=============================================================================
