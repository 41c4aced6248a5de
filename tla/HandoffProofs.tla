---------------------------- MODULE HandoffProofs ----------------------------
(***************************************************************************)
(* Theorems about Handoff, for every value of its constants: every remote  *)
(* history, policy, binding, number of invocations and of pushes.  First   *)
(* its types, then that what a recorded Agent Run Contract says is so.     *)
(***************************************************************************)
EXTENDS Handoff, TLAPS

State == {"present", "placeholder", "missing", "dirty", "stale", "blocked"}

-----------------------------------------------------------------------------
(***************************************************************************)
(* Policies.                                                               *)
(***************************************************************************)

\* A commit's policy file is a policy, or an error.
LEMMA PolicyAtType ==
    ASSUME NEW c \in Commit
    PROVE  PolicyAt(c) \in Policy \cup {None}
<1>1. Defaults \in Policy
    BY DEF Defaults, Policy
<1>2. ASSUME FileIn[c] # None
      PROVE  ParseBytes(FileIn[c]) \in Policy \cup {None}
    <2>1. FileIn[c] \in PolicyFile \ {None}
        BY <1>2, FileAssumption
    <2> QED
        BY <2>1 DEF ParseBytes, Policy, PolicyFile, Mode, ModeWord
<1> QED
    BY <1>1, <1>2 DEF PolicyAt

LEMMA ReadableType ==
    ASSUME NEW c \in Commit \cup {None}, Readable(c)
    PROVE  c \in Commit /\ PolicyAt(c) \in Policy
BY PolicyAtType DEF Readable

-----------------------------------------------------------------------------
(***************************************************************************)
(* Reports.                                                                *)
(***************************************************************************)

LEMMA NewReportType ==
    ASSUME NEW base \in Branch \cup {Malformed, None}
    PROVE  NewReport(base) \in Report
BY NamesAssumption DEF NewReport, Report

LEMMA BlockType ==
    ASSUME NEW r \in Report, NEW s \in State, NEW codes \in SUBSET Code
    PROVE  Block(r, s, codes) \in Report
BY DEF Block, Report, State

LEMMA WarnType ==
    ASSUME NEW r \in Report, NEW codes \in SUBSET Code
    PROVE  Warn(r, codes) \in Report
BY DEF Warn, Report

LEMMA WithBaseType ==
    ASSUME NEW r \in Report, NEW policy \in Policy, NEW base
    PROVE  WithBase(r, policy, base) \in Report
BY DEF WithBase, Report, Policy

LEMMA EnforceType ==
    ASSUME NEW r \in Report, NEW mode, NEW codes \in SUBSET Code
    PROVE  Enforce(r, mode, codes) \in Report
BY BlockType, WarnType DEF Enforce, State

LEMMA EnvType ==
    ASSUME NEW p, NEW r \in Report, NEW policy
    PROVE  checkEnvReadiness(p, r, policy) \in Report
BY EnforceType DEF checkEnvReadiness, Code

LEMMA RequirementsType ==
    ASSUME NEW p, NEW r \in Report, NEW policy
    PROVE  Requirements(p, r, policy) \in Report
<1>1. ASSUME NEW s \in Report
      PROVE  checkToolchainReadiness(req[p], s, policy) \in Report
    <2>1. Check(req[p], policy) \ {"present"} \in SUBSET Code
        BY DEF Check, Detect, HostDetect, Code
    <2> QED
        BY <1>1, <2>1, EnforceType DEF checkToolchainReadiness
<1> QED
    BY <1>1, EnvType DEF Requirements

LEMMA SourcePolicyType ==
    ASSUME site \in Site
    PROVE  SourcePolicy \in Policy \cup {None}
<1>1. Defaults \in Policy
    BY DEF Defaults, Policy
<1>2. site.worktree \in Commit
    BY DEF Site
<1> QED
    BY <1>1, <1>2, PolicyAtType DEF SourcePolicy

LEMMA GitStatusType ==
    ASSUME NEW r \in Report
    PROVE  gitStatus(r) \in Report
<1>1. {"git-status-failed"} \in SUBSET Code /\ {"dirty-checkout"} \in SUBSET Code
    BY DEF Code
<1>2. Block(r, "blocked", {"git-status-failed"}) \in Report /\ Warn(r, {"dirty-checkout"}) \in Report
    BY <1>1, BlockType, WarnType DEF State
<1>3. [Warn(r, {"dirty-checkout"}) EXCEPT !.state = "dirty"] \in Report
    BY <1>2 DEF Report
<1> QED
    BY <1>2, <1>3 DEF gitStatus

LEMMA SourceRemoteType ==
    ASSUME NEW r \in Report
    PROVE  sourceRemote(r) \in Report
<1>1. /\ {"origin-missing"} \in SUBSET Code /\ {"origin-unsupported"} \in SUBSET Code
      /\ {"remote-mismatch"} \in SUBSET Code
    BY DEF Code
<1> QED
    BY <1>1, BlockType DEF sourceRemote, State

LEMMA PlacementType ==
    ASSUME NEW r \in Report
    PROVE  Placement(r) \in Report
<1>1. /\ {"missing-path"} \in SUBSET Code /\ {"path-not-directory"} \in SUBSET Code
      /\ {"placeholder"} \in SUBSET Code /\ {"placeholder-local-changes"} \in SUBSET Code
      /\ {"placeholder-mismatch"} \in SUBSET Code /\ {"invalid-placeholder"} \in SUBSET Code
    BY DEF Code
<1> QED
    BY <1>1, BlockType DEF Placement, State

LEMMA OnDiskType ==
    ASSUME NEW r \in Report
    PROVE  OnDisk(r) \in Report
BY DEF OnDisk, Report

\* What a look at the source directory finds out is a report.
LEMMA LookProjectType ==
    ASSUME site \in Site, NEW q \in Request
    PROVE  LookProject(q) \in Report
<1> DEFINE n == OnDisk(NewReport(q.base))
           r == Placement(n)
           s == gitStatus(WithBase(r, SourcePolicy, q.base))
<1>1. q.base \in Branch \cup {Malformed, None}
    BY DEF Request
<1>2. n \in Report
    BY <1>1, NewReportType, OnDiskType
<1> HIDE DEF n
<1>3. r \in Report
    BY <1>2, PlacementType
<1> HIDE DEF r
<1>4. Block(r, "blocked", {"invalid-policy"}) \in Report
    BY <1>3, BlockType DEF State, Code
<1>5. ASSUME SourcePolicy # None
      PROVE  s \in Report /\ sourceRemote(s) \in Report
    <2>1. WithBase(r, SourcePolicy, q.base) \in Report
        BY <1>3, <1>5, SourcePolicyType, WithBaseType
    <2> QED
        BY <2>1, GitStatusType, SourceRemoteType
<1> HIDE DEF s
<1>6. LookProject(q) = IF Blocked(r) THEN r
                       ELSE IF SourcePolicy = None THEN Block(r, "blocked", {"invalid-policy"})
                       ELSE IF Blocked(s) \/ q.kind = "tree" THEN s
                       ELSE sourceRemote(s)
    BY DEF LookProject, s, r, n
<1> QED
    BY <1>3, <1>4, <1>5, <1>6

LEMMA LookHandoffType ==
    ASSUME site \in Site, NEW q \in Request
    PROVE  LookHandoff(q) \in Report
<1> DEFINE r == OnDisk(NewReport(q.base))
           s == gitStatus(WithBase(r, HandoffPolicy(q), q.base))
           B(code) == Block(r, "blocked", {code})
<1>1. q.base \in Branch \cup {Malformed, None}
    BY DEF Request
<1>2. r \in Report
    BY <1>1, NewReportType, OnDiskType
<1> HIDE DEF r
<1>3. /\ B("origin-missing") \in Report /\ B("unsafe-clone-url") \in Report
      /\ B("path-not-directory") \in Report /\ B("invalid-policy") \in Report
    BY <1>2, BlockType DEF State, Code
<1>4. HandoffPolicy(q) \in Policy \cup {None}
    BY SourcePolicyType DEF HandoffPolicy, Defaults, Policy
<1>5. ASSUME HandoffPolicy(q) # None
      PROVE  s \in Report /\ sourceRemote(s) \in Report
    <2>1. WithBase(r, HandoffPolicy(q), q.base) \in Report
        BY <1>2, <1>4, <1>5, WithBaseType
    <2> QED
        BY <2>1, GitStatusType, SourceRemoteType
<1> HIDE DEF s, B
<1>6. LookHandoff(q) =
        IF site.node = "absent"
        THEN CASE site.clone = "empty" -> B("origin-missing")
               [] site.clone = "unsafe" -> B("unsafe-clone-url")
               [] OTHER -> r
        ELSE IF site.node = "file" THEN B("path-not-directory")
        ELSE IF HandoffPolicy(q) = None THEN B("invalid-policy")
        ELSE IF Blocked(s) THEN s
        ELSE sourceRemote(s)
    BY DEF LookHandoff, s, r, B
<1> QED
    BY <1>2, <1>3, <1>5, <1>6

\* The commit that counts as fetched, and what the local branch says to it.
LEMMA FreshnessType ==
    ASSUME NEW r \in Report
    PROVE  /\ Freshness(r) \in Report
           /\ Freshness(r).base = r.base
           /\ Freshness(r).fetchedBase = r.fetchedBase
           /\ Freshness(r).fetchedCommit = r.fetchedCommit
BY DEF Freshness, Warn, Report, Code

-----------------------------------------------------------------------------
(***************************************************************************)
(* TypeOK, action by action.                                               *)
(***************************************************************************)

\* Where a check leads and what it reports.
LEMMA ReachType ==
    ASSUME TypeOK, NEW p \in Proc, NEW r \in Report, NEW label \in PC, Reach(p, r, label)
    PROVE  rep' \in [Proc -> Report] /\ pc' \in [Proc -> PC]
BY DEF TypeOK, Reach, Goto

LEMMA GotoType ==
    ASSUME TypeOK, NEW p, NEW label \in PC, Goto(p, label)
    PROVE  pc' \in [Proc -> PC]
BY DEF TypeOK, Goto

LEMMA DiscardType ==
    ASSUME TypeOK, NEW p, Discard(p)
    PROVE  /\ clone' \in [Proc -> Commit \cup {None}] /\ bundle' \in [Proc -> SUBSET Key]
           /\ contract' = contract /\ admitted' = admitted
BY DEF TypeOK, Discard

LEMMA BlockOfType ==
    ASSUME TypeOK, NEW p \in Proc, NEW code \in Code, NEW s \in State
    PROVE  Block(rep[p], s, {code}) \in Report
<1>1. rep[p] \in Report /\ {code} \in SUBSET Code
    BY DEF TypeOK
<1> QED
    BY <1>1, BlockType

LEMMA CodeOf ==
    /\ "fetch-failed" \in Code /\ "missing-base" \in Code /\ "invalid-base" \in Code
    /\ "invalid-policy" \in Code
    /\ {"unsafe-clone-url"} \in SUBSET Code /\ {"env-provider-unsupported"} \in SUBSET Code
    /\ {"invalid-policy"} \in SUBSET Code
BY DEF Code

LEMMA StateOf == "stale" \in State /\ "blocked" \in State
BY DEF State

LEMMA PCOf ==
    /\ "idle" \in PC /\ "done" \in PC /\ "failed" \in PC /\ "gone" \in PC
    /\ "look" \in PC /\ "default" \in PC /\ "fetch" \in PC /\ "resolve" \in PC
    /\ "show" \in PC /\ "judge" \in PC
    /\ "remote_default" \in PC /\ "probe_default" \in PC /\ "list" \in PC /\ "probe" \in PC
    /\ "clone" \in PC /\ "bind" \in PC /\ "write" \in PC /\ "record" \in PC
BY DEF PC, Gate, MissingGate, Making

\* A check that ends in an error of the remote, or of its base.
LEMMA GateEnds ==
    ASSUME TypeOK, NEW p \in Proc, Unreachable(p) \/ MissingBase(p) \/ InvalidBase(p)
    PROVE  /\ rep' \in [Proc -> Report] /\ pc' = [pc EXCEPT ![p] = "done"]
           /\ pc' \in [Proc -> PC]
<1>1. CASE Unreachable(p)
    BY <1>1, BlockOfType, CodeOf, StateOf, PCOf, ReachType DEF Unreachable, Reach, Goto
<1>2. CASE MissingBase(p)
    BY <1>2, BlockOfType, CodeOf, StateOf, PCOf, ReachType DEF MissingBase, Reach, Goto
<1>3. CASE InvalidBase(p)
    BY <1>3, BlockOfType, CodeOf, StateOf, PCOf, ReachType DEF InvalidBase, Reach, Goto
<1> QED
    BY <1>1, <1>2, <1>3

LEMMA InitType == Init => TypeOK
<1> SUFFICES ASSUME Init PROVE TypeOK
    OBVIOUS
<1>1. Unused \in Request
    BY DEF Unused, Request, Kind
<1>2. NewReport(None) \in Report
    BY NewReportType
<1>3. Defaults \in Policy
    BY DEF Defaults, Policy
<1>4. "idle" \in PC
    BY PCOf
<1> HIDE DEF Unused, NewReport, Defaults, PC
<1>5. site \in Site
    BY SitesAssumption DEF Init
<1>6. tips \in [Branch -> SUBSET Commit]
    BY HostedAssumption DEF Init
<1> QED
    BY <1>1, <1>2, <1>3, <1>4, <1>5, <1>6, HostedAssumption, BoundsAssumption DEF Init, TypeOK

LEMMA BeginType ==
    ASSUME TypeOK, NEW p \in Proc, NEW q \in Request, Begin(p, q)
    PROVE  TypeOK'
<1>1. pc' \in [Proc -> PC]
    BY GotoType, PCOf DEF Begin
<1>2. req' \in [Proc -> Request]
    BY DEF TypeOK, Begin
<1> QED
    BY <1>1, <1>2 DEF TypeOK, Begin, remote, table, prepared

LEMMA LookType ==
    ASSUME TypeOK, NEW p \in Proc, Look(p)
    PROVE  TypeOK'
<1> DEFINE q == req[p]
           r == IF IsProject(q) THEN LookProject(q) ELSE LookHandoff(q)
           policy == IF IsProject(q) THEN SourcePolicy ELSE HandoffPolicy(q)
<1>1. site \in Site /\ q \in Request
    BY DEF TypeOK
<1>2. r \in Report
    BY <1>1, LookProjectType, LookHandoffType
<1>3. policy \in Policy \cup {None}
    BY <1>1, SourcePolicyType DEF HandoffPolicy, Defaults, Policy
<1>4. ~Blocked(r) => policy # None
    <2>1. ASSUME IsProject(q), SourcePolicy = None
          PROVE  Blocked(LookProject(q))
        BY <2>1 DEF LookProject, Blocked, Block
    <2>2. ASSUME ~IsProject(q), HandoffPolicy(q) = None, site.node # "absent"
          PROVE  Blocked(LookHandoff(q))
        BY <2>2 DEF LookHandoff, Blocked, Block
    <2> QED
        BY <2>1, <2>2 DEF Look
<1>5. PICK label \in PC : /\ Reach(p, r, label)
                          /\ pol' = [pol EXCEPT ![p] = policy] \/ UNCHANGED pol
                          /\ Blocked(r) => UNCHANGED pol
    <2> DEFINE next == IF q.kind # "tree" /\ Asks(q, policy) THEN "default"
                       ELSE IF IsProject(q) THEN "judge" ELSE "fetch"
    <2>1. next \in PC /\ "done" \in PC
        BY PCOf
    <2> HIDE DEF r, policy, next
    <2>2. IF Blocked(r) THEN Reach(p, r, "done") /\ UNCHANGED pol
          ELSE Reach(p, r, next) /\ pol' = [pol EXCEPT ![p] = policy]
        BY DEF Look, r, policy, next
    <2> QED
        BY <2>1, <2>2
<1> HIDE DEF r, policy
<1>6. rep' \in [Proc -> Report] /\ pc' \in [Proc -> PC]
    BY <1>2, <1>5, ReachType
<1>7. pol' \in [Proc -> Policy]
    BY <1>3, <1>4, <1>5 DEF TypeOK
<1> QED
    BY <1>6, <1>7 DEF TypeOK, Look, remote, table, prepared

LEMMA LookMissingType ==
    ASSUME TypeOK, NEW p \in Proc, LookMissing(p)
    PROVE  TypeOK'
<1>1. LookHandoff(req[p]) \in Report
    BY LookHandoffType DEF TypeOK
<1>2. \E label \in PC : Reach(p, LookHandoff(req[p]), label)
    <2> DEFINE label == IF Blocked(LookHandoff(req[p])) THEN "done"
                        ELSE IF req[p].base = None THEN "remote_default" ELSE "list"
    <2>1. label \in PC
        BY PCOf
    <2>2. Reach(p, LookHandoff(req[p]), label)
        BY DEF LookMissing
    <2> QED
        BY <2>1, <2>2
<1>3. rep' \in [Proc -> Report] /\ pc' \in [Proc -> PC]
    BY <1>1, <1>2, ReachType
<1> QED
    BY <1>3 DEF TypeOK, LookMissing, remote, table, prepared

LEMMA AskDefaultType ==
    ASSUME TypeOK, NEW p \in Proc, AskDefault(p)
    PROVE  TypeOK'
<1>1. CASE Unreachable(p)
    BY <1>1, GateEnds DEF AskDefault, TypeOK, remote, table, prepared
<1>2. CASE Reach(p, [rep[p] EXCEPT !.base = IF site.head = None THEN Main ELSE site.head],
                 AfterDefault(p))
    <2>1. site.head \in Branch \cup {None} /\ rep[p] \in Report
        BY DEF TypeOK, Site
    <2>2. [rep[p] EXCEPT !.base = IF site.head = None THEN Main ELSE site.head] \in Report
        BY <2>1, NamesAssumption DEF Report
    <2>3. AfterDefault(p) \in PC
        BY PCOf DEF AfterDefault
    <2>4. rep' \in [Proc -> Report] /\ pc' \in [Proc -> PC]
        BY <1>2, <2>2, <2>3, ReachType
    <2> QED
        BY <2>4 DEF AskDefault, TypeOK, remote, table, prepared
<1> QED
    BY <1>1, <1>2 DEF AskDefault

LEMMA AskRemoteDefaultType ==
    ASSUME TypeOK, NEW p \in Proc, AskRemoteDefault(p)
    PROVE  TypeOK'
<1>1. CASE Unreachable(p)
    BY <1>1, GateEnds DEF AskRemoteDefault, TypeOK, remote, table, prepared
<1>2. ASSUME NEW b \in Branch, NEW label \in PC, Reach(p, [rep[p] EXCEPT !.base = b], label)
      PROVE  TypeOK'
    <2>1. rep[p] \in Report
        BY DEF TypeOK
    <2>2. [rep[p] EXCEPT !.base = b] \in Report
        BY <2>1 DEF Report
    <2>3. rep' \in [Proc -> Report] /\ pc' \in [Proc -> PC]
        BY <1>2, <2>2, ReachType
    <2> QED
        BY <2>3 DEF AskRemoteDefault, TypeOK, remote, table, prepared
<1>3. site.head \in Branch \cup {None} /\ Main \in Branch
    BY NamesAssumption DEF TypeOK, Site
<1> QED
    BY <1>1, <1>2, <1>3, PCOf DEF AskRemoteDefault

LEMMA ProbeDefaultType ==
    ASSUME TypeOK, NEW p \in Proc, ProbeDefault(p), rep[p].base \in Branch
    PROVE  TypeOK'
<1>1. CASE Goto(p, "list") /\ UNCHANGED rep
    BY <1>1, GotoType, PCOf DEF ProbeDefault, TypeOK, remote, table, prepared
<1>2. CASE Fail(p)
    BY <1>2, GotoType, PCOf DEF Fail, ProbeDefault, TypeOK, remote, table, prepared
<1>3. ASSUME tip[rep[p].base] # None, PolicyAt(tip[rep[p].base]) # None,
             Reach(p, WithBase(rep[p], PolicyAt(tip[rep[p].base]), None), "list")
      PROVE  TypeOK'
    <2>1. rep[p] \in Report /\ tip[rep[p].base] \in Commit
        BY <1>3 DEF TypeOK
    <2>2. WithBase(rep[p], PolicyAt(tip[rep[p].base]), None) \in Report
        BY <1>3, <2>1, PolicyAtType, WithBaseType
    <2>3. rep' \in [Proc -> Report] /\ pc' \in [Proc -> PC]
        BY <1>3, <2>2, ReachType, PCOf
    <2> QED
        BY <2>3 DEF ProbeDefault, TypeOK, remote, table, prepared
<1> QED
    BY <1>1, <1>2, <1>3 DEF ProbeDefault

LEMMA ListType ==
    ASSUME TypeOK, NEW p \in Proc, List(p)
    PROVE  TypeOK'
<1>1. CASE Unreachable(p) \/ MissingBase(p) \/ InvalidBase(p)
    BY <1>1, GateEnds DEF List, TypeOK, remote, table, prepared
<1>2. ASSUME rep[p].base # Malformed, tip[rep[p].base] # None,
             Reach(p, [rep[p] EXCEPT !.fetchedBase = rep[p].base,
                                     !.fetchedCommit = tip[rep[p].base]], "probe")
      PROVE  TypeOK'
    <2>1. rep[p] \in Report /\ rep[p].base \in Branch
        BY <1>2 DEF TypeOK, Report
    <2>2. tip[rep[p].base] \in Commit
        BY <1>2, <2>1 DEF TypeOK
    <2>3. [rep[p] EXCEPT !.fetchedBase = rep[p].base,
                         !.fetchedCommit = tip[rep[p].base]] \in Report
        BY <2>1, <2>2 DEF Report
    <2>4. rep' \in [Proc -> Report] /\ pc' \in [Proc -> PC]
        BY <1>2, <2>3, ReachType, PCOf
    <2> QED
        BY <2>4 DEF List, TypeOK, remote, table, prepared
<1> QED
    BY <1>1, <1>2 DEF List

LEMMA ProbeType ==
    ASSUME TypeOK, NEW p \in Proc, Probe(p), rep[p].base \in Branch
    PROVE  TypeOK'
<1> DEFINE c == tip[rep[p].base]
<1>1. c \in Commit \cup {None} /\ rep[p] \in Report
    BY DEF TypeOK
<1>2. CASE /\ Reach(p, Block(rep[p], "blocked", {"invalid-policy"}), "done")
           /\ UNCHANGED <<pol, judgedOn>>
    <2>1. rep' \in [Proc -> Report] /\ pc' \in [Proc -> PC]
        BY <1>2, BlockOfType, CodeOf, StateOf, PCOf, ReachType
    <2> QED
        BY <1>2, <2>1 DEF Probe, TypeOK, remote, table, prepared
<1>3. CASE /\ Readable(c)
           /\ Reach(p, rep[p], "judge")
           /\ pol' = [pol EXCEPT ![p] = PolicyAt(c)]
           /\ judgedOn' = [judgedOn EXCEPT ![p] = c]
    <2>1. rep' \in [Proc -> Report] /\ pc' \in [Proc -> PC]
        BY <1>1, <1>3, PCOf, ReachType
    <2>2. c \in Commit /\ PolicyAt(c) \in Policy
        BY <1>1, <1>3, ReadableType
    <2>3. pol' \in [Proc -> Policy] /\ judgedOn' \in [Proc -> Commit \cup {None}]
        BY <1>3, <2>2 DEF TypeOK
    <2> QED
        BY <2>1, <2>3 DEF Probe, TypeOK, remote, table, prepared
<1> QED
    BY <1>2, <1>3 DEF Probe

LEMMA FetchedType ==
    ASSUME TypeOK, NEW p \in Proc, NEW h \in Commit \cup {None}, Fetched(p, h)
    PROVE  fetchHead' \in Commit \cup {None} /\ quiet' \in [Proc -> BOOLEAN]
BY DEF TypeOK, Fetched

LEMMA FetchType ==
    ASSUME TypeOK, NEW p \in Proc, Fetch(p)
    PROVE  TypeOK'
<1>1. CASE InvalidBase(p) /\ UNCHANGED <<fetchHead, quiet>>
    BY <1>1, GateEnds DEF Fetch, TypeOK, remote, table, prepared
<1>2. ASSUME Unreachable(p) \/ MissingBase(p), NEW h \in {fetchHead, None}, Fetched(p, h)
      PROVE  TypeOK'
    <2>1. h \in Commit \cup {None}
        BY DEF TypeOK
    <2>2. fetchHead' \in Commit \cup {None} /\ quiet' \in [Proc -> BOOLEAN]
        BY <1>2, <2>1, FetchedType
    <2> QED
        BY <1>2, <2>2, GateEnds DEF Fetch, TypeOK, remote, table, prepared
<1>3. ASSUME rep[p].base # Malformed, tip[rep[p].base] # None,
             Reach(p, rep[p], "resolve"), Fetched(p, tip[rep[p].base])
      PROVE  TypeOK'
    <2>1. rep[p] \in Report /\ rep[p].base \in Branch
        BY <1>3 DEF TypeOK, Report
    <2>2. tip[rep[p].base] \in Commit \cup {None}
        BY <2>1 DEF TypeOK
    <2>3. fetchHead' \in Commit \cup {None} /\ quiet' \in [Proc -> BOOLEAN]
        BY <1>3, <2>2, FetchedType
    <2>4. rep' \in [Proc -> Report] /\ pc' \in [Proc -> PC]
        BY <1>3, <2>1, PCOf, ReachType
    <2> QED
        BY <2>3, <2>4 DEF Fetch, TypeOK, remote, table, prepared
<1> QED
    BY <1>1, <1>2, <1>3 DEF Fetch

LEMMA ResolveType ==
    ASSUME TypeOK, NEW p \in Proc, Resolve(p)
    PROVE  TypeOK'
<1>1. CASE MissingBase(p)
    BY <1>1, GateEnds DEF Resolve, TypeOK, remote, table, prepared
<1>2. CASE fetchHead # None /\ ~MissingBase(p)
    <2> DEFINE r == [rep[p] EXCEPT !.fetchedBase = rep[p].base, !.fetchedCommit = fetchHead]
               label == IF IsProject(req[p]) THEN "done" ELSE "show"
    <2>1. rep[p] \in Report /\ fetchHead \in Commit
        BY <1>2 DEF TypeOK
    <2>2. r \in Report
        BY <2>1 DEF Report
    <2>3. Freshness(r) \in Report
        BY <2>2, FreshnessType
    <2>4. label \in PC
        BY PCOf
    <2>5. Reach(p, Freshness(r), label)
        BY <1>2 DEF Resolve
    <2>6. rep' \in [Proc -> Report] /\ pc' \in [Proc -> PC]
        BY <2>3, <2>4, <2>5, ReachType
    <2> QED
        BY <2>6 DEF Resolve, TypeOK, remote, table, prepared
<1> QED
    BY <1>1, <1>2 DEF Resolve

LEMMA ShowPolicyType ==
    ASSUME TypeOK, NEW p \in Proc, ShowPolicy(p)
    PROVE  TypeOK'
<1>1. fetchHead \in Commit \cup {None} /\ rep[p] \in Report
    BY DEF TypeOK
<1>2. CASE ~Readable(fetchHead)
    <2>1. Reach(p, Block(rep[p], "blocked", {"invalid-policy"}), "done")
          /\ UNCHANGED <<pol, judgedOn>>
        BY <1>2 DEF ShowPolicy
    <2>2. rep' \in [Proc -> Report] /\ pc' \in [Proc -> PC]
        BY <2>1, BlockOfType, CodeOf, StateOf, PCOf, ReachType
    <2> QED
        BY <2>1, <2>2 DEF ShowPolicy, TypeOK, remote, table, prepared
<1>3. CASE Readable(fetchHead)
    <2>1. rep' \in [Proc -> Report] /\ pc' \in [Proc -> PC]
        BY <1>1, <1>3, PCOf, ReachType DEF ShowPolicy
    <2>2. fetchHead \in Commit /\ PolicyAt(fetchHead) \in Policy
        BY <1>1, <1>3, ReadableType
    <2>3. pol' \in [Proc -> Policy] /\ judgedOn' \in [Proc -> Commit \cup {None}]
        BY <1>3, <2>2 DEF TypeOK, ShowPolicy
    <2> QED
        BY <2>1, <2>3 DEF ShowPolicy, TypeOK, remote, table, prepared
<1> QED
    BY <1>2, <1>3

LEMMA JudgeType ==
    ASSUME TypeOK, NEW p \in Proc, Judge(p)
    PROVE  TypeOK'
<1> DEFINE r == Requirements(p, rep[p], pol[p])
           s == [r EXCEPT !.block = {"unsafe-clone-url"}]
<1>1. r \in Report
    BY RequirementsType DEF TypeOK
<1>2. s \in Report
    BY <1>1, CodeOf DEF Report
<1>3. \E label \in PC, a \in {r, s} : Reach(p, a, label)
    BY PCOf DEF Judge
<1> HIDE DEF r, s
<1>4. rep' \in [Proc -> Report] /\ pc' \in [Proc -> PC]
    BY <1>1, <1>2, <1>3, ReachType
<1> QED
    BY <1>4 DEF Judge, TypeOK, remote, table, prepared

\* A prepare that breaks off, or is refused, behind the gate.
LEMMA MakingEnds ==
    ASSUME TypeOK, NEW p \in Proc, NEW codes \in SUBSET Code, Break(p) \/ Deny(p, codes)
    PROVE  /\ rep' \in [Proc -> Report] /\ pc' \in [Proc -> PC]
           /\ clone' \in [Proc -> Commit \cup {None}] /\ bundle' \in [Proc -> SUBSET Key]
           /\ contract' = contract /\ admitted' = admitted
<1>1. CASE Break(p)
    BY <1>1, GotoType, PCOf, DiscardType DEF Break, Fail, TypeOK
<1>2. CASE Deny(p, codes)
    <2>1. rep[p] \in Report
        BY DEF TypeOK
    <2>2. [rep[p] EXCEPT !.block = @ \cup codes] \in Report
        BY <2>1 DEF Report
    <2> QED
        BY <1>2, <2>2, ReachType, PCOf, DiscardType DEF Deny
<1> QED
    BY <1>1, <1>2

LEMMA CloneType ==
    ASSUME TypeOK, NEW p \in Proc, Clone(p), rep[p].base \in Branch
    PROVE  TypeOK'
<1> DEFINE c == ClonedCommit(p)
<1>1. c \in Commit \cup {None}
    BY DEF TypeOK, ClonedCommit
<1>2. CASE (Break(p) \/ Deny(p, {"invalid-policy"})) /\ UNCHANGED pol
    BY <1>2, MakingEnds, CodeOf DEF Clone, TypeOK, remote, table
<1>3. ASSUME Readable(c), NEW label \in PC, Goto(p, label),
             pol' = [pol EXCEPT ![p] = PolicyAt(c)], clone' = [clone EXCEPT ![p] = c],
             UNCHANGED <<rep, bundle, contract, admitted>>
      PROVE  TypeOK'
    <2>1. c \in Commit /\ PolicyAt(c) \in Policy
        BY <1>1, <1>3, ReadableType
    <2>2. pol' \in [Proc -> Policy] /\ clone' \in [Proc -> Commit \cup {None}]
        BY <1>3, <2>1 DEF TypeOK
    <2>3. pc' \in [Proc -> PC]
        BY <1>3, GotoType
    <2> QED
        BY <1>3, <2>2, <2>3 DEF Clone, TypeOK, remote, table
<1> QED
    BY <1>2, <1>3, PCOf DEF Clone

LEMMA BindType ==
    ASSUME TypeOK, NEW p \in Proc, Bind(p)
    PROVE  TypeOK'
<1> DEFINE missing == {IF bindings[k] = {} THEN "missing-env-binding" ELSE "env-scope-denied" :
                          k \in pol[p].keys \ selectBindings(p)}
<1>1. missing \in SUBSET Code
    BY DEF Code
<1>2. CASE Deny(p, {"env-provider-unsupported"}) \/ Deny(p, missing)
    BY <1>1, <1>2, MakingEnds, CodeOf DEF Bind, TypeOK, remote, table
<1>3. ASSUME Goto(p, "write"),
             admitted' = [admitted EXCEPT ![p] =
                            {k \in Key : scopesIntersect(req[p].scopes, bindings[k])}],
             UNCHANGED <<rep, clone, bundle, contract>>
      PROVE  TypeOK'
    <2>1. pc' \in [Proc -> PC]
        BY <1>3, GotoType, PCOf
    <2>2. admitted' \in [Proc -> SUBSET Key]
        BY <1>3 DEF TypeOK
    <2> QED
        BY <1>3, <2>1, <2>2 DEF Bind, TypeOK, remote, table
<1> QED
    BY <1>2, <1>3 DEF Bind

LEMMA WriteType ==
    ASSUME TypeOK, NEW p \in Proc, Write(p)
    PROVE  TypeOK'
<1>1. CASE Break(p)
    BY <1>1, MakingEnds, CodeOf DEF Write, TypeOK, remote, table
<1>2. CASE ~Break(p)
    <2>1. Goto(p, "record") /\ bundle' = [bundle EXCEPT ![p] = pol[p].keys]
          /\ UNCHANGED <<rep, clone, contract, admitted>>
        BY <1>2 DEF Write
    <2>2. pol[p].keys \in SUBSET Key
        BY DEF TypeOK, Policy
    <2>3. pc' \in [Proc -> PC]
        BY <2>1, GotoType, PCOf
    <2>4. bundle' \in [Proc -> SUBSET Key]
        BY <2>1, <2>2 DEF TypeOK
    <2> QED
        BY <2>1, <2>3, <2>4 DEF Write, TypeOK, remote, table
<1> QED
    BY <1>1, <1>2

LEMMA NewContractType ==
    ASSUME TypeOK, NEW p \in Proc, clone[p] \in Commit
    PROVE  NewContract(p) \in Contract
<1>1. rep[p] \in Report /\ pol[p] \in Policy
    BY DEF TypeOK
<1>2. /\ Provenance(p).base \in Branch \cup {Malformed, None}
      /\ Provenance(p).commit \in Commit \cup {None}
    BY <1>1 DEF Provenance, Report
<1> HIDE DEF Provenance
<1>3. (Provenance(p).commit # None /\ Provenance(p).commit = clone[p]) \in BOOLEAN
    OBVIOUS
<1>4. pol[p].keys \in SUBSET Key /\ rep[p].base \in Branch \cup {Malformed}
    BY <1>1 DEF Policy, Report
<1> QED
    BY <1>2, <1>3, <1>4 DEF NewContract, Contract

LEMMA RecordType ==
    ASSUME TypeOK, NEW p \in Proc, Record(p), clone[p] \in Commit
    PROVE  TypeOK'
<1>1. CASE Break(p)
    BY <1>1, MakingEnds, CodeOf DEF Record, TypeOK, remote, table
<1>2. CASE ~Break(p)
    <2>1. Goto(p, "done") /\ contract' = [contract EXCEPT ![p] = NewContract(p)]
          /\ UNCHANGED <<rep, clone, bundle, admitted>>
        BY <1>2 DEF Record
    <2>2. pc' \in [Proc -> PC]
        BY <2>1, GotoType, PCOf
    <2>3. contract' \in [Proc -> Contract \cup {NoContract}]
        BY <2>1, NewContractType DEF TypeOK
    <2> QED
        BY <2>1, <2>2, <2>3 DEF Record, TypeOK, remote, table
<1> QED
    BY <1>1, <1>2

LEMMA ExitType ==
    ASSUME TypeOK, NEW p \in Proc, Exit(p)
    PROVE  TypeOK'
<1>1. Unused \in Request
    BY DEF Unused, Request, Kind
<1>2. NewReport(None) \in Report
    BY NewReportType
<1>3. Defaults \in Policy
    BY DEF Defaults, Policy
<1>4. pc' \in [Proc -> PC]
    BY GotoType, PCOf DEF Exit
<1> QED
    BY <1>1, <1>2, <1>3, <1>4 DEF Exit, TypeOK, remote, table, prepared

LEMMA PushType ==
    ASSUME TypeOK, NEW b \in Branch, NEW c \in Commit, Push(b, c)
    PROVE  TypeOK'
<1>1. tip' \in [Branch -> Commit \cup {None}] /\ tips' \in [Branch -> SUBSET Commit]
    BY DEF Push, TypeOK
<1>2. pushes' \in 0..MaxPushes
    BY BoundsAssumption DEF Push, TypeOK
<1> QED
    BY <1>1, <1>2 DEF Push, TypeOK, table, prepared

LEMMA EnvBindType ==
    ASSUME TypeOK, NEW k \in Key, NEW scopes \in SUBSET Scope, EnvBind(k, scopes)
    PROVE  TypeOK'
<1>1. bindings' \in [Key -> SUBSET Scope]
    BY DEF EnvBind, TypeOK
<1>2. binds' \in 0..MaxBinds
    BY BoundsAssumption DEF EnvBind, TypeOK
<1> QED
    BY <1>1, <1>2 DEF EnvBind, TypeOK, remote, prepared

-----------------------------------------------------------------------------
(***************************************************************************)
(* The inductive invariant, one operator per stretch of the way.           *)
(***************************************************************************)

\* The remote's branches only ever leave a commit for one they never were at.
Forward ==
    \A b \in Branch :
        /\ tip[b] # None => tip[b] \in tips[b]
        /\ Hosted[b] # None => Hosted[b] \in tips[b]
        /\ Hosted[b] # None /\ tip[b] = Hosted[b] => tips[b] = {Hosted[b]}

\* The gate has a base, and a commit of it that counts as fetched.
Settled(p) ==
    /\ rep[p].base # Malformed
    /\ rep[p].fetchedBase = rep[p].base
    /\ rep[p].fetchedCommit \in Commit
    /\ quiet[p] => rep[p].fetchedCommit \in tips[rep[p].base]

\* The policy in force is that of the fetched commit, or the base has moved on since.
Judged(p) ==
    /\ judgedOn[p] \in Commit
    /\ quiet[p] => \/ judgedOn[p] = rep[p].fetchedCommit
                   \/ tip[rep[p].base] # rep[p].fetchedCommit

\* Nothing that the policy of c demands in block mode has kept p from passing.
Passed(p, c) ==
    LET policy == PolicyAt(c)
    IN  /\ policy.envMode = "block" => /\ policy.files \subseteq FilesPresent
                                       /\ policy.keys \subseteq KeysPresent(p)
        /\ policy.toolMode = "block" => \A t \in policy.tools : HostDetect(t) = "present"

InGate(p) ==
    /\ pc[p] \in {"remote_default", "probe_default", "list"} => ~IsProject(req[p])
    /\ pc[p] = "probe_default" => rep[p].base # Malformed
    /\ pc[p] = "probe" => /\ ~IsProject(req[p]) /\ Settled(p)
                          /\ rep[p].fetchedCommit \in tips[rep[p].base]
    /\ pc[p] = "resolve" => /\ rep[p].base # Malformed
                            /\ quiet[p] => fetchHead \in tips[rep[p].base]
    /\ pc[p] = "show" => /\ ~IsProject(req[p]) /\ Settled(p)
                         /\ quiet[p] => fetchHead = rep[p].fetchedCommit
    /\ pc[p] = "judge" /\ ~IsProject(req[p]) =>
          Settled(p) /\ Judged(p) /\ pol[p] = PolicyAt(judgedOn[p])
    /\ pc[p] = "clone" =>
          req[p].kind = "prepare" /\ Settled(p) /\ Judged(p) /\ Passed(p, judgedOn[p])

\* The workspace is a commit of the base, and passed if it is the fetched one.
Copied(p) ==
    /\ clone[p] \in Commit
    /\ clone[p] \in tips[rep[p].base]
    /\ pol[p] = PolicyAt(clone[p])
    /\ quiet[p] /\ clone[p] = rep[p].fetchedCommit => Passed(p, clone[p])
    /\ quiet[p] /\ clone[p] = Hosted[rep[p].base] => rep[p].fetchedCommit = clone[p]

InMaking(p) ==
    /\ pc[p] \in {"bind", "write", "record"} =>
          req[p].kind = "prepare" /\ Settled(p) /\ Copied(p)
    /\ pc[p] \in {"bind", "write"} => bundle[p] = {} /\ req[p].provider # "none"
    /\ pc[p] = "write" => pol[p].keys \subseteq admitted[p]
    /\ pc[p] = "record" => /\ bundle[p] \in {{}, pol[p].keys}
                           /\ bundle[p] \subseteq admitted[p]
                           /\ req[p].provider # "none" => bundle[p] = pol[p].keys
    /\ pc[p] \notin {"bind", "write", "record"} /\ ~Recorded(p) =>
          bundle[p] = {} /\ clone[p] = None

\* What a recorded contract says is so, for as long as the invocation lasts.
Kept(p) ==
    LET c == contract[p]
    IN  /\ c.base \in Branch
        /\ c.head = clone[p] /\ c.head \in Commit
        /\ c.head \in tips[c.base]
        /\ c.fetchedBase = c.base
        /\ c.matches <=> c.fetchedCommit = c.head
        /\ quiet[p] => c.fetchedCommit \in tips[c.base]
        /\ quiet[p] /\ c.head = Hosted[c.base] => c.fetchedCommit = c.head
        /\ c.requires = PolicyAt(c.head).keys
        /\ bundle[p] \in {{}, c.requires}
        /\ bundle[p] \subseteq admitted[p]
        /\ req[p].provider # "none" => bundle[p] = c.requires
        /\ quiet[p] /\ c.matches => Met(p, c.head)

Closed(p) == Recorded(p) => pc[p] = "done" /\ Kept(p)

Local(p) == InGate(p) /\ InMaking(p) /\ Closed(p)

IInv == TypeOK /\ Forward /\ \A p \in Proc : Local(p)

-----------------------------------------------------------------------------
(***************************************************************************)
(* A process that does not move keeps its part of the invariant.           *)
(***************************************************************************)

Unmoved(o) ==
    /\ pc'[o] = pc[o] /\ req'[o] = req[o] /\ rep'[o] = rep[o] /\ pol'[o] = pol[o]
    /\ clone'[o] = clone[o] /\ bundle'[o] = bundle[o] /\ contract'[o] = contract[o]
    /\ judgedOn'[o] = judgedOn[o] /\ admitted'[o] = admitted[o]

\* FETCH_HEAD is as o left it, or o is no longer said to be alone with it.
Undisturbed(o) ==
    /\ quiet'[o] => quiet[o]
    /\ quiet'[o] /\ pc[o] \in Reading => fetchHead' = fetchHead

\* Branches leave the commits they were at for good.
Moves ==
    \A b \in Branch : tips[b] \subseteq tips'[b] /\ (tip'[b] = tip[b] \/ tip'[b] \notin tips[b])

LEMMA SettledStays ==
    ASSUME TypeOK, NEW o \in Proc, Unmoved(o), Undisturbed(o), Moves, Settled(o)
    PROVE  Settled(o)'
<1>1. rep[o] \in Report
    BY DEF TypeOK
<1>2. rep[o].base \in Branch
    BY <1>1 DEF Settled, Report
<1> QED
    BY <1>2 DEF Settled, Unmoved, Undisturbed, Moves

LEMMA JudgedStays ==
    ASSUME TypeOK, NEW o \in Proc, Unmoved(o), Undisturbed(o), Moves, Settled(o), Judged(o)
    PROVE  Judged(o)'
<1>1. rep[o] \in Report
    BY DEF TypeOK
<1>2. rep[o].base \in Branch
    BY <1>1 DEF Settled, Report
<1> QED
    BY <1>2 DEF Settled, Judged, Unmoved, Undisturbed, Moves

LEMMA PassedStays ==
    ASSUME NEW o, req'[o] = req[o], site' = site, NEW c, Passed(o, c)
    PROVE  /\ PolicyAt(c).envMode = "block" =>
                /\ PolicyAt(c).files \subseteq FilesPresent'
                /\ PolicyAt(c).keys \subseteq KeysPresent(o)'
           /\ PolicyAt(c).toolMode = "block" => \A t \in PolicyAt(c).tools : HostDetect(t)' = "present"
BY DEF Passed, FilesPresent, KeysPresent, HostDetect

LEMMA GateStays ==
    ASSUME TypeOK, NEW o \in Proc, Unmoved(o), Undisturbed(o), Moves, site' = site, InGate(o)
    PROVE  InGate(o)'
<1>1. rep[o] \in Report
    BY DEF TypeOK
<1>2. rep[o].base # Malformed => rep[o].base \in Branch
    BY <1>1 DEF Report
<1>3. IsProject(req[o])' = IsProject(req[o])
    BY DEF Unmoved, IsProject
<1>4. pc'[o] \in {"remote_default", "probe_default", "list"} => ~IsProject(req[o])'
    BY <1>3 DEF InGate, Unmoved
<1>5. pc'[o] = "probe_default" => rep'[o].base # Malformed
    BY DEF InGate, Unmoved
<1>6. pc'[o] = "probe" => /\ ~IsProject(req[o])' /\ Settled(o)'
                          /\ rep'[o].fetchedCommit \in tips'[rep'[o].base]
    <2>1. SUFFICES ASSUME pc[o] = "probe"
                   PROVE  /\ ~IsProject(req[o])' /\ Settled(o)'
                          /\ rep'[o].fetchedCommit \in tips'[rep'[o].base]
        BY DEF Unmoved
    <2>2. Settled(o) /\ ~IsProject(req[o]) /\ rep[o].fetchedCommit \in tips[rep[o].base]
        BY <2>1 DEF InGate
    <2>3. rep[o].base \in Branch
        BY <1>2, <2>2 DEF Settled
    <2> QED
        BY <1>3, <2>2, <2>3, SettledStays DEF Unmoved, Moves
<1>7. pc'[o] = "resolve" => /\ rep'[o].base # Malformed
                            /\ quiet'[o] => fetchHead' \in tips'[rep'[o].base]
    BY <1>2 DEF InGate, Unmoved, Undisturbed, Reading, Moves
<1>8. pc'[o] = "show" => /\ ~IsProject(req[o])' /\ Settled(o)'
                         /\ quiet'[o] => fetchHead' = rep'[o].fetchedCommit
    BY <1>3, SettledStays DEF InGate, Unmoved, Undisturbed, Reading
<1>9. pc'[o] = "judge" /\ ~IsProject(req[o])' =>
         Settled(o)' /\ Judged(o)' /\ pol'[o] = PolicyAt(judgedOn'[o])
    BY <1>3, SettledStays, JudgedStays DEF InGate, Unmoved
<1>10. pc'[o] = "clone" =>
          req'[o].kind = "prepare" /\ Settled(o)' /\ Judged(o)' /\ Passed(o, judgedOn[o])'
    <2>1. SUFFICES ASSUME pc[o] = "clone"
                   PROVE  req'[o].kind = "prepare" /\ Settled(o)' /\ Judged(o)'
                          /\ Passed(o, judgedOn[o])'
        BY DEF Unmoved
    <2>2. req[o].kind = "prepare" /\ Settled(o) /\ Judged(o) /\ Passed(o, judgedOn[o])
        BY <2>1 DEF InGate
    <2>3. Passed(o, judgedOn[o])'
        BY <2>2, PassedStays DEF Passed, Unmoved
    <2> QED
        BY <2>2, <2>3, SettledStays, JudgedStays DEF Unmoved
<1> QED
    BY <1>4, <1>5, <1>6, <1>7, <1>8, <1>9, <1>10 DEF InGate

LEMMA MakingStays ==
    ASSUME TypeOK, NEW o \in Proc, Unmoved(o), Undisturbed(o), Moves, site' = site, InMaking(o)
    PROVE  InMaking(o)'
<1>1. rep[o] \in Report
    BY DEF TypeOK
<1>2. ASSUME pc[o] \in {"bind", "write", "record"}
      PROVE  req'[o].kind = "prepare" /\ Settled(o)' /\ Copied(o)'
    <2>1. req[o].kind = "prepare" /\ Settled(o) /\ Copied(o)
        BY <1>2 DEF InMaking
    <2>2. rep[o].base \in Branch
        BY <1>1, <2>1 DEF Settled, Report
    <2>3. /\ clone'[o] \in Commit
          /\ clone'[o] \in tips'[rep'[o].base]
          /\ pol'[o] = PolicyAt(clone'[o])
          /\ quiet'[o] /\ clone'[o] = Hosted[rep'[o].base] => rep'[o].fetchedCommit = clone'[o]
        BY <2>1, <2>2 DEF Copied, Unmoved, Undisturbed, Moves
    <2>4. quiet'[o] /\ clone'[o] = rep'[o].fetchedCommit => Passed(o, clone[o])'
        <3>1. SUFFICES ASSUME Passed(o, clone[o])
                       PROVE  Passed(o, clone[o])'
            BY <2>1 DEF Copied, Unmoved, Undisturbed
        <3> QED
            BY <3>1, PassedStays DEF Passed, Unmoved
    <2> QED
        BY <2>1, <2>3, <2>4, SettledStays DEF Copied, Unmoved
<1>3. Recorded(o)' = Recorded(o)
    BY DEF Recorded, Unmoved
<1>4. /\ pc'[o] \in {"bind", "write"} => bundle'[o] = {} /\ req'[o].provider # "none"
      /\ pc'[o] = "write" => pol'[o].keys \subseteq admitted'[o]
      /\ pc'[o] = "record" => /\ bundle'[o] \in {{}, pol'[o].keys}
                              /\ bundle'[o] \subseteq admitted'[o]
                              /\ req'[o].provider # "none" => bundle'[o] = pol'[o].keys
      /\ pc'[o] \notin {"bind", "write", "record"} /\ ~Recorded(o)' =>
            bundle'[o] = {} /\ clone'[o] = None
    BY <1>3 DEF InMaking, Unmoved
<1> QED
    BY <1>2, <1>4 DEF InMaking, Unmoved

LEMMA ClosedStays ==
    ASSUME TypeOK, NEW o \in Proc, Unmoved(o), Undisturbed(o), Moves, site' = site, Closed(o)
    PROVE  Closed(o)'
<1>1. SUFFICES ASSUME Recorded(o)
               PROVE  pc'[o] = "done" /\ Kept(o)'
    BY DEF Closed, Recorded, Unmoved
<1>2. pc[o] = "done" /\ Kept(o)
    BY <1>1 DEF Closed
<1>3. quiet'[o] /\ contract'[o].matches => Met(o, contract[o].head)'
    <2>1. SUFFICES ASSUME Met(o, contract[o].head)
                   PROVE  Met(o, contract[o].head)'
        BY <1>2 DEF Kept, Unmoved, Undisturbed
    <2> QED
        BY <2>1 DEF Met, Unmoved, FilesPresent, HostDetect
<1>4. contract[o].base \in Branch
    BY <1>2 DEF Kept
<1> QED
    BY <1>2, <1>3, <1>4 DEF Kept, Unmoved, Undisturbed, Moves

\* Nobody's part is disturbed by what the others do.
LEMMA Stays ==
    ASSUME TypeOK, NEW o \in Proc, Unmoved(o), Undisturbed(o), Moves, site' = site, Local(o)
    PROVE  Local(o)'
BY GateStays, MakingStays, ClosedStays DEF Local

-----------------------------------------------------------------------------
(***************************************************************************)
(* The process that moves, action by action.                               *)
(***************************************************************************)

Calm == {"idle", "look", "default", "fetch", "done", "failed", "gone"}

\* Before the clone nothing is made.
LEMMA NothingMade ==
    ASSUME TypeOK, NEW p \in Proc, Local(p),
           pc[p] \notin {"bind", "write", "record", "done"},
           pc'[p] \notin {"bind", "write", "record"}, UNCHANGED prepared
    PROVE  InMaking(p)' /\ Closed(p)'
<1>1. ~Recorded(p) /\ ~Recorded(p)'
    BY DEF Local, Closed, Recorded, prepared
<1>2. bundle[p] = {} /\ clone[p] = None
    BY <1>1 DEF Local, InMaking
<1> QED
    BY <1>1, <1>2 DEF InMaking, Closed, prepared

LEMMA CalmGate ==
    ASSUME NEW p, pc'[p] \in Calm
    PROVE  InGate(p)'
BY DEF Calm, InGate

LEMMA CalmStep ==
    ASSUME TypeOK, NEW p \in Proc, Local(p), UNCHANGED prepared, pc'[p] \in Calm,
           pc[p] \notin {"bind", "write", "record", "done"}
    PROVE  Local(p)'
BY NothingMade, CalmGate DEF Calm, Local

LEMMA BeginSafe ==
    ASSUME IInv, NEW p \in Proc, NEW q \in Request, Begin(p, q)
    PROVE  Local(p)'
<1>1. pc'[p] = "look"
    BY DEF IInv, TypeOK, Begin, Goto
<1> QED
    BY <1>1, CalmStep DEF IInv, Begin, Calm

LEMMA LookSafe ==
    ASSUME IInv, NEW p \in Proc, Look(p)
    PROVE  Local(p)'
<1> DEFINE q == req[p]
           r == IF IsProject(q) THEN LookProject(q) ELSE LookHandoff(q)
           policy == IF IsProject(q) THEN SourcePolicy ELSE HandoffPolicy(q)
           next == IF q.kind # "tree" /\ Asks(q, policy) THEN "default"
                   ELSE IF IsProject(q) THEN "judge" ELSE "fetch"
<1>1. IF Blocked(r) THEN Reach(p, r, "done") ELSE Reach(p, r, next)
    <2> HIDE DEF r, policy, next
    <2> QED
        BY DEF Look, r, policy, next
<1> HIDE DEF r, policy
<1>2. pc'[p] \in Calm \/ (pc'[p] = "judge" /\ IsProject(req[p]))
    BY <1>1 DEF IInv, TypeOK, Reach, Goto, Calm
<1>3. CASE pc'[p] \in Calm
    BY <1>3, CalmStep DEF IInv, Look
<1>4. CASE pc'[p] = "judge" /\ IsProject(req[p])
    <2>1. InGate(p)'
        BY <1>4 DEF InGate, Look, IsProject
    <2> QED
        BY <1>4, <2>1, NothingMade DEF IInv, Look, Local
<1> QED
    BY <1>2, <1>3, <1>4

LEMMA LookMissingSafe ==
    ASSUME IInv, NEW p \in Proc, LookMissing(p)
    PROVE  Local(p)'
<1>1. pc'[p] \in {"done", "remote_default", "list"}
    BY DEF IInv, TypeOK, LookMissing, Reach, Goto
<1>2. InGate(p)'
    BY <1>1 DEF InGate, LookMissing, IsProject
<1> QED
    BY <1>1, <1>2, NothingMade DEF IInv, LookMissing, Local

LEMMA AskDefaultSafe ==
    ASSUME IInv, NEW p \in Proc, AskDefault(p)
    PROVE  Local(p)'
<1>1. pc'[p] = "done" \/ pc'[p] = AfterDefault(p)
    BY DEF IInv, TypeOK, AskDefault, Unreachable, Reach, Goto
<1>2. pc'[p] \in Calm \/ (pc'[p] = "judge" /\ IsProject(req[p]))
    BY <1>1 DEF AfterDefault, Calm
<1>3. InGate(p)'
    BY <1>2, CalmGate DEF InGate, AskDefault, IsProject, Calm
<1> QED
    BY <1>2, <1>3, NothingMade DEF IInv, AskDefault, Local, Calm

LEMMA AskRemoteDefaultSafe ==
    ASSUME IInv, NEW p \in Proc, AskRemoteDefault(p)
    PROVE  Local(p)'
<1>1. rep[p] \in Report /\ site.head \in Branch \cup {None}
    BY DEF IInv, TypeOK, Site
<1>2. /\ pc'[p] \in {"done", "list", "probe_default"}
      /\ pc'[p] = "probe_default" => rep'[p].base # Malformed
    BY <1>1, NamesAssumption
    DEF IInv, TypeOK, AskRemoteDefault, Unreachable, Reach, Goto, Report
<1>3. ~IsProject(req[p])
    BY DEF IInv, Local, InGate, AskRemoteDefault
<1>4. InGate(p)'
    BY <1>2, <1>3 DEF InGate, AskRemoteDefault, IsProject
<1> QED
    BY <1>2, <1>4, NothingMade DEF IInv, AskRemoteDefault, Local

LEMMA ProbeDefaultSafe ==
    ASSUME IInv, NEW p \in Proc, ProbeDefault(p)
    PROVE  Local(p)'
<1>1. pc'[p] \in {"failed", "list"}
    BY DEF IInv, TypeOK, ProbeDefault, Fail, Reach, Goto
<1>2. ~IsProject(req[p])
    BY DEF IInv, Local, InGate, ProbeDefault
<1>3. InGate(p)'
    BY <1>1, <1>2 DEF InGate, ProbeDefault, IsProject
<1> QED
    BY <1>1, <1>3, NothingMade DEF IInv, ProbeDefault, Local

LEMMA EndsAtDone ==
    ASSUME TypeOK, NEW p \in Proc, Unreachable(p) \/ MissingBase(p) \/ InvalidBase(p)
    PROVE  pc'[p] = "done"
BY GateEnds DEF TypeOK

LEMMA ListSafe ==
    ASSUME IInv, NEW p \in Proc, List(p)
    PROVE  Local(p)'
<1>1. CASE Unreachable(p) \/ MissingBase(p) \/ InvalidBase(p)
    BY <1>1, EndsAtDone, CalmStep DEF IInv, List, Calm
<1>2. CASE ~(Unreachable(p) \/ MissingBase(p) \/ InvalidBase(p))
    <2>1. /\ rep[p].base # Malformed /\ tip[rep[p].base] # None
          /\ Reach(p, [rep[p] EXCEPT !.fetchedBase = rep[p].base,
                                     !.fetchedCommit = tip[rep[p].base]], "probe")
        BY <1>2 DEF List
    <2>2. rep[p] \in Report
        BY DEF IInv, TypeOK
    <2>3. rep[p].base \in Branch
        BY <2>1, <2>2 DEF Report
    <2>4. tip[rep[p].base] \in tips[rep[p].base] /\ tip[rep[p].base] \in Commit
        BY <2>1, <2>3 DEF IInv, TypeOK, Forward
    <2>5. /\ pc'[p] = "probe" /\ rep'[p].base = rep[p].base
          /\ rep'[p].fetchedBase = rep[p].base
          /\ rep'[p].fetchedCommit = tip[rep[p].base]
        BY <2>1, <2>2 DEF IInv, TypeOK, Reach, Goto, Report
    <2>6. UNCHANGED tips
        BY DEF List, remote
    <2>7. ~IsProject(req[p])'
        BY DEF IInv, Local, InGate, List, IsProject
    <2>8. Settled(p)'
        BY <2>1, <2>4, <2>5, <2>6 DEF Settled
    <2>9. InGate(p)'
        BY <2>4, <2>5, <2>6, <2>7, <2>8 DEF InGate
    <2> QED
        BY <2>5, <2>9, NothingMade DEF IInv, List, Local
<1> QED
    BY <1>1, <1>2

LEMMA ProbeSafe ==
    ASSUME IInv, NEW p \in Proc, Probe(p)
    PROVE  Local(p)'
<1> DEFINE c == tip[rep[p].base]
<1>1. Settled(p) /\ ~IsProject(req[p]) /\ rep[p].fetchedCommit \in tips[rep[p].base]
    BY DEF IInv, Local, InGate, Probe
<1>2. rep[p] \in Report
    BY DEF IInv, TypeOK
<1>3. c \in Commit \cup {None}
    BY <1>1, <1>2 DEF IInv, TypeOK, Settled, Report
<1>4. CASE Reach(p, Block(rep[p], "blocked", {"invalid-policy"}), "done")
    <2>1. pc'[p] = "done"
        BY <1>4 DEF IInv, TypeOK, Reach, Goto
    <2> QED
        BY <2>1, CalmStep DEF IInv, Probe, Calm
<1>5. CASE /\ Readable(c)
           /\ Reach(p, rep[p], "judge")
           /\ pol' = [pol EXCEPT ![p] = PolicyAt(c)]
           /\ judgedOn' = [judgedOn EXCEPT ![p] = c]
    <2>1. c \in Commit
        BY <1>3, <1>5, ReadableType
    <2>2. pc'[p] = "judge" /\ rep'[p] = rep[p] /\ pol'[p] = PolicyAt(c) /\ judgedOn'[p] = c
        BY <1>5 DEF IInv, TypeOK, Reach, Goto
    <2>3. UNCHANGED <<tip, tips, quiet>>
        BY DEF Probe, remote
    <2>4. Settled(p)'
        BY <1>1, <2>2, <2>3 DEF Settled
    <2>5. Judged(p)'
        BY <2>1, <2>2, <2>3 DEF Judged
    <2>6. InGate(p)'
        BY <2>2, <2>4, <2>5 DEF InGate
    <2> QED
        BY <2>2, <2>6, NothingMade DEF IInv, Probe, Local
<1> QED
    BY <1>4, <1>5 DEF Probe

LEMMA FetchSafe ==
    ASSUME IInv, NEW p \in Proc, Fetch(p)
    PROVE  Local(p)'
<1>1. CASE Unreachable(p) \/ MissingBase(p) \/ InvalidBase(p)
    BY <1>1, EndsAtDone, CalmStep DEF IInv, Fetch, Calm
<1>2. CASE ~(Unreachable(p) \/ MissingBase(p) \/ InvalidBase(p))
    <2>1. /\ rep[p].base # Malformed /\ tip[rep[p].base] # None
          /\ Reach(p, rep[p], "resolve") /\ Fetched(p, tip[rep[p].base])
        BY <1>2 DEF Fetch
    <2>2. rep[p] \in Report
        BY DEF IInv, TypeOK
    <2>3. rep[p].base \in Branch
        BY <2>1, <2>2 DEF Report
    <2>4. tip[rep[p].base] \in tips[rep[p].base]
        BY <2>1, <2>3 DEF IInv, Forward
    <2>5. /\ pc'[p] = "resolve" /\ rep'[p] = rep[p]
          /\ fetchHead' = tip[rep[p].base]
        BY <2>1 DEF IInv, TypeOK, Reach, Goto, Fetched
    <2>6. UNCHANGED tips
        BY DEF Fetch, remote
    <2>7. InGate(p)'
        BY <2>1, <2>4, <2>5, <2>6 DEF InGate
    <2> QED
        BY <2>5, <2>7, NothingMade DEF IInv, Fetch, Local
<1> QED
    BY <1>1, <1>2

LEMMA ResolveSafe ==
    ASSUME IInv, NEW p \in Proc, Resolve(p)
    PROVE  Local(p)'
<1>1. CASE MissingBase(p)
    BY <1>1, EndsAtDone, CalmStep DEF IInv, Resolve, Calm
<1>2. CASE ~MissingBase(p)
    <2> DEFINE r == [rep[p] EXCEPT !.fetchedBase = rep[p].base, !.fetchedCommit = fetchHead]
               label == IF IsProject(req[p]) THEN "done" ELSE "show"
    <2>1. fetchHead # None /\ Reach(p, Freshness(r), label)
        BY <1>2 DEF Resolve
    <2>2. rep[p] \in Report /\ fetchHead \in Commit
        BY <2>1 DEF IInv, TypeOK
    <2>3. r \in Report /\ r.base = rep[p].base /\ r.fetchedBase = rep[p].base
          /\ r.fetchedCommit = fetchHead
        BY <2>2 DEF Report
    <2> HIDE DEF r
    <2>4. /\ pc'[p] = label /\ rep'[p].base = rep[p].base
          /\ rep'[p].fetchedBase = rep[p].base /\ rep'[p].fetchedCommit = fetchHead
        BY <2>1, <2>3, FreshnessType DEF IInv, TypeOK, Reach, Goto
    <2>5. UNCHANGED <<tips, quiet, fetchHead, req>>
        BY DEF Resolve, remote
    <2>6. rep[p].base # Malformed /\ (quiet[p] => fetchHead \in tips[rep[p].base])
        BY DEF IInv, Local, InGate, Resolve
    <2>7. Settled(p)'
        BY <2>2, <2>4, <2>5, <2>6 DEF Settled
    <2>8. InGate(p)'
        BY <2>4, <2>5, <2>7 DEF InGate, IsProject
    <2> QED
        BY <2>4, <2>8, NothingMade DEF IInv, Resolve, Local
<1> QED
    BY <1>1, <1>2

LEMMA ShowPolicySafe ==
    ASSUME IInv, NEW p \in Proc, ShowPolicy(p)
    PROVE  Local(p)'
<1>1. ~IsProject(req[p]) /\ Settled(p) /\ (quiet[p] => fetchHead = rep[p].fetchedCommit)
    BY DEF IInv, Local, InGate, ShowPolicy
<1>2. fetchHead \in Commit \cup {None}
    BY DEF IInv, TypeOK
<1>3. CASE ~Readable(fetchHead)
    <2>1. pc'[p] = "done"
        BY <1>3 DEF IInv, TypeOK, ShowPolicy, Reach, Goto
    <2> QED
        BY <2>1, CalmStep DEF IInv, ShowPolicy, Calm
<1>4. CASE Readable(fetchHead)
    <2>1. fetchHead \in Commit
        BY <1>2, <1>4, ReadableType
    <2>2. /\ pc'[p] = "judge" /\ rep'[p] = rep[p]
          /\ pol'[p] = PolicyAt(fetchHead) /\ judgedOn'[p] = fetchHead
        BY <1>4 DEF IInv, TypeOK, ShowPolicy, Reach, Goto
    <2>3. UNCHANGED <<tip, tips, quiet>>
        BY DEF ShowPolicy, remote
    <2>4. Settled(p)'
        BY <1>1, <2>2, <2>3 DEF Settled
    <2>5. Judged(p)'
        BY <1>1, <2>1, <2>2, <2>3 DEF Judged
    <2>6. InGate(p)'
        BY <2>2, <2>4, <2>5 DEF InGate
    <2> QED
        BY <2>2, <2>6, NothingMade DEF IInv, ShowPolicy, Local
<1> QED
    BY <1>3, <1>4

\* What the checks of the requirements leave of a report.
LEMMA EnforceKeeps ==
    ASSUME NEW r \in Report, NEW mode, NEW codes
    PROVE  /\ Enforce(r, mode, codes).base = r.base
           /\ Enforce(r, mode, codes).fetchedBase = r.fetchedBase
           /\ Enforce(r, mode, codes).fetchedCommit = r.fetchedCommit
           /\ ~Blocked(Enforce(r, mode, codes)) /\ mode = "block" => codes = {}
BY DEF Enforce, Block, Warn, Blocked, Report

LEMMA RequirementsKeep ==
    ASSUME NEW p, NEW r \in Report, NEW policy
    PROVE  /\ Requirements(p, r, policy).base = r.base
           /\ Requirements(p, r, policy).fetchedBase = r.fetchedBase
           /\ Requirements(p, r, policy).fetchedCommit = r.fetchedCommit
<1> DEFINE env == checkEnvReadiness(p, r, policy)
<1>1. env \in Report
    BY EnvType
<1>2. env.base = r.base /\ env.fetchedBase = r.fetchedBase /\ env.fetchedCommit = r.fetchedCommit
    BY EnforceKeeps DEF checkEnvReadiness
<1> HIDE DEF env
<1>3. LET tool == checkToolchainReadiness(req[p], env, policy)
      IN  tool.base = r.base /\ tool.fetchedBase = r.fetchedBase
          /\ tool.fetchedCommit = r.fetchedCommit
    BY <1>1, <1>2, EnforceKeeps DEF checkToolchainReadiness
<1> QED
    BY <1>2, <1>3 DEF Requirements, env

\* A report that the requirements do not block has met those in block mode.
LEMMA RequirementsPass ==
    ASSUME NEW p, NEW r \in Report, NEW policy, ~Blocked(Requirements(p, r, policy)),
           ~IsProject(req[p])
    PROVE  /\ policy.envMode = "block" => /\ policy.files \subseteq FilesPresent
                                          /\ policy.keys \subseteq KeysPresent(p)
           /\ policy.toolMode = "block" => \A t \in policy.tools : HostDetect(t) = "present"
<1> DEFINE env == checkEnvReadiness(p, r, policy)
           envCodes == {c \in {"missing-env-file"} : ~ policy.files \subseteq FilesPresent} \cup
                       {c \in {"missing-env-key"} : ~ policy.keys \subseteq KeysPresent(p)}
<1>1. env \in Report
    BY EnvType
<1>2. ~Blocked(env) /\ Requirements(p, r, policy) = checkToolchainReadiness(req[p], env, policy)
    <2> HIDE DEF env
    <2>1. Requirements(p, r, policy) = IF Blocked(env) THEN env
                                       ELSE checkToolchainReadiness(req[p], env, policy)
        BY DEF Requirements, env
    <2> QED
        BY <2>1
<1>3. policy.envMode = "block" => envCodes = {}
    <2>1. env = Enforce(r, policy.envMode, envCodes)
        BY DEF checkEnvReadiness
    <2> HIDE DEF env, envCodes
    <2> QED
        BY <1>2, <2>1, EnforceKeeps
<1>4. envCodes = {} => policy.files \subseteq FilesPresent /\ policy.keys \subseteq KeysPresent(p)
    <2>1. ~ policy.files \subseteq FilesPresent => "missing-env-file" \in envCodes
        OBVIOUS
    <2>2. ~ policy.keys \subseteq KeysPresent(p) => "missing-env-key" \in envCodes
        OBVIOUS
    <2> HIDE DEF envCodes
    <2> QED
        BY <2>1, <2>2
<1>5. policy.toolMode = "block" => Check(req[p], policy) \ {"present"} = {}
    <2>1. checkToolchainReadiness(req[p], env, policy)
            = Enforce(env, policy.toolMode, Check(req[p], policy) \ {"present"})
        BY DEF checkToolchainReadiness
    <2> HIDE DEF env
    <2> QED
        BY <1>1, <1>2, <2>1, EnforceKeeps
<1> HIDE DEF env, envCodes
<1>6. ASSUME Check(req[p], policy) \ {"present"} = {}, NEW t \in policy.tools
      PROVE  HostDetect(t) = "present"
    BY <1>6 DEF Check, Detect
<1> QED
    BY <1>3, <1>4, <1>5, <1>6

LEMMA JudgeSafe ==
    ASSUME IInv, NEW p \in Proc, Judge(p)
    PROVE  Local(p)'
<1> DEFINE r == Requirements(p, rep[p], pol[p])
<1>1. rep[p] \in Report /\ pol[p] \in Policy
    BY DEF IInv, TypeOK
<1>2. UNCHANGED <<site, tip, tips, quiet, req, judgedOn>>
    BY DEF Judge, remote
<1>3. CASE ~(req[p].kind = "prepare" /\ ~Blocked(r) /\ ~Refused(p))
    <2>1. pc'[p] \in {"done", "fetch"}
        BY <1>3 DEF IInv, TypeOK, Judge, Reach, Goto
    <2> QED
        BY <2>1, CalmStep DEF IInv, Judge, Calm
<1>4. CASE req[p].kind = "prepare" /\ ~Blocked(r) /\ ~Refused(p)
    <2>1. Settled(p) /\ Judged(p) /\ pol[p] = PolicyAt(judgedOn[p])
        BY <1>4 DEF IInv, Local, InGate, Judge, IsProject
    <2>2. Passed(p, judgedOn[p])
        BY <1>1, <1>4, <2>1, RequirementsPass DEF Passed, IsProject
    <2>3. r.base = rep[p].base /\ r.fetchedBase = rep[p].fetchedBase
          /\ r.fetchedCommit = rep[p].fetchedCommit
        BY <1>1, RequirementsKeep
    <2>4. Reach(p, r, "clone")
        BY <1>4 DEF Judge
    <2> HIDE DEF r
    <2>5. pc'[p] = "clone" /\ rep'[p] = r
        BY <2>4 DEF IInv, TypeOK, Reach, Goto
    <2>6. Settled(p)' /\ Judged(p)'
        BY <1>2, <2>1, <2>3, <2>5 DEF Settled, Judged
    <2>7. Passed(p, judgedOn[p])'
        BY <1>2, <2>2, PassedStays DEF Passed
    <2>8. InGate(p)'
        BY <1>2, <1>4, <2>5, <2>6, <2>7 DEF InGate
    <2> QED
        BY <2>5, <2>8, NothingMade DEF IInv, Judge, Local
<1> QED
    BY <1>3, <1>4

\* A prepare that ends without a row leaves neither workspace nor bundle.
LEMMA EndsSafe ==
    ASSUME IInv, NEW p \in Proc, pc[p] # "done", NEW codes, Break(p) \/ Deny(p, codes)
    PROVE  Local(p)'
<1>1. pc'[p] \in {"done", "failed"}
    BY DEF IInv, TypeOK, Break, Fail, Deny, Reach, Goto
<1>2. clone'[p] = None /\ bundle'[p] = {} /\ contract'[p] = contract[p]
    BY DEF IInv, TypeOK, Break, Deny, Discard
<1>3. ~Recorded(p)'
    BY <1>2 DEF IInv, Local, Closed, Recorded
<1>4. InGate(p)'
    BY <1>1, CalmGate DEF Calm
<1> QED
    BY <1>1, <1>2, <1>3, <1>4 DEF Local, InMaking, Closed

LEMMA CloneSafe ==
    ASSUME IInv, NEW p \in Proc, Clone(p)
    PROVE  Local(p)'
<1> DEFINE c == tip[rep[p].base]
<1>1. CASE Break(p) \/ Deny(p, {"invalid-policy"})
    BY <1>1, EndsSafe DEF Clone
<1>2. CASE ~(Break(p) \/ Deny(p, {"invalid-policy"}))
    <2>1. /\ Readable(c)
          /\ Goto(p, IF req[p].provider = "none" \/ PolicyAt(c).keys = {}
                     THEN "record" ELSE "bind")
          /\ pol' = [pol EXCEPT ![p] = PolicyAt(c)]
          /\ clone' = [clone EXCEPT ![p] = c]
          /\ UNCHANGED <<rep, bundle, contract, admitted>>
        BY <1>2 DEF Clone, ClonedCommit
    <2>2. UNCHANGED <<site, tip, tips, quiet, req, judgedOn>>
        BY DEF Clone, remote
    <2>3. req[p].kind = "prepare" /\ Settled(p) /\ Judged(p) /\ Passed(p, judgedOn[p])
        BY DEF IInv, Local, InGate, Clone
    <2>4. rep[p] \in Report
        BY DEF IInv, TypeOK
    <2>5. rep[p].base \in Branch
        BY <2>3, <2>4 DEF Settled, Report
    <2>6. PICK d \in Commit : d = c
        <3>1. c \in Commit \cup {None}
            BY <2>5 DEF IInv, TypeOK
        <3> QED
            BY <2>1, <3>1, ReadableType
    <2>7. d \in tips[rep[p].base]
        BY <2>5, <2>6, NamesAssumption DEF IInv, Forward
    <2>8. quiet[p] /\ d = rep[p].fetchedCommit => judgedOn[p] = d
        BY <2>3, <2>6 DEF Judged
    <2>9. quiet[p] /\ d = Hosted[rep[p].base] => rep[p].fetchedCommit = d
        <3>1. ASSUME d = Hosted[rep[p].base]
              PROVE  tips[rep[p].base] = {d}
            BY <3>1, <2>5, <2>6, NamesAssumption DEF IInv, Forward
        <3> QED
            BY <3>1, <2>3 DEF Settled
    <2>10. Settled(p)'
        BY <2>1, <2>2, <2>3 DEF Settled
    <2>11. pol'[p] = PolicyAt(d) /\ clone'[p] = d
           /\ pc'[p] = IF req[p].provider = "none" \/ PolicyAt(d).keys = {}
                       THEN "record" ELSE "bind"
        BY <2>1, <2>6 DEF IInv, TypeOK, Goto
    <2>12. quiet[p] /\ d = rep[p].fetchedCommit => Passed(p, d)'
        <3>1. quiet[p] /\ d = rep[p].fetchedCommit => Passed(p, d)
            BY <2>3, <2>8
        <3> QED
            BY <3>1, <2>2, PassedStays DEF Passed
    <2>13. Copied(p)'
        BY <2>1, <2>2, <2>6, <2>7, <2>9, <2>11, <2>12 DEF Copied, Passed
    <2>14. bundle[p] = {} /\ ~Recorded(p)
        BY DEF IInv, Local, Closed, InMaking, Clone
    <2>15. bundle'[p] = {} /\ ~Recorded(p)'
        BY <2>1, <2>14 DEF Recorded
    <2>16. InMaking(p)'
        BY <2>2, <2>3, <2>10, <2>11, <2>13, <2>15 DEF InMaking
    <2>17. InGate(p)'
        BY <2>11 DEF InGate
    <2> QED
        BY <2>15, <2>16, <2>17 DEF Local, Closed
<1> QED
    BY <1>1, <1>2

\* Between the clone and the row the workspace stays as it was copied.
LEMMA CopyKept ==
    ASSUME IInv, NEW p \in Proc, pc[p] \in {"bind", "write", "record"},
           UNCHANGED <<site, remote, req, rep, pol, clone, quiet>>
    PROVE  req'[p].kind = "prepare" /\ Settled(p)' /\ Copied(p)' /\ ~Recorded(p)
<1>1. req[p].kind = "prepare" /\ Settled(p) /\ Copied(p) /\ ~Recorded(p)
    BY DEF IInv, Local, InMaking, Closed
<1>2. Copied(p)'
    BY <1>1 DEF Copied, Passed, KeysPresent, FilesPresent, HostDetect, remote
<1> QED
    BY <1>1, <1>2 DEF Settled, remote

LEMMA BindSafe ==
    ASSUME IInv, NEW p \in Proc, Bind(p)
    PROVE  Local(p)'
<1>1. CASE \E codes : Deny(p, codes)
    BY <1>1, EndsSafe DEF Bind
<1>2. CASE ~\E codes : Deny(p, codes)
    <2>1. /\ pol[p].keys = selectBindings(p)
          /\ Goto(p, "write")
          /\ admitted' = [admitted EXCEPT ![p] =
                            {k \in Key : scopesIntersect(req[p].scopes, bindings[k])}]
          /\ UNCHANGED <<rep, clone, bundle, contract>>
        BY <1>2 DEF Bind
    <2>2. pol[p].keys \subseteq Key
        BY DEF IInv, TypeOK, Policy
    <2>3. pol[p].keys \subseteq admitted'[p]
        BY <2>1, <2>2 DEF IInv, TypeOK, selectBindings
    <2>4. pc'[p] = "write" /\ UNCHANGED <<site, remote, req, rep, pol, clone, quiet>>
        BY <2>1 DEF Bind, IInv, TypeOK, Goto
    <2>5. req'[p].kind = "prepare" /\ Settled(p)' /\ Copied(p)' /\ ~Recorded(p)
        BY <2>4, CopyKept DEF Bind
    <2>6. bundle'[p] = {} /\ req'[p].provider # "none"
        BY <2>1, <2>4 DEF IInv, Local, InMaking, Bind
    <2>7. InMaking(p)'
        BY <2>3, <2>4, <2>5, <2>6 DEF InMaking
    <2>8. InGate(p)' /\ Closed(p)'
        BY <2>1, <2>4, <2>5 DEF InGate, Closed, Recorded
    <2> QED
        BY <2>7, <2>8 DEF Local
<1> QED
    BY <1>1, <1>2

LEMMA WriteSafe ==
    ASSUME IInv, NEW p \in Proc, Write(p)
    PROVE  Local(p)'
<1>1. CASE Break(p)
    BY <1>1, EndsSafe DEF Write
<1>2. CASE ~Break(p)
    <2>1. /\ Goto(p, "record") /\ bundle' = [bundle EXCEPT ![p] = pol[p].keys]
          /\ UNCHANGED <<rep, clone, contract, admitted>>
        BY <1>2 DEF Write
    <2>2. /\ pc'[p] = "record" /\ bundle'[p] = pol[p].keys
          /\ UNCHANGED <<site, remote, req, rep, pol, clone, quiet>>
        BY <2>1 DEF Write, IInv, TypeOK, Goto
    <2>3. req'[p].kind = "prepare" /\ Settled(p)' /\ Copied(p)' /\ ~Recorded(p)
        BY <2>2, CopyKept DEF Write
    <2>4. pol[p].keys \subseteq admitted[p]
        BY DEF IInv, Local, InMaking, Write
    <2>5. InMaking(p)'
        BY <2>1, <2>2, <2>3, <2>4 DEF InMaking
    <2>6. InGate(p)' /\ Closed(p)'
        BY <2>1, <2>2, <2>3 DEF InGate, Closed, Recorded
    <2> QED
        BY <2>5, <2>6 DEF Local
<1> QED
    BY <1>1, <1>2

\* What the gate let pass is there: keys that only the provider promised are in the bundle.
LEMMA PassedIsMet ==
    ASSUME NEW p, Passed(p, clone[p]), pol[p] = PolicyAt(clone[p]),
           req[p].provider # "none" => bundle[p] = pol[p].keys
    PROVE  Met(p, clone[p])
BY DEF Passed, Met, KeysPresent

LEMMA NotNoContract ==
    ASSUME NEW p
    PROVE  NewContract(p) # NoContract
<1>1. "head" \in DOMAIN NewContract(p)
    BY DEF NewContract
<1>2. "head" \notin DOMAIN NoContract
    BY DEF NoContract
<1> QED
    BY <1>1, <1>2

LEMMA RecordSafe ==
    ASSUME IInv, NEW p \in Proc, Record(p)
    PROVE  Local(p)'
<1>1. CASE Break(p)
    BY <1>1, EndsSafe DEF Record
<1>2. CASE ~Break(p)
    <2>1. /\ Goto(p, "done") /\ contract' = [contract EXCEPT ![p] = NewContract(p)]
          /\ UNCHANGED <<rep, clone, bundle, admitted>>
        BY <1>2 DEF Record
    <2>2. UNCHANGED <<site, tip, tips, req, pol, quiet>>
        BY DEF Record, remote
    <2>3. Settled(p) /\ Copied(p)
        BY DEF IInv, Local, InMaking, Record
    <2>4. /\ bundle[p] \in {{}, pol[p].keys} /\ bundle[p] \subseteq admitted[p]
          /\ req[p].provider # "none" => bundle[p] = pol[p].keys
        BY DEF IInv, Local, InMaking, Record
    <2>5. pc'[p] = "done" /\ contract'[p] = NewContract(p)
        BY <2>1 DEF IInv, TypeOK, Goto
    <2>6. rep[p] \in Report
        BY DEF IInv, TypeOK
    <2>7. rep[p].base \in Branch
        BY <2>3, <2>6 DEF Settled, Report
    <2>8. Provenance(p) = [base |-> rep[p].fetchedBase, commit |-> rep[p].fetchedCommit]
        BY <2>3, NamesAssumption DEF Settled, Provenance
    <2>9. PICK k : k = NewContract(p)
        OBVIOUS
    <2>10. /\ k.base = rep[p].base /\ k.head = clone[p]
           /\ k.fetchedBase = rep[p].fetchedBase /\ k.fetchedCommit = rep[p].fetchedCommit
           /\ k.matches <=> rep[p].fetchedCommit = clone[p]
           /\ k.requires = pol[p].keys
        <3>1. rep[p].fetchedCommit # None
            BY <2>3, NamesAssumption DEF Settled
        <3>2. /\ Provenance(p).base = rep[p].fetchedBase
              /\ Provenance(p).commit = rep[p].fetchedCommit
            BY <2>8
        <3>3. k.matches = (rep[p].fetchedCommit # None /\ rep[p].fetchedCommit = clone[p])
            BY <2>9, <3>2, Zenon DEF NewContract
        <3>4. /\ k.base = rep[p].base /\ k.head = clone[p]
              /\ k.fetchedBase = rep[p].fetchedBase /\ k.fetchedCommit = rep[p].fetchedCommit
              /\ k.requires = pol[p].keys
            BY <2>9, <3>2 DEF NewContract
        <3> QED
            BY <3>1, <3>3, <3>4
    <2>11. quiet[p] /\ k.matches => Met(p, k.head)
        BY <2>3, <2>4, <2>10, PassedIsMet DEF Copied
    <2>12. quiet'[p] /\ contract'[p].matches => Met(p, k.head)'
        BY <2>1, <2>2, <2>5, <2>9, <2>11 DEF Met, FilesPresent, HostDetect
    <2>13. Kept(p)'
        <3>1. contract'[p] = k
            BY <2>5, <2>9
        <3>2. quiet'[p] /\ contract'[p].matches => Met(p, contract[p].head)'
            BY <2>12, <3>1 DEF Met
        <3> QED
            BY <2>1, <2>2, <2>3, <2>4, <2>7, <2>10, <3>1, <3>2 DEF Kept, Settled, Copied
    <2>14. Closed(p)'
        BY <2>5, <2>13 DEF Closed
    <2>15. InGate(p)'
        BY <2>5, CalmGate DEF Calm
    <2>16. InMaking(p)'
        <3>1. ~Recorded(p)' => FALSE
            BY <2>5, NotNoContract DEF Recorded
        <3> QED
            BY <2>5, <3>1 DEF InMaking
    <2> QED
        BY <2>14, <2>15, <2>16 DEF Local
<1> QED
    BY <1>1, <1>2

LEMMA ExitSafe ==
    ASSUME IInv, NEW p \in Proc, Exit(p)
    PROVE  Local(p)'
<1>1. pc'[p] = "gone" /\ clone'[p] = None /\ bundle'[p] = {} /\ ~Recorded(p)'
    BY DEF IInv, TypeOK, Exit, Goto, Recorded
<1>2. InGate(p)'
    BY <1>1, CalmGate DEF Calm
<1> QED
    BY <1>1, <1>2 DEF Local, InMaking, Closed

-----------------------------------------------------------------------------
(***************************************************************************)
(* Every step.                                                             *)
(***************************************************************************)

\* The types, with the places at which the base is known to be a branch.
LEMMA StepType ==
    ASSUME IInv, NEW p \in Proc, Step(p)
    PROVE  TypeOK'
<1>1. TypeOK /\ rep[p] \in Report /\ Local(p)
    BY DEF IInv, TypeOK
<1>2. pc[p] \in {"probe_default", "probe", "clone"} => rep[p].base \in Branch
    BY <1>1 DEF Local, InGate, Settled, Report
<1>3. CASE \E q \in IF site \in Shared THEN Together ELSE CommandLine : Begin(p, q)
    <2>1. PICK q \in Request : Begin(p, q)
        BY <1>3, TogetherAssumption DEF CommandLine
    <2> QED
        BY <1>1, <2>1, BeginType
<1>4. CASE ProbeDefault(p)
    BY <1>1, <1>2, <1>4, ProbeDefaultType DEF ProbeDefault
<1>5. CASE Probe(p)
    BY <1>1, <1>2, <1>5, ProbeType DEF Probe
<1>6. CASE Clone(p)
    BY <1>1, <1>2, <1>6, CloneType DEF Clone
<1>7. CASE Record(p)
    <2>1. clone[p] \in Commit
        BY <1>1, <1>7 DEF Record, Local, InMaking, Copied
    <2> QED
        BY <1>1, <1>7, <2>1, RecordType
<1> QED
    BY <1>1, <1>3, <1>4, <1>5, <1>6, <1>7, LookType, LookMissingType, AskDefaultType,
       AskRemoteDefaultType, ListType, FetchType, ResolveType, ShowPolicyType, JudgeType,
       BindType, WriteType, ExitType
    DEF Step

LEMMA StepSafe ==
    ASSUME IInv, NEW p \in Proc, Step(p)
    PROVE  Local(p)'
<1>1. CASE \E q \in IF site \in Shared THEN Together ELSE CommandLine : Begin(p, q)
    <2>1. PICK q \in Request : Begin(p, q)
        BY <1>1, TogetherAssumption DEF CommandLine
    <2> QED
        BY <2>1, BeginSafe
<1> QED
    BY <1>1, LookSafe, LookMissingSafe, AskDefaultSafe, AskRemoteDefaultSafe,
       ProbeDefaultSafe, ListSafe, ProbeSafe, FetchSafe, ResolveSafe, ShowPolicySafe,
       JudgeSafe, CloneSafe, BindSafe, WriteSafe, RecordSafe, ExitSafe
    DEF Step

\* A step of p leaves the remote alone, and of another process only its quiet.
LEMMA StepElsewhere ==
    ASSUME IInv, NEW p \in Proc, Step(p), NEW o \in Proc \ {p}
    PROVE  UNCHANGED <<site, tip, tips>> /\ Unmoved(o) /\ Undisturbed(o)
<1>1. TypeOK
    BY DEF IInv
<1>2. CASE Fetch(p)
    <2>1. UNCHANGED <<site, tip, tips>> /\ Unmoved(o)
        BY <1>1, <1>2
        DEF Fetch, TypeOK, Unmoved, remote, prepared, Unreachable, MissingBase, InvalidBase,
            Reach, Goto
    <2>2. UNCHANGED <<fetchHead, quiet>> \/ \E h : Fetched(p, h)
        BY <1>2 DEF Fetch
    <2>3. Undisturbed(o)
        BY <1>1, <2>2 DEF Fetched, TypeOK, Undisturbed
    <2> QED
        BY <2>1, <2>3
<1>3. CASE Exit(p)
    BY <1>1, <1>3 DEF Exit, TypeOK, Unmoved, Undisturbed, remote, Goto
<1>4. CASE \E q \in IF site \in Shared THEN Together ELSE CommandLine : Begin(p, q)
    BY <1>1, <1>4 DEF Begin, TypeOK, Unmoved, Undisturbed, remote, prepared, Goto
<1>5. CASE Look(p) \/ LookMissing(p) \/ AskDefault(p) \/ AskRemoteDefault(p)
           \/ ProbeDefault(p) \/ List(p) \/ Resolve(p) \/ Judge(p)
    <2>1. UNCHANGED <<site, tip, tips, fetchHead, quiet, req, prepared, judgedOn>>
        BY <1>5 DEF Look, LookMissing, AskDefault, AskRemoteDefault, ProbeDefault, List,
                    Resolve, Judge, remote
    <2>2. pc'[o] = pc[o] /\ rep'[o] = rep[o] /\ pol'[o] = pol[o]
        <3>1. CASE Look(p)
            <4>1. /\ \E r, label : Reach(p, r, label)
                  /\ UNCHANGED pol \/ \E policy : pol' = [pol EXCEPT ![p] = policy]
                BY <3>1 DEF Look
            <4> QED
                BY <1>1, <4>1 DEF TypeOK, Reach, Goto
        <3>2. CASE ~Look(p)
            <4>1. UNCHANGED pol
                BY <1>5, <3>2 DEF LookMissing, AskDefault, AskRemoteDefault, ProbeDefault,
                                  List, Resolve, Judge
            <4>2. (\E r, label : Reach(p, r, label)) \/ (UNCHANGED rep /\ \E label : Goto(p, label))
                BY <1>5, <3>2 DEF LookMissing, AskDefault, AskRemoteDefault, ProbeDefault,
                                  List, Resolve, Judge, Unreachable, MissingBase, InvalidBase, Fail
            <4> QED
                BY <1>1, <4>1, <4>2 DEF TypeOK, Reach, Goto
        <3> QED
            BY <3>1, <3>2
    <2> QED
        BY <2>1, <2>2 DEF Unmoved, Undisturbed, prepared
<1>6. CASE Probe(p) \/ ShowPolicy(p)
    BY <1>1, <1>6 DEF Probe, ShowPolicy, TypeOK, Unmoved, Undisturbed, remote, prepared, Reach, Goto
<1>7. CASE Clone(p)
    BY <1>1, <1>7 DEF Clone, TypeOK, Unmoved, Undisturbed, remote, Break, Deny, Discard,
                      Fail, Reach, Goto
<1>8. CASE Bind(p)
    BY <1>1, <1>8 DEF Bind, TypeOK, Unmoved, Undisturbed, remote, Deny, Discard, Reach, Goto
<1>9. CASE Write(p)
    BY <1>1, <1>9 DEF Write, TypeOK, Unmoved, Undisturbed, remote, Break, Discard, Fail, Goto
<1>10. CASE Record(p)
    BY <1>1, <1>10 DEF Record, TypeOK, Unmoved, Undisturbed, remote, Break, Discard, Fail, Goto
<1> QED
    BY <1>2, <1>3, <1>4, <1>5, <1>6, <1>7, <1>8, <1>9, <1>10 DEF Step

LEMMA StepRemote ==
    ASSUME NEW p \in Proc, Step(p)
    PROVE  UNCHANGED <<site, tip, tips>>
BY DEF Step, Begin, Look, LookMissing, AskDefault, AskRemoteDefault, ProbeDefault, List, Probe,
       Fetch, Resolve, ShowPolicy, Judge, Clone, Bind, Write, Record, Exit, remote

LEMMA PushSafe ==
    ASSUME IInv, NEW b \in Branch, NEW c \in Commit, Push(b, c)
    PROVE  IInv'
<1>1. TypeOK'
    BY PushType DEF IInv
<1>2. /\ tip' = [tip EXCEPT ![b] = c] /\ tips' = [tips EXCEPT ![b] = @ \cup {c}]
      /\ c \notin tips[b]
    BY DEF Push
<1>3. TypeOK
    BY DEF IInv
<1>4. Forward'
    <2>1. ASSUME NEW d \in Branch
          PROVE  /\ tip'[d] # None => tip'[d] \in tips'[d]
                 /\ Hosted[d] # None => Hosted[d] \in tips'[d]
                 /\ Hosted[d] # None /\ tip'[d] = Hosted[d] => tips'[d] = {Hosted[d]}
        BY <1>2, <1>3, <2>1 DEF IInv, Forward, TypeOK
    <2> QED
        BY <2>1 DEF Forward
<1>5. Moves
    BY <1>2, <1>3 DEF Moves, TypeOK
<1>6. ASSUME NEW o \in Proc
      PROVE  Local(o)'
    <2>1. Unmoved(o) /\ Undisturbed(o) /\ site' = site
        BY DEF Push, Unmoved, Undisturbed, prepared
    <2> QED
        BY <1>3, <1>5, <2>1, Stays DEF IInv
<1> QED
    BY <1>1, <1>4, <1>6 DEF IInv

LEMMA StillSafe ==
    ASSUME IInv, TypeOK', UNCHANGED <<site, tip, tips>>,
           \A o \in Proc : Local(o)' \/ (Unmoved(o) /\ Undisturbed(o))
    PROVE  IInv'
<1>1. Moves
    BY DEF Moves
<1>2. ASSUME NEW o \in Proc
      PROVE  Local(o)'
    BY <1>1, Stays DEF IInv
<1>3. Forward'
    BY DEF IInv, Forward
<1> QED
    BY <1>2, <1>3 DEF IInv

LEMMA Inductive == IInv /\ [Next]_vars => IInv'
<1> SUFFICES ASSUME IInv, [Next]_vars
             PROVE  IInv'
    OBVIOUS
<1>1. ASSUME NEW p \in Proc, Step(p)
      PROVE  IInv'
    <2>1. TypeOK' /\ Local(p)'
        BY <1>1, StepType, StepSafe
    <2>2. \A o \in Proc \ {p} : /\ UNCHANGED <<site, tip, tips>>
                                /\ Unmoved(o) /\ Undisturbed(o)
        BY <1>1, StepElsewhere
    <2>3. UNCHANGED <<site, tip, tips>>
        BY <1>1, StepRemote
    <2> QED
        BY <2>1, <2>2, <2>3, StillSafe
<1>2. ASSUME NEW b \in Branch, NEW c \in Commit, Push(b, c)
      PROVE  IInv'
    BY <1>2, PushSafe
<1>3. ASSUME NEW k \in Key, NEW scopes \in (SUBSET Scope) \ {{}}, EnvBind(k, scopes)
      PROVE  IInv'
    <2>1. TypeOK'
        BY <1>3, EnvBindType DEF IInv
    <2>2. UNCHANGED <<site, tip, tips>> /\ \A o \in Proc : Unmoved(o) /\ Undisturbed(o)
        BY <1>3 DEF EnvBind, Unmoved, Undisturbed, remote, prepared
    <2> QED
        BY <2>1, <2>2, StillSafe
<1>4. CASE UNCHANGED vars
    <2>1. TypeOK'
        BY <1>4 DEF IInv, TypeOK, vars, remote, table, prepared
    <2>2. UNCHANGED <<site, tip, tips>> /\ \A o \in Proc : Unmoved(o) /\ Undisturbed(o)
        BY <1>4 DEF vars, Unmoved, Undisturbed, remote, prepared
    <2> QED
        BY <2>1, <2>2, StillSafe
<1> QED
    BY <1>1, <1>2, <1>3, <1>4 DEF Next

LEMMA InitSafe == Init => IInv
<1> SUFFICES ASSUME Init
             PROVE  IInv
    OBVIOUS
<1>1. TypeOK
    BY InitType
<1>2. Forward
    BY HostedAssumption DEF Init, Forward
<1>3. ASSUME NEW p \in Proc
      PROVE  Local(p)
    BY DEF Init, Local, InGate, InMaking, Closed, Recorded
<1> QED
    BY <1>1, <1>2, <1>3 DEF IInv

LEMMA Safe == Spec => []IInv
BY InitSafe, Inductive, PTL DEF Spec

-----------------------------------------------------------------------------
(***************************************************************************)
(* The theorems.                                                           *)
(***************************************************************************)

\* Every variable keeps its type: what the gate passes on is always a report and a
\* policy, and prepare reads the tip of a base only where the base is a branch name.
THEOREM Typed == Spec => []TypeOK
<1>1. IInv => TypeOK
    BY DEF IInv
<1> QED
    BY <1>1, Safe, PTL

\* A contract that says its workspace matches what was fetched belongs to a workspace
\* whose policy is met, whatever is pushed between the gate and the clone.
THEOREM MatchedMeetsPolicy == Spec => []MatchedRunMeetsItsPolicy
<1>1. IInv => MatchedRunMeetsItsPolicy
    BY DEF IInv, Local, Closed, Kept, MatchedRunMeetsItsPolicy
<1> QED
    BY <1>1, Safe, PTL

\* The base provenance of a contract is true.
THEOREM ProvenanceHolds == Spec => []ProvenanceTrue
<1>1. IInv => ProvenanceTrue
    BY DEF IInv, Local, Closed, Kept, ProvenanceTrue
<1> QED
    BY <1>1, Safe, PTL

\* An agent's env bundle is whole, admitted and never left behind.
THEOREM BundleSafe == Spec => []BundleWholeAndScoped
<1>1. IInv => BundleWholeAndScoped
    <2> SUFFICES ASSUME IInv, NEW p \in Proc
                 PROVE  /\ bundle[p] \subseteq admitted[p]
                        /\ bundle[p] # {} => bundle[p] = PolicyAt(clone[p]).keys
                        /\ Recorded(p) =>
                              /\ contract[p].requires = PolicyAt(contract[p].head).keys
                              /\ req[p].provider # "none" => bundle[p] = contract[p].requires
                        /\ pc[p] \in {"done", "failed"} /\ ~Recorded(p) =>
                              bundle[p] = {} /\ clone[p] = None
        BY DEF BundleWholeAndScoped
    <2>1. InMaking(p) /\ Closed(p)
        BY DEF IInv, Local
    <2>2. CASE Recorded(p)
        BY <2>1, <2>2 DEF Closed, Kept
    <2>3. CASE ~Recorded(p)
        BY <2>1, <2>3 DEF InMaking, Copied
    <2> QED
        BY <2>2, <2>3
<1> QED
    BY <1>1, Safe, PTL

-----------------------------------------------------------------------------
(***************************************************************************)
(* What a status or tree says of its path.  The report of one that is past *)
(* the local checks is about a work tree with a policy, and no later check *)
(* adds a code that stands for what is at the path; whatever a check finds *)
(* on the way, the report still tells a work tree when it ends.  And a     *)
(* report without a code has passed the checks so far.                     *)
(***************************************************************************)

OnPath(r) ==
    /\ site.node \in {"plain", "checkout"} /\ site.git # "none" /\ SourcePolicy # None
    /\ r.onDisk
    /\ r.block \cap WorkspaceBlocker = {}
    /\ site.dirty => r.warn # {}
    /\ r.state \in {"present", "dirty", "stale", "blocked"}
    /\ r.state \in {"present", "dirty"} => r.block = {}

Flawless(r) == r.warn = {} /\ r.block = {}

\* What StatusTellsThePath asks of the report at the end: of the path,
PathTold(r) ==
    LET told == workspaceState(r)
    IN  /\ site.node = "absent" <=> told = "missing"
        /\ site.node = "owned" <=> told = "placeholder"
        /\ site.node = "checkout" => told = "hydrated"
        /\ site.node \in {"file", "edited", "mismatched", "garbled"} => told = "blocked"
        /\ told = "hydrated" =>
              \/ site.node = "checkout"
              \/ site.node = "plain" /\ (site.git = "outer" \/ SourcePolicy = None)
        /\ r.state \in {"present", "dirty"} => r.block = {}
        /\ Flawless(r) => told = "hydrated" /\ site.git # "none" /\ ~site.dirty

\* of the requirements,
Equipped(p, r) ==
    Flawless(r) => /\ SourcePolicy.tools = {}
                   /\ SourcePolicy.files \subseteq site.files
                   /\ SourcePolicy.keys \subseteq req[p].keys

\* and of the base.
Abreast(p, r) ==
    Flawless(r) =>
        /\ site.origin = "registered"
        /\ r.base \in Branch
        /\ site.heads[r.base] # None => r.fetchedCommit \in Before[site.heads[r.base]]
        /\ quiet[p] => r.fetchedCommit \in tips[r.base]

OnTheWay == {"default", "judge", "fetch", "resolve"}

\* The report r and the policy of p, when it is at label.
TellsAt(p, r, policy, label) ==
    /\ label \in OnTheWay =>
          OnPath(r) /\ (req[p].kind = "status" => site.origin = "registered")
    /\ label \in {"default", "judge"} => policy = SourcePolicy
    /\ label \in {"fetch", "resolve"} => Equipped(p, r)
    /\ label = "done" => /\ PathTold(r) /\ Equipped(p, r)
                         /\ req[p].kind = "status" => Abreast(p, r)

Told(p) == IsProject(req[p]) => TellsAt(p, rep[p], pol[p], pc[p])

AllTold == site \in Sites /\ \A p \in Proc : req[p] \in CommandLine /\ Told(p)

LEMMA SuccessFlawless ==
    ASSUME NEW r
    PROVE  ReadinessExitClass(r) = "success" <=> Flawless(r)
BY DEF ReadinessExitClass, Flawless

LEMMA OnPathTells ==
    ASSUME site \in Sites, NEW r \in Report, OnPath(r)
    PROVE  PathTold(r)
<1>1. workspaceState(r) = "hydrated"
    BY DEF OnPath, workspaceState
<1>2. site.git \in {"own", "outer", "none"} /\ (site.git = "own" <=> site.node = "checkout")
    BY SitesAssumption DEF Site
<1> QED
    BY <1>1, <1>2 DEF OnPath, PathTold, Flawless

LEMMA OnPathBase ==
    ASSUME NEW r \in Report, OnPath(r), NEW b
    PROVE  OnPath([r EXCEPT !.base = b])
BY DEF OnPath, Report

LEMMA OnPathBlock ==
    ASSUME NEW r \in Report, OnPath(r), NEW s \in {"stale", "blocked"}, NEW codes,
           codes \cap WorkspaceBlocker = {}
    PROVE  OnPath(Block(r, s, codes))
BY DEF OnPath, Report, Block

LEMMA OnPathWarn ==
    ASSUME NEW r \in Report, OnPath(r), NEW codes
    PROVE  OnPath(Warn(r, codes))
BY DEF OnPath, Report, Warn

LEMMA OnPathEnforce ==
    ASSUME NEW r \in Report, OnPath(r), NEW mode, NEW codes, codes \cap WorkspaceBlocker = {}
    PROVE  OnPath(Enforce(r, mode, codes))
BY OnPathBlock, OnPathWarn DEF Enforce

LEMMA OnPathRequirements ==
    ASSUME NEW p, NEW r \in Report, OnPath(r), NEW policy
    PROVE  OnPath(Requirements(p, r, policy))
<1> DEFINE codes == {c \in {"missing-env-file"} : ~ policy.files \subseteq FilesPresent} \cup
                    {c \in {"missing-env-key"} : ~ policy.keys \subseteq KeysPresent(p)}
           env == checkEnvReadiness(p, r, policy)
<1>1. codes \cap WorkspaceBlocker = {}
    BY DEF WorkspaceBlocker
<1>2. OnPath(env) /\ env \in Report
    BY <1>1, OnPathEnforce, EnvType DEF checkEnvReadiness
<1>3. (Check(req[p], policy) \ {"present"}) \cap WorkspaceBlocker = {}
    BY DEF Check, Detect, HostDetect, WorkspaceBlocker
<1> HIDE DEF env
<1>4. OnPath(checkToolchainReadiness(req[p], env, policy))
    BY <1>2, <1>3, OnPathEnforce DEF checkToolchainReadiness
<1> QED
    BY <1>2, <1>4 DEF Requirements, env

LEMMA OnPathFreshness ==
    ASSUME NEW r \in Report, OnPath(r)
    PROVE  OnPath(Freshness(r))
BY DEF OnPath, Report, Freshness, Warn

LEMMA BlockFlaws ==
    ASSUME NEW r \in Report, NEW s, NEW codes, codes # {}
    PROVE  ~Flawless(Block(r, s, codes))
BY DEF Flawless, Block, Report

LEMMA EnforceFlawless ==
    ASSUME NEW r \in Report, NEW mode, NEW codes, Flawless(Enforce(r, mode, codes))
    PROVE  codes = {}
BY DEF Flawless, Enforce, Block, Warn, Report

\* A status or tree without a code has all that its policy asks for, and no tool.
LEMMA RequirementsEquip ==
    ASSUME NEW p \in Proc, req[p] \in CommandLine, IsProject(req[p]), site.node # "absent",
           NEW r \in Report
    PROVE  Equipped(p, Requirements(p, r, SourcePolicy))
<1> DEFINE policy == SourcePolicy
           env == checkEnvReadiness(p, r, policy)
           envCodes == {c \in {"missing-env-file"} : ~ policy.files \subseteq FilesPresent} \cup
                       {c \in {"missing-env-key"} : ~ policy.keys \subseteq KeysPresent(p)}
<1> HIDE DEF policy
<1>1. env \in Report
    BY EnvType
<1>2. ASSUME Flawless(Requirements(p, r, policy))
      PROVE  policy.tools = {} /\ policy.files \subseteq FilesPresent
             /\ policy.keys \subseteq KeysPresent(p)
    <2>1. env = Enforce(r, policy.envMode, envCodes)
        BY DEF checkEnvReadiness
    <2> HIDE DEF env
    <2>2. Requirements(p, r, policy) = IF Blocked(env) THEN env
                                       ELSE checkToolchainReadiness(req[p], env, policy)
        BY DEF Requirements, env
    <2>3. ~Blocked(env)
        BY <1>2, <2>2 DEF Flawless, Blocked
    <2>4. Check(req[p], policy) \ {"present"} = {}
        BY <1>1, <1>2, <2>2, <2>3, EnforceFlawless DEF checkToolchainReadiness
    <2>5. policy.tools = {}
        BY <2>4 DEF Check, Detect
    <2>6. Flawless(env)
        <3>1. checkToolchainReadiness(req[p], env, policy)
                = Enforce(env, policy.toolMode, Check(req[p], policy) \ {"present"})
            BY DEF checkToolchainReadiness
        <3>2. checkToolchainReadiness(req[p], env, policy) = env
            BY <2>4, <3>1 DEF Enforce
        <3> QED
            BY <1>2, <2>2, <2>3, <3>2
    <2> HIDE DEF envCodes
    <2>7. envCodes = {}
        BY <2>1, <2>6, EnforceFlawless
    <2>8. ~ policy.files \subseteq FilesPresent => "missing-env-file" \in envCodes
        BY DEF envCodes
    <2>9. ~ policy.keys \subseteq KeysPresent(p) => "missing-env-key" \in envCodes
        BY DEF envCodes
    <2> QED
        BY <2>5, <2>7, <2>8, <2>9
<1>3. FilesPresent = site.files /\ KeysPresent(p) = req[p].keys
    BY DEF FilesPresent, KeysPresent, IsProject, CommandLine
<1> QED
    BY <1>2, <1>3 DEF Equipped, policy

\* The local checks: a report that does not block is on a work tree, of the registered
\* project if it is a status, and one that does names what is there, or is on a work
\* tree whose policy or origin is at fault.
LEMMA LookTells ==
    ASSUME site \in Sites, NEW q \in Request
    PROVE  /\ PathTold(LookProject(q))
           /\ ~Blocked(LookProject(q)) =>
                 /\ OnPath(LookProject(q))
                 /\ q.kind # "tree" => site.origin = "registered"
<1> DEFINE n == OnDisk(NewReport(q.base))
           r == Placement(n)
           b == WithBase(r, SourcePolicy, q.base)
           s == gitStatus(b)
           wrong == Block(r, "blocked", {"invalid-policy"})
<1>1. n \in Report /\ r \in Report
    BY NewReportType, OnDiskType, PlacementType DEF Request
<1>2. n.state = "present" /\ n.block = {} /\ n.warn = {} /\ n.onDisk = (site.node # "absent")
    BY DEF OnDisk, NewReport
<1>3. /\ site \in Site /\ site.node \in NodeKind /\ site.dirty \in BOOLEAN
      /\ site.git \in {"own", "outer", "none"} /\ (site.git = "own" <=> site.node = "checkout")
      /\ site.origin \in {"registered", "other", "unsupported", "none"}
    BY SitesAssumption DEF Site
<1> HIDE DEF n
<1>4. /\ r.warn = {} /\ r.onDisk = (site.node # "absent")
      /\ site.node \in {"plain", "checkout"} => r = n
    BY <1>1, <1>2, <1>3 DEF Placement, Block, Report, NodeKind
<1>5. ASSUME Blocked(r)
      PROVE  PathTold(r)
    <2>1. site.node \notin {"plain", "checkout"}
        BY <1>2, <1>4, <1>5 DEF Blocked
    <2>2. /\ site.node = "absent" => r.state = "missing"
          /\ site.node = "owned" => r.state = "placeholder"
          /\ site.node \in {"file", "edited", "mismatched", "garbled"} =>
                r.state = "blocked" /\ r.block \cap WorkspaceBlocker # {}
        BY <1>1, <1>2 DEF Placement, Block, Report, WorkspaceBlocker
    <2>3. ~Flawless(r)
        BY <1>5 DEF Flawless, Blocked
    <2>4. workspaceState(r) = CASE site.node = "absent" -> "missing"
                                [] site.node = "owned" -> "placeholder"
                                [] OTHER -> "blocked"
        BY <1>3, <1>4, <2>1, <2>2 DEF workspaceState, NodeKind
    <2> QED
        BY <1>3, <2>1, <2>2, <2>3, <2>4 DEF PathTold, NodeKind
<1>6. ASSUME ~Blocked(r)
      PROVE  site.node \in {"plain", "checkout"} /\ r = n
    <2>1. site.node \notin {"plain", "checkout"} => r.block # {}
        BY <1>1, <1>2, <1>3 DEF Placement, Block, Report, NodeKind
    <2> QED
        BY <1>4, <1>6, <2>1 DEF Blocked
<1>7. ASSUME ~Blocked(r), SourcePolicy = None
      PROVE  PathTold(wrong)
    <2>1. /\ wrong.state = "blocked" /\ wrong.block = {"invalid-policy"} /\ wrong.onDisk
        BY <1>1, <1>2, <1>6, <1>7 DEF Block, Report
    <2> HIDE DEF wrong
    <2>2. workspaceState(wrong) = "hydrated"
        BY <2>1 DEF workspaceState, WorkspaceBlocker
    <2>3. ~Flawless(wrong)
        BY <2>1 DEF Flawless
    <2> QED
        BY <1>6, <1>7, <2>1, <2>2, <2>3 DEF PathTold
<1>8. ASSUME ~Blocked(r), SourcePolicy # None
      PROVE  b \in Report /\ b.state = "present" /\ b.block = {} /\ b.warn = {} /\ b.onDisk
    <2>1. b \in Report
        BY <1>1, <1>3, <1>8, SourcePolicyType, WithBaseType
    <2>2. b.state = r.state /\ b.block = r.block /\ b.warn = r.warn /\ b.onDisk = r.onDisk
        BY <1>1 DEF WithBase, Report
    <2> QED
        BY <1>2, <1>6, <1>8, <2>1, <2>2
<1> HIDE DEF b, r, wrong
<1>9. ASSUME ~Blocked(r), SourcePolicy # None
      PROVE  /\ s \in Report
             /\ site.git = "none" => s.state = "blocked" /\ s.block = {"git-status-failed"}
             /\ site.git # "none" => OnPath(s) /\ s.block = {}
    <2>1. s \in Report
        BY <1>8, <1>9, GitStatusType
    <2>2. CASE site.git = "none"
        BY <1>8, <1>9, <2>1, <2>2 DEF gitStatus, Block, Report
    <2>3. CASE site.git # "none"
        BY <1>6, <1>8, <1>9, <2>1, <2>3 DEF gitStatus, OnPath, Warn, Report
    <2> QED
        BY <2>1, <2>2, <2>3
<1> HIDE DEF s
<1>10. ASSUME ~Blocked(r), SourcePolicy # None, site.git = "none"
       PROVE  PathTold(s) /\ Blocked(s)
    <2>1. s.onDisk
        BY <1>8, <1>10 DEF s, gitStatus, Block, Report
    <2>2. workspaceState(s) = "blocked"
        BY <1>9, <1>10, <2>1 DEF workspaceState, WorkspaceBlocker
    <2>3. ~Flawless(s)
        BY <1>9, <1>10 DEF Flawless
    <2>4. site.node = "plain"
        BY <1>3, <1>6, <1>10
    <2> QED
        BY <1>9, <1>10, <2>2, <2>3, <2>4 DEF PathTold, Blocked
<1>11. ASSUME ~Blocked(r), SourcePolicy # None, site.git # "none"
       PROVE  /\ PathTold(s) /\ OnPath(s)
              /\ PathTold(sourceRemote(s)) /\ OnPath(sourceRemote(s))
              /\ ~Blocked(sourceRemote(s)) => site.origin = "registered"
    <2>1. {c \in {"origin-missing", "origin-unsupported", "remote-mismatch"} :
              c \in WorkspaceBlocker} = {}
        BY DEF WorkspaceBlocker
    <2>2. OnPath(sourceRemote(s))
        BY <1>9, <1>11, <2>1, OnPathBlock DEF sourceRemote
    <2>3. ~Blocked(sourceRemote(s)) => site.origin = "registered"
        BY <1>3, <1>9, <1>11 DEF sourceRemote, Blocked, Block, Report
    <2> QED
        BY <1>9, <1>11, <2>2, <2>3, OnPathTells, SourceRemoteType
<1>12. LookProject(q) = IF Blocked(r) THEN r
                        ELSE IF SourcePolicy = None THEN wrong
                        ELSE IF Blocked(s) \/ q.kind = "tree" THEN s
                        ELSE sourceRemote(s)
    BY DEF LookProject, wrong, s, b, r, n
<1>13. Blocked(wrong)
    BY <1>1 DEF wrong, Blocked, Block
<1> QED
    BY <1>5, <1>6, <1>7, <1>10, <1>11, <1>12, <1>13

\* A check whose report is r leads to label.
LEMMA ReachTold ==
    ASSUME TypeOK, NEW p \in Proc, NEW r \in Report, NEW label, Reach(p, r, label),
           UNCHANGED <<site, req, tips>>,
           label = "done" /\ Flawless(r) => quiet'[p] = quiet[p],
           NEW policy, pol'[p] = policy, IsProject(req[p]) => TellsAt(p, r, policy, label)
    PROVE  Told(p)'
<1>1. pc'[p] = label /\ rep'[p] = r /\ req'[p] = req[p]
    BY DEF TypeOK, Reach, Goto
<1>2. /\ OnPath(r)' <=> OnPath(r)
      /\ PathTold(r)' <=> PathTold(r)
      /\ SourcePolicy' = SourcePolicy
    BY DEF OnPath, PathTold, SourcePolicy
<1>3. Equipped(p, r)' <=> Equipped(p, r)
    BY <1>1, <1>2 DEF Equipped, Flawless
<1>4. label = "done" /\ Abreast(p, r) => Abreast(p, r)'
    BY DEF Abreast, Flawless
<1>5. IsProject(req[p]) => TellsAt(p, r, policy, label)'
    BY <1>1, <1>2, <1>3, <1>4 DEF TellsAt
<1>6. IsProject(req[p])' <=> IsProject(req[p])
    BY DEF IsProject
<1> QED
    BY <1>1, <1>5, <1>6 DEF Told

LEMMA EndsTold ==
    ASSUME TypeOK, site \in Sites, NEW p \in Proc, IsProject(req[p]) => OnPath(rep[p]),
           UNCHANGED <<site, req, tips>>, Unreachable(p) \/ MissingBase(p) \/ InvalidBase(p)
    PROVE  Told(p)'
<1>1. PICK s \in {"stale", "blocked"}, code \in {"fetch-failed", "missing-base", "invalid-base"} :
          Reach(p, Block(rep[p], s, {code}), "done")
    BY DEF Unreachable, MissingBase, InvalidBase
<1> DEFINE r == Block(rep[p], s, {code})
<1>2. {code} \cap WorkspaceBlocker = {}
    BY DEF WorkspaceBlocker
<1>3. rep[p] \in Report /\ r \in Report
    BY BlockOfType, CodeOf, StateOf DEF TypeOK
<1>4. ~Flawless(r)
    BY <1>3, BlockFlaws
<1>5. ASSUME IsProject(req[p])
      PROVE  PathTold(r)
    BY <1>2, <1>3, <1>5, OnPathBlock, OnPathTells
<1> HIDE DEF r
<1>6. IsProject(req[p]) => TellsAt(p, r, pol'[p], "done")
    BY <1>4, <1>5 DEF TellsAt, OnTheWay, Equipped, Abreast
<1> QED
    BY <1>1, <1>3, <1>4, <1>6, ReachTold DEF r

LEMMA LookTold ==
    ASSUME TypeOK, site \in Sites, NEW p \in Proc, Look(p)
    PROVE  Told(p)'
<1> DEFINE q == req[p]
           r == IF IsProject(q) THEN LookProject(q) ELSE LookHandoff(q)
<1>1. site \in Site /\ q \in Request
    BY DEF TypeOK
<1>2. r \in Report
    BY <1>1, LookProjectType, LookHandoffType
<1>3. IsProject(q) => /\ PathTold(r)
                      /\ ~Blocked(r) => /\ OnPath(r)
                                        /\ q.kind = "status" => site.origin = "registered"
    BY <1>1, LookTells
<1>4. /\ Blocked(r) => Reach(p, r, "done")
      /\ ~Blocked(r) /\ IsProject(q) => \E label \in {"default", "judge"} :
            Reach(p, r, label) /\ pol' = [pol EXCEPT ![p] = SourcePolicy]
      /\ \E label : Reach(p, r, label)
    BY DEF Look
<1>5. UNCHANGED <<site, req, tips, quiet>>
    BY DEF Look, remote
<1> HIDE DEF r
<1>6. CASE Blocked(r)
    <2>1. ~Flawless(r)
        BY <1>6 DEF Blocked, Flawless
    <2>2. IsProject(q) => TellsAt(p, r, pol'[p], "done")
        BY <1>3, <2>1 DEF TellsAt, OnTheWay, Equipped, Abreast
    <2> QED
        BY <1>2, <1>4, <1>5, <1>6, <2>2, ReachTold
<1>7. CASE ~Blocked(r) /\ IsProject(q)
    <2>1. PICK label \in {"default", "judge"} :
              Reach(p, r, label) /\ pol' = [pol EXCEPT ![p] = SourcePolicy]
        BY <1>4, <1>7
    <2>2. pol'[p] = SourcePolicy
        BY <2>1 DEF TypeOK
    <2>3. TellsAt(p, r, pol'[p], label)
        BY <1>3, <1>7, <2>2 DEF TellsAt
    <2> QED
        BY <1>2, <1>5, <2>1, <2>3, ReachTold
<1>8. CASE ~IsProject(q)
    BY <1>5, <1>8 DEF Told, IsProject
<1> QED
    BY <1>6, <1>7, <1>8

LEMMA AskDefaultTold ==
    ASSUME TypeOK, site \in Sites, NEW p \in Proc, Told(p), AskDefault(p)
    PROVE  Told(p)'
<1>1. /\ UNCHANGED <<site, req, pol, tips, quiet>> /\ rep[p] \in Report
      /\ IsProject(req[p]) => /\ OnPath(rep[p]) /\ pol[p] = SourcePolicy
                              /\ req[p].kind = "status" => site.origin = "registered"
    BY DEF AskDefault, Told, TellsAt, TypeOK, OnTheWay, remote
<1>2. CASE Unreachable(p)
    BY <1>1, <1>2, EndsTold
<1>3. CASE ~Unreachable(p)
    <2> DEFINE b == IF site.head = None THEN Main ELSE site.head
               r == [rep[p] EXCEPT !.base = b]
    <2>1. Reach(p, r, AfterDefault(p))
        BY <1>3 DEF AskDefault
    <2>2. r \in Report
        <3>1. b \in Branch
            BY NamesAssumption DEF TypeOK, Site
        <3> HIDE DEF b
        <3> QED
            BY <1>1, <3>1 DEF Report
    <2>3. IsProject(req[p]) => OnPath(r)
        BY <1>1, OnPathBase
    <2> HIDE DEF r
    <2>4. AfterDefault(p) # "done"
        BY DEF AfterDefault
    <2>5. IsProject(req[p]) => TellsAt(p, r, pol'[p], AfterDefault(p))
        BY <1>1, <2>3 DEF TellsAt, AfterDefault
    <2> QED
        BY <1>1, <2>1, <2>2, <2>4, <2>5, ReachTold
<1> QED
    BY <1>2, <1>3

LEMMA FetchTold ==
    ASSUME TypeOK, site \in Sites, NEW p \in Proc, Told(p), Fetch(p)
    PROVE  Told(p)'
<1>1. /\ UNCHANGED <<site, req, pol, tips>> /\ rep[p] \in Report
      /\ IsProject(req[p]) => /\ OnPath(rep[p]) /\ Equipped(p, rep[p])
                              /\ req[p].kind = "status" => site.origin = "registered"
    BY DEF Fetch, Told, TellsAt, TypeOK, OnTheWay, remote
<1>2. \/ Unreachable(p) \/ MissingBase(p) \/ InvalidBase(p)
      \/ Reach(p, rep[p], "resolve")
    BY DEF Fetch
<1>3. IsProject(req[p]) => TellsAt(p, rep[p], pol'[p], "resolve")
    BY <1>1 DEF TellsAt
<1> QED
    BY <1>1, <1>2, <1>3, EndsTold, ReachTold

LEMMA ResolveTold ==
    ASSUME TypeOK, site \in Sites, NEW p \in Proc, Told(p), InGate(p), Resolve(p)
    PROVE  Told(p)'
<1> DEFINE n == [rep[p] EXCEPT !.fetchedBase = rep[p].base, !.fetchedCommit = fetchHead]
           f == Freshness(n)
           label == IF IsProject(req[p]) THEN "done" ELSE "show"
<1>1. /\ UNCHANGED <<site, req, pol, tips, quiet>> /\ rep[p] \in Report
      /\ rep[p].base # Malformed /\ (quiet[p] => fetchHead \in tips[rep[p].base])
      /\ IsProject(req[p]) => /\ OnPath(rep[p]) /\ Equipped(p, rep[p])
                              /\ req[p].kind = "status" => site.origin = "registered"
    BY DEF Resolve, Told, TellsAt, InGate, TypeOK, OnTheWay, remote
<1>2. n \in Report /\ n.base = rep[p].base /\ n.fetchedCommit = fetchHead
      /\ (Flawless(n) <=> Flawless(rep[p]))
    BY <1>1 DEF TypeOK, Report, Flawless
<1>3. IsProject(req[p]) => OnPath(n)
    BY <1>1 DEF OnPath, Report
<1>4. MissingBase(p) \/ Reach(p, f, label)
    BY DEF Resolve
<1>5. n.base \in Branch
    BY <1>1, <1>2 DEF Report
<1> HIDE DEF n
<1>6. f \in Report
    BY <1>2, FreshnessType
<1>7. IsProject(req[p]) => PathTold(f)
    BY <1>2, <1>3, <1>6, OnPathFreshness, OnPathTells
<1>8. Flawless(f) =>
        /\ Flawless(n) /\ f = n
        /\ site.heads[n.base] # None => n.fetchedCommit \in Before[site.heads[n.base]]
    BY <1>2 DEF Freshness, Flawless, Warn, Report
<1> HIDE DEF f
<1>9. IsProject(req[p]) => Equipped(p, f)
    BY <1>1, <1>2, <1>8 DEF Equipped
<1>10. IsProject(req[p]) /\ req[p].kind = "status" => Abreast(p, f)
    BY <1>1, <1>2, <1>5, <1>8 DEF Abreast
<1>11. IsProject(req[p]) => TellsAt(p, f, pol'[p], label)
    BY <1>7, <1>9, <1>10 DEF TellsAt, OnTheWay
<1> HIDE DEF label
<1> QED
    BY <1>1, <1>4, <1>6, <1>11, EndsTold, ReachTold

LEMMA JudgeTold ==
    ASSUME TypeOK, site \in Sites, NEW p \in Proc, req[p] \in CommandLine, Told(p), Judge(p)
    PROVE  Told(p)'
<1> DEFINE r == Requirements(p, rep[p], pol[p])
           env == checkEnvReadiness(p, rep[p], pol[p])
<1>1. /\ UNCHANGED <<site, req, pol, tips, quiet>> /\ rep[p] \in Report
      /\ IsProject(req[p]) => /\ OnPath(rep[p]) /\ pol[p] = SourcePolicy
                              /\ req[p].kind = "status" => site.origin = "registered"
    BY DEF Judge, Told, TellsAt, TypeOK, OnTheWay, remote
<1>2. CASE ~IsProject(req[p])
    BY <1>1, <1>2 DEF Told, IsProject
<1>3. CASE IsProject(req[p])
    <2>1. r \in Report
        BY <1>1, RequirementsType
    <2>2. OnPath(r)
        BY <1>1, <1>3, OnPathRequirements
    <2>3. Equipped(p, r)
        BY <1>1, <1>3, RequirementsEquip DEF OnPath
    <2>4. Blocked(env) => Blocked(r)
        BY DEF Requirements
    <2>5. \/ Reach(p, r, "fetch")
          \/ Reach(p, r, "done") /\ (req[p].kind = "status" => Blocked(r))
        BY <1>3, <2>4 DEF Judge, IsProject
    <2> HIDE DEF r
    <2>6. PathTold(r)
        BY <2>1, <2>2, OnPathTells
    <2>7. TellsAt(p, r, pol'[p], "fetch")
        BY <1>1, <1>3, <2>2, <2>3 DEF TellsAt
    <2>8. (req[p].kind = "status" => Blocked(r)) => TellsAt(p, r, pol'[p], "done")
        BY <2>3, <2>6 DEF TellsAt, OnTheWay, Abreast, Flawless, Blocked
    <2> QED
        BY <1>1, <2>1, <2>5, <2>7, <2>8, ReachTold
<1> QED
    BY <1>2, <1>3

\* The other steps: prepare's, doctor's, a beginning and an end.
LEMMA StepTold ==
    ASSUME IInv, site \in Sites, NEW p \in Proc, req[p] \in CommandLine, Told(p), Step(p)
    PROVE  Told(p)'
<1>1. TypeOK /\ Local(p)
    BY DEF IInv
<1>2. CASE \E q \in IF site \in Shared THEN Together ELSE CommandLine : Begin(p, q)
    <2>1. pc'[p] = "look"
        BY <1>1, <1>2 DEF Begin, Goto, TypeOK
    <2> QED
        BY <2>1 DEF Told, TellsAt, OnTheWay
<1>3. CASE Exit(p)
    <2>1. pc'[p] = "gone"
        BY <1>1, <1>3 DEF Exit, Goto, TypeOK
    <2> QED
        BY <2>1 DEF Told, TellsAt, OnTheWay
<1>4. CASE \/ LookMissing(p) \/ AskRemoteDefault(p) \/ ProbeDefault(p) \/ List(p) \/ Probe(p)
           \/ ShowPolicy(p) \/ Clone(p) \/ Bind(p) \/ Write(p) \/ Record(p)
    <2>1. ~IsProject(req[p])
        <3>1. pc[p] \in {"remote_default", "probe_default", "list", "probe", "show"}
                => ~IsProject(req[p])
            BY <1>1 DEF Local, InGate
        <3>2. pc[p] \in Making => ~IsProject(req[p])
            BY <1>1 DEF Local, InGate, InMaking, Making, IsProject
        <3> QED
            BY <1>4, <3>1, <3>2 DEF LookMissing, AskRemoteDefault, ProbeDefault, List, Probe,
                 ShowPolicy, Clone, Bind, Write, Record, Making
    <2>2. req' = req
        BY <1>4 DEF LookMissing, AskRemoteDefault, ProbeDefault, List, Probe,
                    ShowPolicy, Clone, Bind, Write, Record
    <2> QED
        BY <2>1, <2>2 DEF Told, IsProject
<1>5. InGate(p)
    BY <1>1 DEF Local
<1> QED
    BY <1>1, <1>2, <1>3, <1>4, <1>5, LookTold, AskDefaultTold, FetchTold, ResolveTold, JudgeTold
    DEF Step

LEMMA StayTold ==
    ASSUME TypeOK, NEW o \in Proc, Told(o), Unmoved(o), site' = site,
           \A b \in Branch : tips[b] \subseteq tips'[b], quiet'[o] => quiet[o]
    PROVE  Told(o)'
<1>1. /\ OnPath(rep[o])' <=> OnPath(rep[o])
      /\ PathTold(rep[o])' <=> PathTold(rep[o])
      /\ Equipped(o, rep[o])' <=> Equipped(o, rep[o])
      /\ SourcePolicy' = SourcePolicy
    BY DEF Unmoved, OnPath, PathTold, Equipped, SourcePolicy
<1>2. Abreast(o, rep[o]) => Abreast(o, rep[o])'
    BY DEF Unmoved, Abreast
<1> QED
    BY <1>1, <1>2 DEF Told, TellsAt, Unmoved, IsProject

\* The command line of an invocation is one that there is.
LEMMA StepAsks ==
    ASSUME TypeOK, NEW p \in Proc, Step(p), \A o \in Proc : req[o] \in CommandLine
    PROVE  \A o \in Proc : req'[o] \in CommandLine
<1>1. CASE \E q \in IF site \in Shared THEN Together ELSE CommandLine : Begin(p, q)
    BY <1>1, TogetherAssumption DEF Begin, TypeOK
<1>2. CASE Exit(p)
    <2>1. Unused \in CommandLine
        BY DEF Unused, CommandLine, Request, Kind
    <2> QED
        BY <1>2, <2>1 DEF Exit, TypeOK
<1>3. CASE req' = req
    BY <1>3
<1> QED
    BY <1>1, <1>2, <1>3
    DEF Step, Look, LookMissing, AskDefault, AskRemoteDefault, ProbeDefault, List, Probe, Fetch,
        Resolve, ShowPolicy, Judge, Clone, Bind, Write, Record

LEMMA NextTold == IInv /\ AllTold /\ [Next]_vars => AllTold'
<1> SUFFICES ASSUME IInv, AllTold, [Next]_vars
             PROVE  AllTold'
    OBVIOUS
<1> USE DEF AllTold
<1>0. TypeOK
    BY DEF IInv
<1>1. ASSUME NEW p \in Proc, Step(p)
      PROVE  AllTold'
    <2>1. site' = site /\ tips' = tips
        BY <1>1, StepRemote
    <2>2. ASSUME NEW o \in Proc
          PROVE  Told(o)'
        <3>1. CASE o = p
            BY <1>1, <2>2, <3>1, StepTold
        <3>2. CASE o # p
            <4>1. Unmoved(o) /\ Undisturbed(o)
                BY <1>1, <3>2, StepElsewhere
            <4> QED
                BY <1>0, <2>1, <2>2, <4>1, StayTold DEF Undisturbed
        <3> QED
            BY <3>1, <3>2
    <2> QED
        BY <1>0, <1>1, <2>1, <2>2, StepAsks
<1>2. ASSUME NEW b \in Branch, NEW c \in Commit, Push(b, c)
      PROVE  AllTold'
    <2>1. /\ UNCHANGED <<site, req, quiet>> /\ \A o \in Proc : Unmoved(o)
          /\ \A d \in Branch : tips[d] \subseteq tips'[d]
        BY <1>0, <1>2 DEF Push, Unmoved, prepared, TypeOK
    <2> QED
        BY <1>0, <2>1, StayTold
<1>3. ASSUME NEW k \in Key, NEW scopes \in (SUBSET Scope) \ {{}}, EnvBind(k, scopes)
      PROVE  AllTold'
    <2>1. UNCHANGED <<site, req, quiet, tips>> /\ \A o \in Proc : Unmoved(o)
        BY <1>3 DEF EnvBind, Unmoved, prepared, remote
    <2> QED
        BY <1>0, <2>1, StayTold
<1>4. CASE UNCHANGED vars
    <2>1. UNCHANGED <<site, req, quiet, tips>> /\ \A o \in Proc : Unmoved(o)
        BY <1>4 DEF vars, Unmoved, prepared, remote
    <2> QED
        BY <1>0, <2>1, StayTold
<1> QED
    BY <1>1, <1>2, <1>3, <1>4 DEF Next

\* What status and tree end with says what is at the path, whatever the remote, the
\* policy and other invocations do in the meantime; and a success vouches for the work
\* tree, for its requirements, and for the base that was fetched.
THEOREM StatusTold == Spec => []StatusTellsThePath
<1>1. Init => AllTold
    BY DEF Init, AllTold, Told, TellsAt, OnTheWay, Unused, CommandLine, Request, Kind
<1>2. TypeOK /\ AllTold => StatusTellsThePath
    <2> SUFFICES ASSUME TypeOK, AllTold, NEW p \in Proc, pc[p] = "done", IsProject(req[p])
                 PROVE  /\ PathTold(rep[p]) /\ Equipped(p, rep[p])
                        /\ req[p].kind = "status" => Abreast(p, rep[p])
        BY SuccessFlawless DEF StatusTellsThePath, PathTold, Equipped, Abreast
    <2> QED
        BY DEF AllTold, Told, TellsAt
<1>3. IInv => TypeOK
    BY DEF IInv
<1> QED
    BY <1>1, <1>2, <1>3, InitSafe, Inductive, NextTold, PTL DEF Spec
=============================================================================
