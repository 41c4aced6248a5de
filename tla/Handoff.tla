------------------------------- MODULE Handoff -------------------------------
(***************************************************************************)
(* The readiness gate (internal/readiness) and what agent prepare does     *)
(* behind it: the clone, its provenance, the env bundle of an agent        *)
(* (internal/envbinding) and the Agent Run Contract                        *)
(* (internal/agentcontract), of one registered project.                    *)
(*                                                                         *)
(* A process is one codemesh invocation: tree and status (EvaluateProject),*)
(* doctor and prepare (EvaluateHandoff).  Each git command is a step of    *)
(* its own.  Processes meet in the remote, which others push to, in the    *)
(* bindings table, which env bind writes, and in the FETCH_HEAD of the     *)
(* source checkout: git fetch writes it, and two later git commands of the *)
(* same evaluation read it.                                                *)
(*                                                                         *)
(* The source checkout and the tools of the host do not change while a     *)
(* behaviour lasts; they are the record site, chosen at the start.  The    *)
(* run directory and its row are the subject of AgentRuns, not of this     *)
(* module: here a run is its contract.                                     *)
(***************************************************************************)
EXTENDS Naturals, FiniteSets

CONSTANTS
    Proc,      \* invocations, each performs one command
    Branch,    \* branch names the remote may have
    Main,      \* the branch named main
    Malformed, \* a base that is no branch name
    None,      \* no branch, no commit, no policy file
    Commit,    \* commits of the remote
    Before,    \* [Commit -> SUBSET Commit], a commit and its ancestors
    FileIn,    \* [Commit -> PolicyFile], .codemesh.yml in a commit
    EnvFile,   \* env files a policy may require
    Key,       \* env keys a policy may require
    Tool,      \* tools a policy may require
    Scope,     \* scopes of env bindings
    Sites,     \* the situations a behaviour starts from
    Shared,    \* bound: the sites that more than one invocation works in
    Together,  \* bound: the command lines of these invocations
    Hosted,    \* branches the remote has at the start, with their commits
    MaxPushes, \* bound: pushes to the remote
    MaxBinds   \* bound: changes of the bindings table

ModeWord == {"unset", "warn", "block", "other"}
\* valid: the YAML decodes and every list entry passes its validator.
PolicyFile == [base : Branch \cup {Malformed, None}, envMode : ModeWord,
               files : SUBSET EnvFile, keys : SUBSET Key,
               toolMode : ModeWord, tools : SUBSET Tool, valid : BOOLEAN] \cup {None}
Policy == [base : Branch \cup {None}, envMode : {"warn", "block"},
           files : SUBSET EnvFile, keys : SUBSET Key,
           toolMode : {"warn", "block"}, tools : SUBSET Tool]
\* Where PATH finds a tool: nowhere, on the host, or in the project's own directory.
ToolPlace == {"absent", "host", "inside"}
NodeKind == {"absent", "file", "plain", "owned", "edited", "mismatched", "garbled", "checkout"}
Site == [node : NodeKind,                \* what is at the project's local path
         worktree : Commit,              \* the commit its policy file is from
         git : {"own", "outer", "none"}, \* the work tree git finds from there
         dirty : BOOLEAN,                \* uncommitted changes in that tree
         origin : {"registered", "other", "unsupported", "none"},  \* its remote
         heads : [Branch -> Commit \cup {None}],  \* its local branches
         files : SUBSET EnvFile,         \* env files in it
         tools : [Tool -> ToolPlace],
         clone : {"ok", "empty", "unsafe"},       \* clone_url of the row
         head : Branch \cup {None}]      \* the default branch the remote advertises

ASSUME NamesAssumption == Main \in Branch /\ Malformed \notin Branch /\ None \notin Branch
                          /\ Malformed # None /\ None \notin Commit
ASSUME BeforeAssumption == Before \in [Commit -> SUBSET Commit]
ASSUME FileAssumption == FileIn \in [Commit -> PolicyFile]
\* git takes a checkout for a work tree of its own, the .git file of a placeholder
\* for a broken one, and walks up from any other directory.
ASSUME SitesAssumption ==
    /\ Sites \subseteq Site /\ Shared \subseteq Sites
    /\ \A s \in Sites : /\ s.git = "own" <=> s.node = "checkout"
                        /\ s.node \in {"absent", "file", "owned"} => s.git = "none"
Kind == {"tree", "status", "doctor", "prepare"}
\* keys: the required keys in the environment of the invocation.
Request == [kind : Kind, base : Branch \cup {Malformed, None}, keys : SUBSET Key,
            provider : {"none", "fake", "other"}, scopes : SUBSET Scope]
\* tree takes no base, and only prepare an env provider.
CommandLine == {q \in Request : /\ q.kind = "tree" => q.base = None
                                /\ q.kind # "prepare" => q.provider = "none" /\ q.scopes = {}}

ASSUME TogetherAssumption == Together \subseteq CommandLine
ASSUME HostedAssumption == Hosted \in [Branch -> Commit \cup {None}]
ASSUME BoundsAssumption == MaxPushes \in Nat /\ MaxBinds \in Nat

VARIABLES
    site,      \* the source checkout and the host
    tip,       \* [Branch -> Commit \cup {None}], the remote's branches
    bindings,  \* [Key -> SUBSET Scope], env_bindings; {} for no binding
    fetchHead, \* FETCH_HEAD of the source checkout
    pc,        \* [Proc -> PC]
    req,       \* [Proc -> Request]
    rep,       \* [Proc -> Report], the ProjectReport
    pol,       \* [Proc -> Policy], the policy in hand
    clone,     \* [Proc -> Commit \cup {None}], HEAD of the run's workspace
    bundle,    \* [Proc -> SUBSET Key], keys in the run's env.bundle
    contract,  \* [Proc -> Contract \cup {NoContract}], of the recorded run
    pushes,    \* pushes so far
    binds,     \* bindings written so far
    tips,      \* history: [Branch -> SUBSET Commit], every tip there was
    judgedOn,  \* history: the commit whose policy the gate applied
    quiet,     \* history: no other process fetched during the evaluation
    admitted   \* history: [Proc -> SUBSET Key], keys whose scope was admitted

remote == <<tip, tips, pushes>>
table == <<bindings, binds>>
prepared == <<clone, bundle, contract, admitted>>
vars == <<site, remote, table, fetchHead, pc, req, rep, pol, prepared, judgedOn, quiet>>

Code == {"missing-path", "path-not-directory", "invalid-placeholder", "placeholder",
         "placeholder-mismatch", "placeholder-local-changes", "invalid-policy",
         "git-status-failed", "dirty-checkout", "origin-missing", "origin-unsupported",
         "remote-mismatch", "unsafe-clone-url", "fetch-failed", "invalid-base",
         "missing-base", "stale-checkout", "missing-env-file", "missing-env-key",
         "missing-toolchain", "unknown-toolchain", "missing-env-binding",
         "env-scope-denied", "env-provider-unsupported"}
Report == [state : {"present", "placeholder", "missing", "dirty", "stale", "blocked"},
           onDisk : BOOLEAN, base : Branch \cup {Malformed},
           fetchedBase : Branch \cup {Malformed, None}, fetchedCommit : Commit \cup {None},
           warn : SUBSET Code, block : SUBSET Code]
Contract == [base : Branch \cup {Malformed}, fetchedBase : Branch \cup {Malformed, None},
             fetchedCommit : Commit \cup {None}, head : Commit, matches : BOOLEAN,
             requires : SUBSET Key, env : {"not_requested", "materialized"}]
NoContract == [recorded |-> FALSE]

Gate == {"look", "default", "fetch", "resolve", "show", "judge"}
MissingGate == {"remote_default", "probe_default", "list", "probe"}
Making == {"clone", "bind", "write", "record"}
PC == {"idle", "done", "failed", "gone"} \cup Gate \cup MissingGate \cup Making

Recorded(p) == contract[p] # NoContract

-----------------------------------------------------------------------------
(***************************************************************************)
(* Policies.                                                               *)
(***************************************************************************)

Defaults == [base |-> None, envMode |-> "warn", files |-> {}, keys |-> {},
             toolMode |-> "warn", tools |-> {}]

Mode(word) == IF word = "block" THEN "block" ELSE "warn"

\* policy.ParseBytes; None is an error.
ParseBytes(file) ==
    IF \/ ~file.valid
       \/ file.base = Malformed
       \/ "other" \in {file.envMode, file.toolMode}
    THEN None
    ELSE [base |-> file.base, envMode |-> Mode(file.envMode), files |-> file.files,
          keys |-> file.keys, toolMode |-> Mode(file.toolMode), tools |-> file.tools]

\* policy.Resolve of a checkout of c, policyFromFetchedBase and PolicyFromCheckout.
PolicyAt(c) == IF FileIn[c] = None THEN Defaults ELSE ParseBytes(FileIn[c])

\* Mutant: whatever the file says is a policy.
AnyFile(c) == c # None

Readable(c) == IF c = None THEN FALSE ELSE PolicyAt(c) # None

\* HostDetector.DetectDetails: nothing in the project's own directory is trusted.
HostDetect(t) ==
    CASE site.tools[t] = "absent" -> "missing-toolchain"
      [] site.tools[t] = "inside" -> "unknown-toolchain"
      [] OTHER -> "present"

IsProject(q) == q.kind \in {"tree", "status"}

\* Only doctor and prepare bring a detector; UnknownDetector stands in for the others.
Detect(q, t) == IF IsProject(q) THEN "unknown-toolchain" ELSE HostDetect(t)

-----------------------------------------------------------------------------
(***************************************************************************)
(* Reports.  An evaluation is a chain of checks that ends at the first one *)
(* that blocks.                                                            *)
(***************************************************************************)

NewReport(base) == [state |-> "present", onDisk |-> FALSE,
                    base |-> IF base = None THEN Main ELSE base,
                    fetchedBase |-> None, fetchedCommit |-> None,
                    warn |-> {}, block |-> {}]

Warn(r, codes) == [r EXCEPT !.warn = @ \cup codes]
Block(r, state, codes) == [r EXCEPT !.state = state, !.block = @ \cup codes]
Blocked(r) == r.block # {}

\* Missing requirements warn or block, as the policy says.
Enforce(r, mode, codes) ==
    IF codes = {} THEN r
    ELSE IF mode = "block" THEN Block(r, "blocked", codes)
    ELSE Warn(r, codes)

FilesPresent == IF site.node = "absent" THEN {} ELSE site.files

\* With an env provider every key counts as present (materializedEnvLookup).
KeysPresent(p) == IF req[p].provider = "none" THEN req[p].keys ELSE Key

checkEnvReadiness(p, r, policy) ==
    Enforce(r, policy.envMode,
            {c \in {"missing-env-file"} : ~ policy.files \subseteq FilesPresent} \cup
            {c \in {"missing-env-key"} : ~ policy.keys \subseteq KeysPresent(p)})

\* toolchain.Check, of every requirement.
Check(q, policy) == {Detect(q, t) : t \in policy.tools}

checkToolchainReadiness(q, r, policy) ==
    Enforce(r, policy.toolMode, Check(q, policy) \ {"present"})

\* Both evaluations check the tools only when the env does not block.
Requirements(p, r, policy) ==
    LET env == checkEnvReadiness(p, r, policy)
    IN  IF Blocked(env) THEN env ELSE checkToolchainReadiness(req[p], env, policy)

\* git status, of whatever work tree the path is in.
gitStatus(r) ==
    IF site.git = "none" THEN Block(r, "blocked", {"git-status-failed"})
    ELSE IF site.dirty THEN [Warn(r, {"dirty-checkout"}) EXCEPT !.state = "dirty"]
    ELSE r

sourceRemote(r) ==
    CASE site.origin = "none" -> Block(r, "blocked", {"origin-missing"})
      [] site.origin = "unsupported" -> Block(r, "blocked", {"origin-unsupported"})
      [] site.origin = "other" -> Block(r, "blocked", {"remote-mismatch"})
      [] OTHER -> r

\* What EvaluateProject says of a path before it reads a policy.
Placement(r) ==
    CASE site.node = "absent" -> Block(r, "missing", {"missing-path"})
      [] site.node = "file" -> Block(r, "blocked", {"path-not-directory"})
      [] site.node = "owned" -> Block(r, "placeholder", {"placeholder"})
      [] site.node = "edited" -> Block(r, "blocked", {"placeholder-local-changes"})
      [] site.node = "mismatched" -> Block(r, "blocked", {"placeholder-mismatch"})
      [] site.node = "garbled" -> Block(r, "blocked", {"invalid-placeholder"})
      [] OTHER -> r

\* The policy file of the source directory; an untouched placeholder has none.
SourcePolicy == IF site.node \in {"absent", "file", "owned"} THEN Defaults
                ELSE PolicyAt(site.worktree)

OnDisk(r) == [r EXCEPT !.onDisk = site.node # "absent"]

WithBase(r, policy, base) ==
    IF base = None /\ policy.base # None THEN [r EXCEPT !.base = policy.base] ELSE r

\* The local part of EvaluateProject: path, policy, git status, origin.
LookProject(q) ==
    LET r == Placement(OnDisk(NewReport(q.base)))
        s == gitStatus(WithBase(r, SourcePolicy, q.base))
    IN  IF Blocked(r) THEN r
        ELSE IF SourcePolicy = None THEN Block(r, "blocked", {"invalid-policy"})
        ELSE IF Blocked(s) \/ q.kind = "tree" THEN s
        ELSE sourceRemote(s)

\* The same of EvaluateHandoff, which knows nothing of placeholders, and asks the
\* source directory for its policy only when no base was requested.
HandoffPolicy(q) == IF q.base = None THEN SourcePolicy ELSE Defaults

LookHandoff(q) ==
    LET r == OnDisk(NewReport(q.base))
        s == gitStatus(WithBase(r, HandoffPolicy(q), q.base))
    IN  IF site.node = "absent"
        THEN CASE site.clone = "empty" -> Block(r, "blocked", {"origin-missing"})
               [] site.clone = "unsafe" -> Block(r, "blocked", {"unsafe-clone-url"})
               [] OTHER -> r
        ELSE IF site.node = "file" THEN Block(r, "blocked", {"path-not-directory"})
        ELSE IF HandoffPolicy(q) = None THEN Block(r, "blocked", {"invalid-policy"})
        ELSE IF Blocked(s) THEN s
        ELSE sourceRemote(s)

-----------------------------------------------------------------------------
(***************************************************************************)
(* The gate.                                                               *)
(***************************************************************************)

Goto(p, label) == pc' = [pc EXCEPT ![p] = label]

Reach(p, r, label) == rep' = [rep EXCEPT ![p] = r] /\ Goto(p, label)

Begin(p, q) ==
    /\ pc[p] = "idle"
    /\ site \in Shared \/ \A o \in Proc : pc[o] = "idle"
    /\ req' = [req EXCEPT ![p] = q]
    /\ Goto(p, "look")
    /\ UNCHANGED <<site, remote, table, fetchHead, rep, pol, prepared, judgedOn, quiet>>

Asks(q, policy) == q.base = None /\ policy.base = None

Look(p) ==
    /\ pc[p] = "look"
    /\ IsProject(req[p]) \/ site.node # "absent"
    /\ LET q == req[p]
           r == IF IsProject(q) THEN LookProject(q) ELSE LookHandoff(q)
           policy == IF IsProject(q) THEN SourcePolicy ELSE HandoffPolicy(q)
           next == IF q.kind # "tree" /\ Asks(q, policy) THEN "default"
                   ELSE IF IsProject(q) THEN "judge" ELSE "fetch"
       IN  IF Blocked(r)
           THEN Reach(p, r, "done") /\ UNCHANGED pol
           ELSE Reach(p, r, next) /\ pol' = [pol EXCEPT ![p] = policy]
    /\ UNCHANGED <<site, remote, table, fetchHead, req, prepared, judgedOn, quiet>>

\* EvaluateHandoff without a source checkout turns to the remote.
LookMissing(p) ==
    /\ pc[p] = "look"
    /\ ~IsProject(req[p]) /\ site.node = "absent"
    /\ LET r == LookHandoff(req[p])
       IN  Reach(p, r, IF Blocked(r) THEN "done"
                       ELSE IF req[p].base = None THEN "remote_default" ELSE "list")
    /\ UNCHANGED <<site, remote, table, fetchHead, req, pol, prepared, judgedOn, quiet>>

Unreachable(p) == Reach(p, Block(rep[p], "stale", {"fetch-failed"}), "done")

AfterDefault(p) == IF IsProject(req[p]) THEN "judge" ELSE "fetch"

\* git ls-remote --symref: the default branch, or main if none is advertised.
AskDefault(p) ==
    /\ pc[p] = "default"
    /\ \/ Unreachable(p)
       \/ Reach(p, [rep[p] EXCEPT !.base = IF site.head = None THEN Main ELSE site.head],
                AfterDefault(p))
    /\ UNCHANGED <<site, remote, table, fetchHead, req, pol, prepared, judgedOn, quiet>>

\* The commands that failed without a report: an error, and nothing recorded.
Fail(p) == Goto(p, "failed") /\ UNCHANGED rep

MissingBase(p) == Reach(p, Block(rep[p], "blocked", {"missing-base"}), "done")

AskRemoteDefault(p) ==
    /\ pc[p] = "remote_default"
    /\ \/ Unreachable(p)
       \/ /\ site.head = None
          /\ Reach(p, [rep[p] EXCEPT !.base = Main], "list")
       \/ /\ site.head # None
          /\ Reach(p, [rep[p] EXCEPT !.base = site.head], "probe_default")
    /\ UNCHANGED <<site, remote, table, fetchHead, req, pol, prepared, judgedOn, quiet>>

\* The policy of the default branch names the base; a clone that fails is ignored,
\* a policy that does not parse is not.
ProbeDefault(p) ==
    /\ pc[p] = "probe_default"
    /\ \/ Goto(p, "list") /\ UNCHANGED rep
       \/ /\ tip[rep[p].base] # None
          /\ LET policy == PolicyAt(tip[rep[p].base])
             IN  IF policy = None THEN Fail(p)
                 ELSE Reach(p, WithBase(rep[p], policy, None), "list")
    /\ UNCHANGED <<site, remote, table, fetchHead, req, pol, prepared, judgedOn, quiet>>

InvalidBase(p) ==
    /\ rep[p].base = Malformed
    /\ Reach(p, Block(rep[p], "blocked", {"invalid-base"}), "done")

\* git ls-remote of the base: the commit that counts as fetched.
List(p) ==
    /\ pc[p] = "list"
    /\ \/ InvalidBase(p)
       \/ /\ rep[p].base # Malformed
          /\ \/ Unreachable(p)
             \/ tip[rep[p].base] = None /\ MissingBase(p)
             \/ /\ tip[rep[p].base] # None
                /\ Reach(p, [rep[p] EXCEPT !.fetchedBase = rep[p].base,
                                           !.fetchedCommit = tip[rep[p].base]], "probe")
    /\ UNCHANGED <<site, remote, table, fetchHead, req, pol, prepared, judgedOn, quiet>>

\* policyFromRemoteBase clones the base again, to read its policy.
Probe(p) ==
    /\ pc[p] = "probe"
    /\ LET c == tip[rep[p].base]
       IN  \/ /\ Reach(p, Block(rep[p], "blocked", {"invalid-policy"}), "done")
              /\ UNCHANGED <<pol, judgedOn>>
           \/ /\ Readable(c)
              /\ Reach(p, rep[p], "judge")
              /\ pol' = [pol EXCEPT ![p] = PolicyAt(c)]
              /\ judgedOn' = [judgedOn EXCEPT ![p] = c]
    /\ UNCHANGED <<site, remote, table, fetchHead, req, prepared, quiet>>

\* git fetch of the base into the FETCH_HEAD of the source checkout.  A fetch that
\* fails may leave FETCH_HEAD as it was, or empty.
Reading == {"resolve", "show"}

Fetched(p, head) ==
    /\ fetchHead' = head
    /\ quiet' = [q \in Proc |-> q = p \/ (quiet[q] /\ pc[q] \notin Reading)]

Fetch(p) ==
    /\ pc[p] = "fetch"
    /\ \/ InvalidBase(p) /\ UNCHANGED <<fetchHead, quiet>>
       \/ /\ rep[p].base # Malformed
          /\ \/ Unreachable(p) /\ \E h \in {fetchHead, None} : Fetched(p, h)
             \/ /\ tip[rep[p].base] = None
                /\ MissingBase(p)
                /\ \E h \in {fetchHead, None} : Fetched(p, h)
             \/ /\ tip[rep[p].base] # None
                /\ Reach(p, rep[p], "resolve")
                /\ Fetched(p, tip[rep[p].base])
    /\ UNCHANGED <<site, remote, table, req, pol, prepared, judgedOn>>

\* Mutant: the arguments of merge-base the wrong way round.
Fresher(r) ==
    LET own == site.heads[r.base]
    IN  IF own # None /\ own \notin Before[r.fetchedCommit]
        THEN [Warn(r, {"stale-checkout"}) EXCEPT !.state = "stale"]
        ELSE r

\* Warns when the local base branch lacks the fetched commit.
Freshness(r) ==
    LET own == site.heads[r.base]
    IN  IF own # None /\ r.fetchedCommit \notin Before[own]
        THEN [Warn(r, {"stale-checkout"}) EXCEPT !.state = "stale"]
        ELSE r

\* git rev-parse FETCH_HEAD, and merge-base --is-ancestor.
Resolve(p) ==
    /\ pc[p] = "resolve"
    /\ \/ fetchHead = None /\ MissingBase(p)
       \/ /\ fetchHead # None
          /\ Reach(p, Freshness([rep[p] EXCEPT !.fetchedBase = rep[p].base,
                                               !.fetchedCommit = fetchHead]),
                   IF IsProject(req[p]) THEN "done" ELSE "show")
    /\ UNCHANGED <<site, remote, table, fetchHead, req, pol, prepared, judgedOn, quiet>>

\* Mutant: judge the handoff by the policy of the source checkout.
ShowSourcePolicy(p) ==
    /\ pc[p] = "show"
    /\ Reach(p, rep[p], "judge")
    /\ UNCHANGED <<site, remote, table, fetchHead, req, pol, prepared, judgedOn, quiet>>

\* git show FETCH_HEAD:.codemesh.yml
ShowPolicy(p) ==
    /\ pc[p] = "show"
    /\ \/ /\ ~Readable(fetchHead)
          /\ Reach(p, Block(rep[p], "blocked", {"invalid-policy"}), "done")
          /\ UNCHANGED <<pol, judgedOn>>
       \/ /\ Readable(fetchHead)
          /\ Reach(p, rep[p], "judge")
          /\ pol' = [pol EXCEPT ![p] = PolicyAt(fetchHead)]
          /\ judgedOn' = [judgedOn EXCEPT ![p] = fetchHead]
    /\ UNCHANGED <<site, remote, table, fetchHead, req, prepared, quiet>>

\* An unsafe clone source is refused behind the gate, before anything is made.
Refused(p) == req[p].kind = "prepare" /\ site.clone = "unsafe"

\* Only EvaluateProject goes on, to the remote, when the tools block.
Judge(p) ==
    /\ pc[p] = "judge"
    /\ LET r == Requirements(p, rep[p], pol[p])
           goesOn == req[p].kind = "status" /\ ~Blocked(checkEnvReadiness(p, rep[p], pol[p]))
           admits == req[p].kind = "prepare" /\ ~Blocked(r)
       IN  \/ goesOn /\ Reach(p, r, "fetch")
           \/ ~goesOn /\ ~admits /\ Reach(p, r, "done")
           \/ admits /\ Refused(p) /\ Reach(p, [r EXCEPT !.block = {"unsafe-clone-url"}], "done")
           \/ admits /\ ~Refused(p) /\ Reach(p, r, "clone")
    /\ UNCHANGED <<site, remote, table, fetchHead, req, pol, prepared, judgedOn, quiet>>

-----------------------------------------------------------------------------
(***************************************************************************)
(* agent prepare behind the gate.                                          *)
(***************************************************************************)

\* Whatever ends the command before the row is recorded removes the run directory
\* with the workspace and the bundle in it.
Discard(p) ==
    /\ clone' = [clone EXCEPT ![p] = None]
    /\ bundle' = [bundle EXCEPT ![p] = {}]
    /\ UNCHANGED <<contract, admitted>>

Break(p) == Fail(p) /\ Discard(p)

Deny(p, codes) ==
    /\ Reach(p, [rep[p] EXCEPT !.block = @ \cup codes], "done")
    /\ Discard(p)

\* Mutant: the clone checks out the default branch of the remote.
DefaultCommit(p) == IF site.head = None THEN tip[Main] ELSE tip[site.head]

\* git clone --branch checks out the base as it is by now.
ClonedCommit(p) == tip[rep[p].base]

\* The clone, its HEAD and the policy in it.
Clone(p) ==
    /\ pc[p] = "clone"
    /\ LET c == ClonedCommit(p)
       IN  \/ Break(p) /\ UNCHANGED pol
           \/ /\ c # None
              /\ ~Readable(c)
              /\ Deny(p, {"invalid-policy"}) /\ UNCHANGED pol
           \/ /\ Readable(c)
              /\ Goto(p, IF req[p].provider = "none" \/ PolicyAt(c).keys = {}
                         THEN "record" ELSE "bind")
              /\ pol' = [pol EXCEPT ![p] = PolicyAt(c)]
              /\ clone' = [clone EXCEPT ![p] = c]
              /\ UNCHANGED <<rep, bundle, contract, admitted>>
    /\ UNCHANGED <<site, remote, table, fetchHead, req, judgedOn, quiet>>

scopesIntersect(allowed, bound) == allowed \cap bound # {}

\* Mutant: a binding is enough, whatever its scopes.
AnyScope(p) == {k \in pol[p].keys : bindings[k] # {}}

selectBindings(p) == {k \in pol[p].keys : scopesIntersect(req[p].scopes, bindings[k])}

\* Materializer.Materialize, up to the selection: all required keys or none.
Bind(p) ==
    /\ pc[p] = "bind"
    /\ \/ req[p].provider # "fake" /\ Deny(p, {"env-provider-unsupported"})
       \/ /\ req[p].provider = "fake"
          /\ pol[p].keys # selectBindings(p)
          /\ Deny(p, {IF bindings[k] = {} THEN "missing-env-binding" ELSE "env-scope-denied" :
                         k \in pol[p].keys \ selectBindings(p)})
       \/ /\ req[p].provider = "fake"
          /\ pol[p].keys = selectBindings(p)
          /\ Goto(p, "write")
          /\ admitted' = [admitted EXCEPT ![p] =
                            {k \in Key : scopesIntersect(req[p].scopes, bindings[k])}]
          /\ UNCHANGED <<rep, clone, bundle, contract>>
    /\ UNCHANGED <<site, remote, table, fetchHead, req, pol, judgedOn, quiet>>

\* Provider.Resolve and WriteBundle, of the bindings selected before.
Write(p) ==
    /\ pc[p] = "write"
    /\ \/ Break(p)
       \/ /\ Goto(p, "record")
          /\ bundle' = [bundle EXCEPT ![p] = pol[p].keys]
          /\ UNCHANGED <<rep, clone, contract, admitted>>
    /\ UNCHANGED <<site, remote, table, fetchHead, req, pol, judgedOn, quiet>>

\* normalizeBaseProvenance: a gate that fetched nothing is taken at the clone's word.
Provenance(p) ==
    IF rep[p].fetchedBase = None /\ rep[p].fetchedCommit = None
    THEN [base |-> rep[p].base, commit |-> clone[p]]
    ELSE [base |-> rep[p].fetchedBase, commit |-> rep[p].fetchedCommit]

\* agentcontract.New; what matches is decided from the normalized provenance.
NewContract(p) ==
    LET fetched == Provenance(p)
    IN  [base |-> rep[p].base, fetchedBase |-> fetched.base,
         fetchedCommit |-> fetched.commit, head |-> clone[p],
         matches |-> fetched.commit # None /\ fetched.commit = clone[p],
         requires |-> pol[p].keys,
         env |-> IF bundle[p] = {} THEN "not_requested" ELSE "materialized"]

\* The contract file and the row.
Record(p) ==
    /\ pc[p] = "record"
    /\ \/ Break(p)
       \/ /\ Goto(p, "done")
          /\ contract' = [contract EXCEPT ![p] = NewContract(p)]
          /\ UNCHANGED <<rep, clone, bundle, admitted>>
    /\ UNCHANGED <<site, remote, table, fetchHead, req, pol, judgedOn, quiet>>

\* The invocation has printed its result; nothing here reads the run any more.
Unused == [kind |-> "tree", base |-> None, keys |-> {}, provider |-> "none", scopes |-> {}]

Exit(p) ==
    /\ pc[p] \in {"done", "failed"}
    /\ Goto(p, "gone")
    /\ req' = [req EXCEPT ![p] = Unused]
    /\ rep' = [rep EXCEPT ![p] = NewReport(None)]
    /\ pol' = [pol EXCEPT ![p] = Defaults]
    /\ clone' = [clone EXCEPT ![p] = None]
    /\ bundle' = [bundle EXCEPT ![p] = {}]
    /\ contract' = [contract EXCEPT ![p] = NoContract]
    /\ admitted' = [admitted EXCEPT ![p] = {}]
    /\ judgedOn' = [judgedOn EXCEPT ![p] = None]
    /\ quiet' = [quiet EXCEPT ![p] = TRUE]
    /\ UNCHANGED <<site, remote, table, fetchHead>>

-----------------------------------------------------------------------------
(***************************************************************************)
(* The surroundings.                                                       *)
(***************************************************************************)

\* Others push: a branch moves forward to a commit it never was at.
Push(b, c) ==
    /\ pushes < MaxPushes
    /\ tip[b] # None => tip[b] \in Before[c]
    /\ c \notin tips[b]
    /\ tip' = [tip EXCEPT ![b] = c]
    /\ tips' = [tips EXCEPT ![b] = @ \cup {c}]
    /\ pushes' = pushes + 1
    /\ UNCHANGED <<site, table, fetchHead, pc, req, rep, pol, prepared, judgedOn, quiet>>

\* codemesh env bind: UpsertEnvBinding replaces the scopes of a binding.
EnvBind(k, scopes) ==
    /\ binds < MaxBinds
    /\ bindings' = [bindings EXCEPT ![k] = scopes]
    /\ binds' = binds + 1
    /\ UNCHANGED <<site, remote, fetchHead, pc, req, rep, pol, prepared, judgedOn, quiet>>

Init ==
    /\ site \in Sites
    /\ tip = Hosted
    /\ bindings = [k \in Key |-> {}]
    /\ fetchHead = None
    /\ pc = [p \in Proc |-> "idle"]
    /\ req = [p \in Proc |-> Unused]
    /\ rep = [p \in Proc |-> NewReport(None)]
    /\ pol = [p \in Proc |-> Defaults]
    /\ clone = [p \in Proc |-> None]
    /\ bundle = [p \in Proc |-> {}]
    /\ contract = [p \in Proc |-> NoContract]
    /\ pushes = 0
    /\ binds = 0
    /\ tips = [b \in Branch |-> {Hosted[b]} \ {None}]
    /\ judgedOn = [p \in Proc |-> None]
    /\ quiet = [p \in Proc |-> TRUE]
    /\ admitted = [p \in Proc |-> {}]

Step(p) ==
    \/ \E q \in IF site \in Shared THEN Together ELSE CommandLine : Begin(p, q)
    \/ Look(p) \/ LookMissing(p) \/ AskDefault(p) \/ AskRemoteDefault(p) \/ ProbeDefault(p)
    \/ List(p) \/ Probe(p) \/ Fetch(p) \/ Resolve(p) \/ ShowPolicy(p) \/ Judge(p)
    \/ Clone(p) \/ Bind(p) \/ Write(p) \/ Record(p) \/ Exit(p)

Next ==
    \/ \E p \in Proc : Step(p)
    \/ \E b \in Branch, c \in Commit : Push(b, c)
    \/ \E k \in Key, scopes \in (SUBSET Scope) \ {{}} : EnvBind(k, scopes)

Spec == Init /\ [][Next]_vars

-----------------------------------------------------------------------------
(***************************************************************************)
(* Properties.                                                             *)
(***************************************************************************)

TypeOK ==
    /\ site \in Site
    /\ tip \in [Branch -> Commit \cup {None}]
    /\ bindings \in [Key -> SUBSET Scope]
    /\ fetchHead \in Commit \cup {None}
    /\ pc \in [Proc -> PC]
    /\ req \in [Proc -> Request]
    /\ rep \in [Proc -> Report]
    /\ pol \in [Proc -> Policy]
    /\ clone \in [Proc -> Commit \cup {None}]
    /\ bundle \in [Proc -> SUBSET Key]
    /\ contract \in [Proc -> Contract \cup {NoContract}]
    /\ pushes \in 0..MaxPushes
    /\ binds \in 0..MaxBinds
    /\ tips \in [Branch -> SUBSET Commit]
    /\ judgedOn \in [Proc -> Commit \cup {None}]
    /\ quiet \in [Proc -> BOOLEAN]
    /\ admitted \in [Proc -> SUBSET Key]

\* What the policy of c demands in block mode is there for the agent.
Met(p, c) ==
    LET policy == PolicyAt(c)
    IN  /\ policy.envMode = "block" => /\ policy.files \subseteq FilesPresent
                                       /\ policy.keys \subseteq req[p].keys \cup bundle[p]
        /\ policy.toolMode = "block" => \A t \in policy.tools : HostDetect(t) = "present"

\* A recorded run whose contract says that its workspace matches what was fetched has
\* everything the policy of that workspace demands (files: those of the source
\* directory, where the gate looks for them), although the gate read a policy
\* before the clone and others push in between, as long as no other invocation
\* fetched into the same source checkout while the gate was reading FETCH_HEAD.
MatchedRunMeetsItsPolicy ==
    \A p \in Proc : Recorded(p) /\ contract[p].matches /\ quiet[p] => Met(p, contract[p].head)

\* docs/state.md:188: the gate applies the policy from the fetched base.  The same,
\* whoever else uses the source checkout.
GateAppliesFetchedPolicy ==
    \A p \in Proc : Recorded(p) /\ contract[p].matches => Met(p, contract[p].head)

\* The base provenance of a contract: the workspace is at a commit that the selected
\* base pointed to, so is the fetched commit unless another fetch came between,
\* and they differ only if the base moved.
ProvenanceTrue ==
    \A p \in Proc : Recorded(p) =>
        LET c == contract[p]
        IN  /\ c.head \in tips[c.base]
            /\ c.fetchedBase = c.base
            /\ c.matches <=> c.fetchedCommit = c.head
            /\ quiet[p] => c.fetchedCommit \in tips[c.base]
            /\ c.matches \/ ~quiet[p] \/ c.head \notin {Hosted[c.base]}

\* The env bundle of an agent: only secrets whose binding admitted the request, all
\* those the policy of the workspace asks for, and none left behind by a prepare
\* that was refused or broke off.
BundleWholeAndScoped ==
    \A p \in Proc :
        /\ bundle[p] \subseteq admitted[p]
        /\ bundle[p] # {} => bundle[p] = PolicyAt(clone[p]).keys
        /\ Recorded(p) => /\ contract[p].requires = PolicyAt(contract[p].head).keys
                          /\ req[p].provider # "none" => bundle[p] = contract[p].requires
        /\ pc[p] \in {"done", "failed"} /\ ~Recorded(p) => bundle[p] = {} /\ clone[p] = None

\* workspaceState of the status and tree commands.
WorkspaceBlocker == {"path-not-directory", "git-status-failed", "invalid-placeholder",
                     "placeholder-mismatch", "placeholder-local-changes"}

workspaceState(r) ==
    CASE r.state \in {"missing", "placeholder"} -> r.state
      [] r.state = "blocked" /\ r.onDisk /\ r.block \cap WorkspaceBlocker # {} -> "blocked"
      [] OTHER -> IF r.onDisk THEN "hydrated" ELSE "missing"

ReadinessExitClass(r) ==
    CASE r.block # {} -> "readiness-blocked"
      [] r.block = {} /\ r.warn # {} -> "readiness-warning"
      [] OTHER -> "success"

\* What status and tree end with says what is at the path, whatever else the checks
\* found: a checkout is hydrated though it blocks, and what is no checkout passes for
\* one only inside another work tree, or by a policy file that does not parse.  Success
\* is said of a clean work tree that has all its policy asks for, before the agent's
\* gate, and no tool, which status cannot see; and if a base was fetched, of a base
\* that the local branch of that name, if there is one, is not behind.
StatusTellsThePath ==
    \A p \in Proc : pc[p] = "done" /\ IsProject(req[p]) =>
        LET told == workspaceState(rep[p])
            success == ReadinessExitClass(rep[p]) = "success"
        IN  /\ site.node = "absent" <=> told = "missing"
            /\ site.node = "owned" <=> told = "placeholder"
            /\ site.node = "checkout" => told = "hydrated"
            /\ told = "hydrated" =>
                  \/ site.node = "checkout"
                  \/ site.node = "plain" /\ (site.git = "outer" \/ SourcePolicy = None)
            /\ rep[p].state \in {"present", "dirty"} => rep[p].block = {}
            /\ success => /\ told = "hydrated" /\ site.git # "none" /\ ~site.dirty
                          /\ SourcePolicy.tools = {}
                          /\ SourcePolicy.files \subseteq site.files
                          /\ SourcePolicy.keys \subseteq req[p].keys
            /\ success /\ req[p].kind = "status" =>
                  /\ site.origin = "registered"
                  /\ site.heads[rep[p].base] # None =>
                        rep[p].fetchedCommit \in Before[site.heads[rep[p].base]]
                  /\ quiet[p] => rep[p].fetchedCommit \in tips[rep[p].base]
=============================================================================
