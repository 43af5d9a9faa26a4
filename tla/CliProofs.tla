------------------------------ MODULE CliProofs ------------------------------
(***************************************************************************)
(* Proofs about Cli, for any numbers of people, commands and keys, any     *)
(* limit of two or more and any number of faults: types, the quota of keys *)
(* of a person, consent to what a device flow hands out, the clean-up of a *)
(* command that failed, and logouts that hold.                             *)
(***************************************************************************)
EXTENDS Cli, FiniteSetTheorems, TLAPS

-----------------------------------------------------------------------------
(* The inductive invariant.                                                *)

Pcs == {"new", "active", "stored", "verify", "cached", "compare", "recheck", "recompare",
        "device", "poll", "issue", "identify", "load", "save", "activate", "track", "link",
        "restore", "revoke", "giveUp", "descendants", "match", "drop", "untrack", "forget",
        "inactive", "deactivate", "done", "failed", "crashed"}

\* Before a key could be issued to the command.
Early == {"new", "active", "stored", "verify", "cached", "compare", "recheck", "recompare",
          "device", "poll", "issue"}

Proc == [cmd: Commands \cup {None}, pc: Pcs, account: Users \cup {None},
         user: Users \cup {None}, with: Nat, key: Nat, old: Nat, relink: BOOLEAN,
         clean: BOOLEAN]
Session == [state: {"none", "pending", "approved", "denied", "expired", "collected"},
            by: Users \cup {None}]
Txn == [user: Users \cup {None}, parent: Nat, child: Nat]

TypeOK ==
  /\ live \in SUBSET Key /\ IsFiniteSet(live)
  /\ issued \in Nat
  /\ writer \in [Users -> BOOLEAN]
  /\ session \in [Processes -> Session]
  /\ txn \in [Processes -> Txn]
  /\ slot \in [Slots -> Nat]
  /\ active \in [{"setup", "personal"} -> Users \cup {None}]
  /\ tracked \in [Users -> Nat]
  /\ proc \in [Processes -> Proc]
  /\ faults \in Nat

\* Which commands come to which point, and what they know there.
Ending == {"logout", "adminLogout"}
Flow(r) ==
  /\ r.pc \in {"active", "stored", "verify"} => r.cmd \in Commands \ {"legacy"}
  /\ r.pc \in {"device", "poll"} => r.cmd \in {"login", "manage", "legacy"}
  /\ r.pc \in {"cached", "compare", "recheck", "recompare", "issue", "track", "link"} => r.cmd = "init"
  /\ r.pc \in {"identify", "load", "save", "restore", "revoke"} => r.cmd \in {"login", "manage", "init"}
  /\ r.pc = "activate" => r.cmd \in {"login", "manage"}
  /\ r.pc \in {"giveUp"} \cup Confirmed => r.cmd \in Ending
  /\ (r.pc \in {"verify", "giveUp"} \cup Confirmed \/ (r.pc = "done" /\ r.cmd \in Ending)) => r.with # 0
  /\ r.pc \in {"stored", "verify", "giveUp", "load", "save", "activate", "track", "restore"} \cup Confirmed =>
       r.user \in Users
  /\ r.pc = "link" /\ r.key # 0 => r.user \in Users
  /\ r.pc \in {"new", "active", "stored"} => r.with = 0
  /\ r.pc \in {"cached", "compare"} /\ r.with # 0 => r.user \in Users
  /\ r.pc \in Early \cup {"giveUp"} \cup Confirmed => r.key = 0
  /\ r.pc \in {"identify", "load", "save", "activate", "track", "restore", "revoke"} => r.key # 0

FlowInv == \A p \in Processes : Flow(proc[p])

\* Every key anybody remembers was issued.
KnownInv ==
  /\ \A s \in Slots : slot[s] <= issued
  /\ \A u \in Users : tracked[u] <= issued
  /\ \A p \in Processes : /\ proc[p].with <= issued
                          /\ proc[p].key <= issued
                          /\ proc[p].old <= issued
                          /\ txn[p].child <= issued

Base == TypeOK /\ FlowInv /\ KnownInv

-----------------------------------------------------------------------------
(* Types, control flow and known keys.                                     *)

LEMMA InitBase == Init => Base
<1> SUFFICES ASSUME Init PROVE Base
  OBVIOUS
<1>1. /\ live \in SUBSET Key /\ IsFiniteSet(live) /\ issued \in Nat /\ slot \in [Slots -> Nat]
      /\ active \in [{"setup", "personal"} -> Users \cup {None}] /\ tracked \in [Users -> Nat]
      /\ \A s \in Slots : slot[s] <= issued
      /\ \A u \in Users : tracked[u] <= issued
  <2>1. CASE Fresh
    BY <2>1, FS_EmptySet DEF Fresh
  <2>2. ASSUME NEW u \in Users, SignedIn(u) PROVE <1>1
    <3>1. live \in SUBSET Key
      BY <2>2 DEF SignedIn, Key, Kinds
    <3>2. IsFiniteSet(live)
      <4> DEFINE a == [id |-> 1, user |-> u, kind |-> "setup", parent |-> 0, via |-> None]
                 b == [id |-> 2, user |-> u, kind |-> "project", parent |-> 1, via |-> None]
      <4>1. live = {a} \cup {b}
        BY <2>2 DEF SignedIn
      <4> HIDE DEF a, b
      <4> QED
        BY <4>1, FS_Singleton, FS_AddElement
    <3> QED
      BY <2>2, <3>1, <3>2 DEF SignedIn
  <2> QED
    BY <2>1, <2>2 DEF Init
<1>2. /\ writer \in [Users -> BOOLEAN] /\ session \in [Processes -> Session]
      /\ txn \in [Processes -> Txn] /\ proc \in [Processes -> Proc] /\ faults \in Nat
  BY DEF Init, NoSession, Session, NoTxn, Txn, New, Proc, Pcs
<1>3. FlowInv
  BY DEF Init, FlowInv, Flow, New, Early, Confirmed
<1>4. \A p \in Processes : /\ proc[p].with <= issued /\ proc[p].key <= issued
                           /\ proc[p].old <= issued /\ txn[p].child <= issued
  BY <1>1 DEF Init, New, NoTxn
<1> QED
  BY <1>1, <1>2, <1>3, <1>4 DEF Base, TypeOK, KnownInv

LEMMA FlowOf == ASSUME Base, NEW p \in Processes PROVE Flow(proc[p]) /\ proc[p] \in Proc
BY DEF Base, TypeOK, FlowInv

\* The step keeps the types and the flow of the commands.
Flows == proc' \in [Processes -> Proc] /\ FlowInv'

LEMMA Moved ==
  ASSUME Base, NEW p \in Processes, NEW r \in Proc, Flow(r), proc' = [proc EXCEPT ![p] = r]
  PROVE  Flows
BY DEF Base, TypeOK, FlowInv, Flows

LEMMA Going ==
  ASSUME Base, NEW p \in Processes, NEW pc \in Pcs, Goto(p, pc), Flow([proc[p] EXCEPT !.pc = pc])
  PROVE  Flows
<1> DEFINE r == [proc[p] EXCEPT !.pc = pc]
<1>1. r \in Proc
  BY FlowOf DEF Proc
<1>2. proc' = [proc EXCEPT ![p] = r]
  BY DEF Base, TypeOK, Proc, Goto
<1> QED
  BY <1>1, <1>2, Moved

LEMMA Failing ==
  ASSUME Base, NEW p \in Processes, Goto(p, "failed")
  PROVE  Flows
<1>1. Flow([proc[p] EXCEPT !.pc = "failed"])
  BY DEF Flow, Early, Confirmed, Base, TypeOK, Proc
<1> QED
  BY <1>1, Going DEF Pcs


LEMMA StartFlows == ASSUME Base, NEW p \in Processes, NEW cmd \in Commands,
         NEW account \in Users \cup {None}, NEW relink \in BOOLEAN, Start(p, cmd, account, relink) PROVE Flows
<1>1. PICK pc \in {"device", "active"} :
       /\ proc' = [proc EXCEPT ![p].cmd = cmd, ![p].account = account, ![p].user = account,
                               ![p].relink = relink, ![p].pc = pc]
       /\ pc = "device" <=> cmd = "legacy"
  BY FlowOf DEF Start, Flow, At, Commands
<1> DEFINE r == [proc[p] EXCEPT !.cmd = cmd, !.account = account, !.user = account,
                                !.relink = relink, !.pc = pc]
<1>2. pc \in Pcs
  BY DEF Pcs
<1>3. r \in Proc
  BY FlowOf, <1>2 DEF Proc
<1>4. Flow(r)
  BY FlowOf, <1>1 DEF Start, At, Flow, Early, Confirmed, Ending, Proc, Commands
<1>5. proc' = [proc EXCEPT ![p] = r]
  BY FlowOf, <1>1 DEF Base, TypeOK, Proc
<1> QED
  BY <1>3, <1>4, <1>5, Moved

LEMMA ReadActiveFlows == ASSUME Base, NEW p \in Processes, ReadActive(p) PROVE Flows
<1> DEFINE u == IF proc[p].account # None THEN proc[p].account ELSE active[LoginOf(proc[p].cmd)]
<1>1. u \in Users \cup {None}
  BY FlowOf DEF Base, TypeOK, Flow, ReadActive, At, Confirmed, Proc, LoginOf, KindOf, Commands
<1>2. PICK pc \in {"stored", "device", "cached", "failed"} :
       /\ proc' = [proc EXCEPT ![p].user = u, ![p].pc = pc]
       /\ pc = "stored" => u \in Users
       /\ pc = "device" => proc[p].cmd \in {"login", "manage"}
       /\ pc = "cached" => proc[p].cmd = "init"
  BY FlowOf, <1>1 DEF ReadActive, Flow, At, Commands, Without
<1> HIDE DEF u
<1> DEFINE r == [proc[p] EXCEPT !.user = u, !.pc = pc]
<1>3. pc \in Pcs
  BY DEF Pcs
<1>4. r \in Proc
  BY FlowOf, <1>1, <1>3 DEF Proc
<1>5. Flow(r)
  BY FlowOf, <1>1, <1>2 DEF ReadActive, At, Flow, Early, Confirmed, Ending, Proc, Commands
<1>6. proc' = [proc EXCEPT ![p] = r]
  BY FlowOf, <1>1, <1>2 DEF Base, TypeOK, Proc
<1> QED
  BY <1>4, <1>5, <1>6, Moved

LEMMA ReadStoredFlows == ASSUME Base, NEW p \in Processes, ReadStored(p) PROVE Flows
<1> DEFINE id == slot[<<LoginOf(proc[p].cmd), proc[p].user>>]
<1>1. id \in Nat
  BY FlowOf DEF Base, TypeOK, Flow, ReadStored, At, Confirmed, Slots, LoginOf, KindOf, Commands
<1>2. PICK pc \in {"device", "cached", "failed", "giveUp", "verify"} :
       /\ proc' = [proc EXCEPT ![p].with = id, ![p].pc = pc]
       /\ pc = "device" => proc[p].cmd \in {"login", "manage"}
       /\ pc = "cached" => proc[p].cmd = "init"
       /\ pc = "giveUp" => proc[p].cmd = "logout"
       /\ pc \in {"giveUp", "verify"} => id # 0
  BY FlowOf, <1>1 DEF ReadStored, Flow, At, Commands, Without
<1> HIDE DEF id
<1> DEFINE r == [proc[p] EXCEPT !.with = id, !.pc = pc]
<1>3. pc \in Pcs
  BY DEF Pcs
<1>4. r \in Proc
  BY FlowOf, <1>1, <1>3 DEF Proc
<1>5. Flow(r)
  BY FlowOf, <1>1, <1>2 DEF ReadStored, At, Flow, Early, Confirmed, Ending, Proc, Commands
<1>6. proc' = [proc EXCEPT ![p] = r]
  BY FlowOf, <1>1, <1>2 DEF Base, TypeOK, Proc
<1> QED
  BY <1>4, <1>5, <1>6, Moved

LEMMA VerifyFlows == ASSUME Base, NEW p \in Processes, Verify(p) PROVE Flows
<1>1. PICK pc \in {"done", "recheck", "giveUp", "failed", "device"} :
       /\ Goto(p, pc)
       /\ pc = "recheck" => proc[p].cmd = "init"
       /\ pc = "giveUp" => proc[p].cmd = "adminLogout"
       /\ pc \in {"done", "device"} => proc[p].cmd \in {"login", "manage"}
  BY FlowOf DEF Verify, Flow, At, Commands, Confirmed, Ending, Early, Without
<1>2. Flow([proc[p] EXCEPT !.pc = pc])
  BY FlowOf, <1>1 DEF Verify, At, Flow, Early, Confirmed, Ending, Proc, Commands, Without
<1> QED
  BY <1>1, <1>2, Going DEF Pcs

LEMMA ReadCachedFlows == ASSUME Base, NEW p \in Processes, ReadCached(p) PROVE Flows
<1> DEFINE id == slot[Project]
<1>1. id \in Nat
  BY FlowOf DEF Base, TypeOK, Flow, ReadCached, At, Confirmed, Slots
<1>2. PICK pc \in {"compare", "recompare"} :
       /\ proc' = [proc EXCEPT ![p].old = id, ![p].pc = pc]
       /\ pc = "compare" <=> proc[p].pc = "cached"
  BY FlowOf, <1>1 DEF ReadCached, Flow, At, Commands
<1> HIDE DEF id
<1> DEFINE r == [proc[p] EXCEPT !.old = id, !.pc = pc]
<1>3. pc \in Pcs
  BY DEF Pcs
<1>4. r \in Proc
  BY FlowOf, <1>1, <1>3 DEF Proc
<1>5. Flow(r)
  BY FlowOf, <1>1, <1>2 DEF ReadCached, At, Flow, Early, Confirmed, Ending, Proc, Commands
<1>6. proc' = [proc EXCEPT ![p] = r]
  BY FlowOf, <1>1, <1>2 DEF Base, TypeOK, Proc
<1> QED
  BY <1>4, <1>5, <1>6, Moved

LEMMA CheckCachedFlows == ASSUME Base, NEW p \in Processes, CheckCached(p) PROVE Flows
<1>1. PICK pc \in {"issue", "verify", "failed", "link"} :
       /\ Goto(p, pc)
       /\ pc = "verify" => proc[p].with # 0 /\ proc[p].user \in Users
  BY FlowOf DEF CheckCached, Flow, At, Commands, Confirmed, Ending, Early
<1>2. Flow([proc[p] EXCEPT !.pc = pc])
  BY FlowOf, <1>1 DEF CheckCached, At, Flow, Early, Confirmed, Ending, Proc, Commands
<1> QED
  BY <1>1, <1>2, Going DEF Pcs

LEMMA CreateCLISessionFlows == ASSUME Base, NEW p \in Processes, CreateCLISession(p) PROVE Flows
<1>1. PICK pc \in {"poll"} : Goto(p, pc)
  BY FlowOf DEF CreateCLISession, Flow, At, Commands, Confirmed, Ending, Early
<1>2. Flow([proc[p] EXCEPT !.pc = pc])
  BY FlowOf, <1>1 DEF CreateCLISession, At, Flow, Early, Confirmed, Ending, Proc, Commands
<1> QED
  BY <1>1, <1>2, Going DEF Pcs

LEMMA PollRefusedFlows == ASSUME Base, NEW p \in Processes, PollRefused(p) PROVE Flows
<1>1. PICK pc \in {"failed"} : Goto(p, pc)
  BY FlowOf DEF PollRefused, Flow, At, Commands, Confirmed, Ending, Early
<1>2. Flow([proc[p] EXCEPT !.pc = pc])
  BY FlowOf, <1>1 DEF PollRefused, At, Flow, Early, Confirmed, Ending, Proc, Commands
<1> QED
  BY <1>1, <1>2, Going DEF Pcs

LEMMA CollectDeniedFlows == ASSUME Base, NEW p \in Processes, CollectDenied(p) PROVE Flows
<1>1. PICK pc \in {"failed"} : Goto(p, pc)
  BY FlowOf DEF CollectDenied, Flow, At, Commands, Confirmed, Ending, Early
<1>2. Flow([proc[p] EXCEPT !.pc = pc])
  BY FlowOf, <1>1 DEF CollectDenied, At, Flow, Early, Confirmed, Ending, Proc, Commands
<1> QED
  BY <1>1, <1>2, Going DEF Pcs

LEMMA CollectBeginFlows == ASSUME Base, NEW p \in Processes, CollectBegin(p) PROVE Flows
<1>1. CASE UNCHANGED proc
  BY <1>1 DEF Base, TypeOK, FlowInv, Flows
<1>2. CASE Goto(p, "failed")
  BY <1>2, Failing
<1> QED
  BY <1>1, <1>2 DEF CollectBegin

LEMMA IssueBeginFlows == ASSUME Base, NEW p \in Processes, IssueBegin(p) PROVE Flows
<1>1. CASE UNCHANGED proc
  BY <1>1 DEF Base, TypeOK, FlowInv, Flows
<1>2. CASE Goto(p, "failed")
  BY <1>2, Failing
<1> QED
  BY <1>1, <1>2 DEF IssueBegin

LEMMA CollectCommitFlows == ASSUME Base, NEW p \in Processes, CollectCommit(p) PROVE Flows
<1>1. CASE Goto(p, "failed")
  BY <1>1, Failing
<1>2. ASSUME NEW pc \in {"done", "identify"}, pc = "done" <=> proc[p].cmd = "legacy", 
             proc' = [proc EXCEPT ![p].key = issued + 1, ![p].pc = pc]
      PROVE  Flows
  <2> DEFINE r == [proc[p] EXCEPT !.key = issued + 1, !.pc = pc]
  <2>0. issued + 1 \in Nat /\ issued + 1 # 0 /\ pc \in Pcs
    BY DEF Base, TypeOK, Pcs
  <2>1. r \in Proc
    BY <2>0, FlowOf DEF Proc
  <2>2. Flow(r)
    BY <2>0, FlowOf, <1>2 DEF CollectCommit, At, Flow, Early, Confirmed, Ending, Proc, Commands
  <2>3. proc' = [proc EXCEPT ![p] = r]
    BY FlowOf, <1>2 DEF Base, TypeOK, Proc
  <2> QED
    BY <2>1, <2>2, <2>3, Moved
<1> QED
  BY <1>1, <1>2 DEF CollectCommit, Answered

LEMMA IssueCommitFlows == ASSUME Base, NEW p \in Processes, IssueCommit(p) PROVE Flows
<1>1. CASE Goto(p, "failed")
  BY <1>1, Failing
<1>2. ASSUME NEW pc \in {"identify"}, 
             proc' = [proc EXCEPT ![p].key = issued + 1, ![p].pc = pc]
      PROVE  Flows
  <2> DEFINE r == [proc[p] EXCEPT !.key = issued + 1, !.pc = pc]
  <2>0. issued + 1 \in Nat /\ issued + 1 # 0 /\ pc \in Pcs
    BY DEF Base, TypeOK, Pcs
  <2>1. r \in Proc
    BY <2>0, FlowOf DEF Proc
  <2>2. Flow(r)
    BY <2>0, FlowOf, <1>2 DEF IssueCommit, At, Flow, Early, Confirmed, Ending, Proc, Commands
  <2>3. proc' = [proc EXCEPT ![p] = r]
    BY FlowOf, <1>2 DEF Base, TypeOK, Proc
  <2> QED
    BY <2>1, <2>2, <2>3, Moved
<1> QED
  BY <1>1, <1>2 DEF IssueCommit, Answered

LEMMA IdentifyFlows == ASSUME Base, NEW p \in Processes, Identify(p) PROVE Flows
<1>1. ASSUME NEW k \in live, proc' = [proc EXCEPT ![p].user = k.user, ![p].pc = "load"]
      PROVE  Flows
  <2>0. k.user \in Users
    BY DEF Base, TypeOK, Key
  <2> DEFINE r == [proc[p] EXCEPT !.user = k.user, !.pc = "load"]
  <2>1. r \in Proc
    BY ZenonT(40), <2>0, FlowOf DEF Proc, Pcs
  <2>2. Flow(r)
    BY <2>0, FlowOf DEF Identify, At, Flow, Early, Confirmed, Ending, Proc, Commands
  <2>3. proc' = [proc EXCEPT ![p] = r]
    BY FlowOf, <1>1 DEF Base, TypeOK, Proc
  <2> QED
    BY <2>1, <2>2, <2>3, Moved
<1>2. CASE Goto(p, "revoke")
  <2>1. Flow([proc[p] EXCEPT !.pc = "revoke"])
    BY FlowOf DEF Identify, At, Flow, Early, Confirmed, Ending, Proc, Commands
  <2> QED
    BY <1>2, <2>1, Going DEF Pcs
<1> QED
  BY <1>1, <1>2 DEF Identify

LEMMA LoadOldFlows == ASSUME Base, NEW p \in Processes, LoadOld(p) PROVE Flows
<1> DEFINE id == slot[SlotOf(p)]
<1>1. id \in Nat
  BY FlowOf DEF Base, TypeOK, Flow, LoadOld, At, Confirmed, Slots, SlotOf, KindOf, Commands
<1>2. proc' = [proc EXCEPT ![p].old = id, ![p].pc = "save"]
  BY DEF LoadOld
<1> HIDE DEF id
<1> DEFINE r == [proc[p] EXCEPT !.old = id, !.pc = "save"]
<1>3. r \in Proc
  BY ZenonT(40), FlowOf, <1>1 DEF Proc, Pcs
<1>4. Flow(r)
  BY FlowOf, <1>1, <1>2 DEF LoadOld, At, Flow, Early, Confirmed, Ending, Proc, Commands
<1>5. proc' = [proc EXCEPT ![p] = r]
  BY FlowOf, <1>1, <1>2 DEF Base, TypeOK, Proc
<1> QED
  BY <1>3, <1>4, <1>5, Moved

LEMMA SaveFlows == ASSUME Base, NEW p \in Processes, Save(p) PROVE Flows
<1>1. PICK pc \in {"activate", "track", "revoke"} :
       /\ Goto(p, pc)
       /\ pc = "track" => proc[p].cmd = "init"
       /\ pc = "activate" => proc[p].cmd # "init"
  BY FlowOf DEF Save, Flow, At, Commands, Confirmed, Ending, Early, Unsaved
<1>2. Flow([proc[p] EXCEPT !.pc = pc])
  BY FlowOf, <1>1 DEF Save, At, Flow, Early, Confirmed, Ending, Proc, Commands, Unsaved
<1> QED
  BY <1>1, <1>2, Going DEF Pcs

LEMMA ActivateFlows == ASSUME Base, NEW p \in Processes, Activate(p) PROVE Flows
<1>1. PICK pc \in {"done", "restore"} : Goto(p, pc)
  BY FlowOf DEF Activate, Flow, At, Commands, Confirmed, Ending, Early
<1>2. Flow([proc[p] EXCEPT !.pc = pc])
  BY FlowOf, <1>1 DEF Activate, At, Flow, Early, Confirmed, Ending, Proc, Commands
<1> QED
  BY <1>1, <1>2, Going DEF Pcs

LEMMA TrackProjectFlows == ASSUME Base, NEW p \in Processes, TrackProject(p) PROVE Flows
<1>1. PICK pc \in {"link", "restore"} : Goto(p, pc)
  BY FlowOf DEF TrackProject, Flow, At, Commands, Confirmed, Ending, Early
<1>2. Flow([proc[p] EXCEPT !.pc = pc])
  BY FlowOf, <1>1 DEF TrackProject, At, Flow, Early, Confirmed, Ending, Proc, Commands
<1> QED
  BY <1>1, <1>2, Going DEF Pcs

LEMMA LinkDirectoryFlows == ASSUME Base, NEW p \in Processes, LinkDirectory(p) PROVE Flows
<1>1. PICK pc \in {"done", "failed", "restore"} :
       /\ Goto(p, pc)
       /\ pc = "restore" => proc[p].key # 0
  BY FlowOf DEF LinkDirectory, Flow, At, Commands, Confirmed, Ending, Early
<1>2. Flow([proc[p] EXCEPT !.pc = pc])
  BY FlowOf, <1>1 DEF LinkDirectory, At, Flow, Early, Confirmed, Ending, Proc, Commands
<1> QED
  BY <1>1, <1>2, Going DEF Pcs

LEMMA RestoreFlows == ASSUME Base, NEW p \in Processes, Restore(p) PROVE Flows
<1>1. CASE Goto(p, "revoke")
  <2>1. Flow([proc[p] EXCEPT !.pc = "revoke"])
    BY FlowOf DEF Restore, At, Flow, Early, Confirmed, Ending, Proc, Commands
  <2> QED
    BY <1>1, <2>1, Going DEF Pcs
<1>2. CASE proc' = [proc EXCEPT ![p].clean = FALSE, ![p].pc = "revoke"]
  <2> DEFINE r == [proc[p] EXCEPT !.clean = FALSE, !.pc = "revoke"]
  <2>1. r \in Proc
    BY ZenonT(40), FlowOf DEF Proc, Pcs
  <2>2. Flow(r)
    BY FlowOf DEF Restore, At, Flow, Early, Confirmed, Ending, Proc, Commands
  <2>3. proc' = [proc EXCEPT ![p] = r]
    BY FlowOf, <1>2 DEF Base, TypeOK, Proc
  <2> QED
    BY <2>1, <2>2, <2>3, Moved
<1> QED
  BY <1>1, <1>2 DEF Restore

LEMMA RevokeAfterFailureFlows == ASSUME Base, NEW p \in Processes, RevokeAfterFailure(p) PROVE Flows
<1>1. CASE Goto(p, "failed")
  <2>1. Flow([proc[p] EXCEPT !.pc = "failed"])
    BY FlowOf DEF RevokeAfterFailure, At, Flow, Early, Confirmed, Ending, Proc, Commands
  <2> QED
    BY <1>1, <2>1, Going DEF Pcs
<1>2. CASE proc' = [proc EXCEPT ![p].clean = FALSE, ![p].pc = "failed"]
  <2> DEFINE r == [proc[p] EXCEPT !.clean = FALSE, !.pc = "failed"]
  <2>1. r \in Proc
    BY ZenonT(40), FlowOf DEF Proc, Pcs
  <2>2. Flow(r)
    BY FlowOf DEF RevokeAfterFailure, At, Flow, Early, Confirmed, Ending, Proc, Commands
  <2>3. proc' = [proc EXCEPT ![p] = r]
    BY FlowOf, <1>2 DEF Base, TypeOK, Proc
  <2> QED
    BY <2>1, <2>2, <2>3, Moved
<1> QED
  BY <1>1, <1>2 DEF RevokeAfterFailure

LEMMA GiveUpFlows == ASSUME Base, NEW p \in Processes, GiveUp(p) PROVE Flows
<1>1. PICK pc \in {"descendants", "forget", "failed"} : Goto(p, pc)
  BY FlowOf DEF GiveUp, Flow, At, Commands, Confirmed, Ending, Early
<1>2. Flow([proc[p] EXCEPT !.pc = pc])
  BY FlowOf, <1>1 DEF GiveUp, At, Flow, Early, Confirmed, Ending, Proc, Commands
<1> QED
  BY <1>1, <1>2, Going DEF Pcs

LEMMA ReadDescendantsFlows == ASSUME Base, NEW p \in Processes, ReadDescendants(p) PROVE Flows
<1> DEFINE id == tracked[proc[p].user]
<1>1. id \in Nat
  BY FlowOf DEF Base, TypeOK, Flow, ReadDescendants, At, Confirmed
<1>2. PICK pc \in {"untrack", "match"} :
       /\ proc' = [proc EXCEPT ![p].old = id, ![p].pc = pc]
  BY FlowOf, <1>1 DEF ReadDescendants, Flow, At, Commands
<1> HIDE DEF id
<1> DEFINE r == [proc[p] EXCEPT !.old = id, !.pc = pc]
<1>3. pc \in Pcs
  BY DEF Pcs
<1>4. r \in Proc
  BY FlowOf, <1>1, <1>3 DEF Proc
<1>5. Flow(r)
  BY FlowOf, <1>1, <1>2 DEF ReadDescendants, At, Flow, Early, Confirmed, Ending, Proc, Commands
<1>6. proc' = [proc EXCEPT ![p] = r]
  BY FlowOf, <1>1, <1>2 DEF Base, TypeOK, Proc
<1> QED
  BY <1>4, <1>5, <1>6, Moved

LEMMA MatchDescendantFlows == ASSUME Base, NEW p \in Processes, MatchDescendant(p) PROVE Flows
<1>1. PICK pc \in {"drop", "untrack"} : Goto(p, pc)
  BY FlowOf DEF MatchDescendant, Flow, At, Commands, Confirmed, Ending, Early
<1>2. Flow([proc[p] EXCEPT !.pc = pc])
  BY FlowOf, <1>1 DEF MatchDescendant, At, Flow, Early, Confirmed, Ending, Proc, Commands
<1> QED
  BY <1>1, <1>2, Going DEF Pcs

LEMMA DropProjectFlows == ASSUME Base, NEW p \in Processes, DropProject(p) PROVE Flows
<1>1. PICK pc \in {"untrack", "failed"} : Goto(p, pc)
  BY FlowOf DEF DropProject, Flow, At, Commands, Confirmed, Ending, Early, Forgetting
<1>2. Flow([proc[p] EXCEPT !.pc = pc])
  BY FlowOf, <1>1 DEF DropProject, At, Flow, Early, Confirmed, Ending, Proc, Commands, Forgetting
<1> QED
  BY <1>1, <1>2, Going DEF Pcs

LEMMA UntrackFlows == ASSUME Base, NEW p \in Processes, Untrack(p) PROVE Flows
<1>1. PICK pc \in {"forget", "failed"} : Goto(p, pc)
  BY FlowOf DEF Untrack, Flow, At, Commands, Confirmed, Ending, Early, Forgetting
<1>2. Flow([proc[p] EXCEPT !.pc = pc])
  BY FlowOf, <1>1 DEF Untrack, At, Flow, Early, Confirmed, Ending, Proc, Commands, Forgetting
<1> QED
  BY <1>1, <1>2, Going DEF Pcs

LEMMA DeleteLoginFlows == ASSUME Base, NEW p \in Processes, DeleteLogin(p) PROVE Flows
<1>1. PICK pc \in {"inactive", "failed"} : Goto(p, pc)
  BY FlowOf DEF DeleteLogin, Flow, At, Commands, Confirmed, Ending, Early, Forgetting
<1>2. Flow([proc[p] EXCEPT !.pc = pc])
  BY FlowOf, <1>1 DEF DeleteLogin, At, Flow, Early, Confirmed, Ending, Proc, Commands, Forgetting
<1> QED
  BY <1>1, <1>2, Going DEF Pcs

LEMMA DeactivateFlows == ASSUME Base, NEW p \in Processes, Deactivate(p) PROVE Flows
<1>1. PICK pc \in {"done", "failed"} : Goto(p, pc)
  BY FlowOf DEF Deactivate, Flow, At, Commands, Confirmed, Ending, Early, Forgetting
<1>2. Flow([proc[p] EXCEPT !.pc = pc])
  BY FlowOf, <1>1 DEF Deactivate, At, Flow, Early, Confirmed, Ending, Proc, Commands, Forgetting
<1> QED
  BY <1>1, <1>2, Going DEF Pcs

LEMMA ReadActiveAgainFlows == ASSUME Base, NEW p \in Processes, ReadActiveAgain(p) PROVE Flows
<1>1. PICK pc \in {"deactivate", "done"} : Goto(p, pc)
  BY FlowOf DEF ReadActiveAgain, Flow, At, Commands, Confirmed, Ending, Early
<1>2. Flow([proc[p] EXCEPT !.pc = pc])
  BY FlowOf, <1>1 DEF ReadActiveAgain, At, Flow, Early, Confirmed, Ending, Proc, Commands
<1> QED
  BY <1>1, <1>2, Going DEF Pcs

LEMMA CrashFlows == ASSUME Base, NEW p \in Processes, Crash(p) PROVE Flows
<1> DEFINE r == [New EXCEPT !.cmd = proc[p].cmd, !.old = proc[p].old, !.pc = "crashed"]
<1>1. r \in Proc
  BY FlowOf DEF Proc, Pcs, New
<1>2. Flow(r)
  BY DEF Flow, Early, Confirmed, New
<1>3. proc' = [proc EXCEPT ![p] = r]
  BY DEF Crash
<1> QED
  BY <1>1, <1>2, <1>3, Moved

LEMMA FlowStep == Base /\ [Next]_vars => Flows
<1> SUFFICES ASSUME Base, [Next]_vars PROVE Flows
  OBVIOUS
<1>1. CASE UNCHANGED proc
  BY <1>1 DEF Base, TypeOK, FlowInv, Flows
<1>2. Browser => UNCHANGED proc
  BY DEF Browser, CreateAPIToken, ChangeAccess, DeleteAPIToken, DenyCLISession,
     ExpireCLISession, ApproveCLISession
<1>3. ASSUME NEW p \in Processes, Command(p) PROVE Flows
  BY <1>3, StartFlows, ReadActiveFlows, ReadStoredFlows, VerifyFlows, ReadCachedFlows,
     CheckCachedFlows, CreateCLISessionFlows, PollRefusedFlows, CollectDeniedFlows,
     CollectBeginFlows, CollectCommitFlows, IssueBeginFlows, IssueCommitFlows, IdentifyFlows,
     LoadOldFlows, SaveFlows, ActivateFlows, TrackProjectFlows, LinkDirectoryFlows,
     RestoreFlows, RevokeAfterFailureFlows, GiveUpFlows, ReadDescendantsFlows,
     MatchDescendantFlows, DropProjectFlows, UntrackFlows, DeleteLoginFlows,
     ReadActiveAgainFlows, DeactivateFlows, CrashFlows DEF Command
<1> QED
  BY <1>1, <1>2, <1>3 DEF Next, vars


-----------------------------------------------------------------------------
(* Which steps touch the server and which the machine.                     *)

LEMMA ServerSteps ==
  ASSUME [Next]_vars
  PROVE  \/ UNCHANGED server
         \/ \E u \in Users : CreateAPIToken(u)
         \/ \E id \in Ids : DeleteAPIToken(id)
         \/ \E p \in Processes : DenyCLISession(p) \/ ExpireCLISession(p)
         \/ \E p \in Processes, u \in Users : ApproveCLISession(p, u)
         \/ \E p \in Processes : \/ CreateCLISession(p) \/ CollectDenied(p)
                                \/ CollectBegin(p) \/ CollectCommit(p)
                                \/ IssueBegin(p) \/ IssueCommit(p)
                                \/ RevokeAfterFailure(p) \/ GiveUp(p) \/ Crash(p)
<1>1. CASE UNCHANGED vars
  BY <1>1 DEF vars, server
<1>2. ASSUME NEW u \in Users, ChangeAccess(u) PROVE UNCHANGED server
  BY <1>2 DEF ChangeAccess, server
<1>3. ASSUME NEW p \in Processes, NEW cmd \in Commands, NEW account \in Users \cup {None},
             NEW relink \in BOOLEAN, Start(p, cmd, account, relink)
      PROVE  UNCHANGED server
  BY <1>3 DEF Start, server
<1>4. ASSUME NEW p \in Processes, ReadActive(p) PROVE UNCHANGED server
  BY <1>4 DEF ReadActive, server
<1>5. ASSUME NEW p \in Processes, ReadStored(p) PROVE UNCHANGED server
  BY <1>5 DEF ReadStored, server
<1>6. ASSUME NEW p \in Processes, Verify(p) PROVE UNCHANGED server
  BY <1>6 DEF Verify, server
<1>7. ASSUME NEW p \in Processes, ReadCached(p) PROVE UNCHANGED server
  BY <1>7 DEF ReadCached, server
<1>8. ASSUME NEW p \in Processes, CheckCached(p) PROVE UNCHANGED server
  BY <1>8 DEF CheckCached, server
<1>9. ASSUME NEW p \in Processes, PollRefused(p) PROVE UNCHANGED server
  BY <1>9 DEF PollRefused, server
<1>10. ASSUME NEW p \in Processes, Identify(p) PROVE UNCHANGED server
  BY <1>10 DEF Identify, server
<1>11. ASSUME NEW p \in Processes, LoadOld(p) PROVE UNCHANGED server
  BY <1>11 DEF LoadOld, server
<1>12. ASSUME NEW p \in Processes, Save(p) PROVE UNCHANGED server
  BY <1>12 DEF Save, server
<1>13. ASSUME NEW p \in Processes, Activate(p) PROVE UNCHANGED server
  BY <1>13 DEF Activate, server
<1>14. ASSUME NEW p \in Processes, TrackProject(p) PROVE UNCHANGED server
  BY <1>14 DEF TrackProject, server
<1>15. ASSUME NEW p \in Processes, LinkDirectory(p) PROVE UNCHANGED server
  BY <1>15 DEF LinkDirectory, server
<1>16. ASSUME NEW p \in Processes, Restore(p) PROVE UNCHANGED server
  BY <1>16 DEF Restore, server
<1>17. ASSUME NEW p \in Processes, ReadDescendants(p) PROVE UNCHANGED server
  BY <1>17 DEF ReadDescendants, server
<1>18. ASSUME NEW p \in Processes, MatchDescendant(p) PROVE UNCHANGED server
  BY <1>18 DEF MatchDescendant, server
<1>19. ASSUME NEW p \in Processes, DropProject(p) PROVE UNCHANGED server
  BY <1>19 DEF DropProject, server, Forgetting
<1>20. ASSUME NEW p \in Processes, Untrack(p) PROVE UNCHANGED server
  BY <1>20 DEF Untrack, server, Forgetting
<1>21. ASSUME NEW p \in Processes, DeleteLogin(p) PROVE UNCHANGED server
  BY <1>21 DEF DeleteLogin, server, Forgetting
<1>22. ASSUME NEW p \in Processes, ReadActiveAgain(p) PROVE UNCHANGED server
  BY <1>22 DEF ReadActiveAgain, server
<1>23. ASSUME NEW p \in Processes, Deactivate(p) PROVE UNCHANGED server
  BY <1>23 DEF Deactivate, server, Forgetting
<1> QED
  BY <1>1, <1>2, <1>3, <1>4, <1>5, <1>6, <1>7, <1>8, <1>9, <1>10, <1>11, <1>12, <1>13,
     <1>14, <1>15, <1>16, <1>17, <1>18, <1>19, <1>20, <1>21, <1>22, <1>23 DEF Next, Browser, Command

LEMMA MachineSteps ==
  ASSUME [Next]_vars
  PROVE  \/ UNCHANGED machine
         \/ \E p \in Processes : \/ Save(p) \/ Activate(p) \/ TrackProject(p) \/ Restore(p)
                                \/ DropProject(p) \/ Untrack(p) \/ DeleteLogin(p)
                                \/ Deactivate(p)
<1>1. CASE UNCHANGED vars
  BY <1>1 DEF vars, machine
<1>2. ASSUME NEW u \in Users, CreateAPIToken(u) PROVE UNCHANGED machine
  BY <1>2 DEF CreateAPIToken, machine
<1>3. ASSUME NEW u \in Users, ChangeAccess(u) PROVE UNCHANGED machine
  BY <1>3 DEF ChangeAccess, machine
<1>4. ASSUME NEW id \in Ids, DeleteAPIToken(id) PROVE UNCHANGED machine
  BY <1>4 DEF DeleteAPIToken, machine
<1>5. ASSUME NEW p \in Processes, DenyCLISession(p) PROVE UNCHANGED machine
  BY <1>5 DEF DenyCLISession, machine
<1>6. ASSUME NEW p \in Processes, ExpireCLISession(p) PROVE UNCHANGED machine
  BY <1>6 DEF ExpireCLISession, machine
<1>7. ASSUME NEW p \in Processes, NEW u \in Users, ApproveCLISession(p, u) PROVE UNCHANGED machine
  BY <1>7 DEF ApproveCLISession, machine
<1>8. ASSUME NEW p \in Processes, NEW cmd \in Commands, NEW account \in Users \cup {None},
             NEW relink \in BOOLEAN, Start(p, cmd, account, relink)
      PROVE  UNCHANGED machine
  BY <1>8 DEF Start, machine
<1>9. ASSUME NEW p \in Processes, ReadActive(p) PROVE UNCHANGED machine
  BY <1>9 DEF ReadActive, machine
<1>10. ASSUME NEW p \in Processes, ReadStored(p) PROVE UNCHANGED machine
  BY <1>10 DEF ReadStored, machine
<1>11. ASSUME NEW p \in Processes, Verify(p) PROVE UNCHANGED machine
  BY <1>11 DEF Verify, machine
<1>12. ASSUME NEW p \in Processes, ReadCached(p) PROVE UNCHANGED machine
  BY <1>12 DEF ReadCached, machine
<1>13. ASSUME NEW p \in Processes, CheckCached(p) PROVE UNCHANGED machine
  BY <1>13 DEF CheckCached, machine
<1>14. ASSUME NEW p \in Processes, CreateCLISession(p) PROVE UNCHANGED machine
  BY <1>14 DEF CreateCLISession, machine
<1>15. ASSUME NEW p \in Processes, PollRefused(p) PROVE UNCHANGED machine
  BY <1>15 DEF PollRefused, machine
<1>16. ASSUME NEW p \in Processes, CollectDenied(p) PROVE UNCHANGED machine
  BY <1>16 DEF CollectDenied, machine
<1>17. ASSUME NEW p \in Processes, CollectBegin(p) PROVE UNCHANGED machine
  BY <1>17 DEF CollectBegin, machine
<1>18. ASSUME NEW p \in Processes, CollectCommit(p) PROVE UNCHANGED machine
  BY <1>18 DEF CollectCommit, machine
<1>19. ASSUME NEW p \in Processes, IssueBegin(p) PROVE UNCHANGED machine
  BY <1>19 DEF IssueBegin, machine
<1>20. ASSUME NEW p \in Processes, IssueCommit(p) PROVE UNCHANGED machine
  BY <1>20 DEF IssueCommit, machine
<1>21. ASSUME NEW p \in Processes, Identify(p) PROVE UNCHANGED machine
  BY <1>21 DEF Identify, machine
<1>22. ASSUME NEW p \in Processes, LoadOld(p) PROVE UNCHANGED machine
  BY <1>22 DEF LoadOld, machine
<1>23. ASSUME NEW p \in Processes, LinkDirectory(p) PROVE UNCHANGED machine
  BY <1>23 DEF LinkDirectory, machine
<1>24. ASSUME NEW p \in Processes, RevokeAfterFailure(p) PROVE UNCHANGED machine
  BY <1>24 DEF RevokeAfterFailure, machine
<1>25. ASSUME NEW p \in Processes, GiveUp(p) PROVE UNCHANGED machine
  BY <1>25 DEF GiveUp, machine
<1>26. ASSUME NEW p \in Processes, ReadDescendants(p) PROVE UNCHANGED machine
  BY <1>26 DEF ReadDescendants, machine
<1>27. ASSUME NEW p \in Processes, MatchDescendant(p) PROVE UNCHANGED machine
  BY <1>27 DEF MatchDescendant, machine
<1>28. ASSUME NEW p \in Processes, ReadActiveAgain(p) PROVE UNCHANGED machine
  BY <1>28 DEF ReadActiveAgain, machine
<1>29. ASSUME NEW p \in Processes, Crash(p) PROVE UNCHANGED machine
  BY <1>29 DEF Crash, machine
<1> QED
  BY <1>1, <1>2, <1>3, <1>4, <1>5, <1>6, <1>7, <1>8, <1>9, <1>10, <1>11, <1>12, <1>13,
     <1>14, <1>15, <1>16, <1>17, <1>18, <1>19, <1>20, <1>21, <1>22, <1>23, <1>24,
     <1>25, <1>26, <1>27, <1>28, <1>29 DEF Next, Browser, Command

-----------------------------------------------------------------------------
(* Keys and the transactions that issue them.                              *)

\* Every key has an identity of its own; only project keys have a parent.
KeysInv ==
  /\ \A k \in live : 1 <= k.id /\ k.id <= issued /\ (k.parent # 0 => k.kind = "project")
  /\ \A k, l \in live : k.id = l.id => k = l

\* What an open transaction has locked stays as it was.
TxnInv ==
  \A p \in Processes : Busy(p) =>
    /\ txn[p].user \in Users
    /\ proc[p].pc \in {"poll", "issue"}
    /\ At(p, "poll") => /\ txn[p].parent = 0 /\ txn[p].child = 0
                        /\ session[p] = [state |-> "approved", by |-> txn[p].user]
    /\ At(p, "issue") => /\ txn[p].parent # 0
                         /\ \E k \in live : k.id = txn[p].parent /\ k.kind = "setup"
    /\ \A k \in live : k.id = txn[p].child => k.kind = "project"

\* Somebody approved what is approved.
ApprovalInv == \A p \in Processes : session[p].state = "approved" => session[p].by \in Users

Core == Base /\ KeysInv /\ TxnInv /\ ApprovalInv

LEMMA LiveSteps ==
  ASSUME Core, [Next]_vars
  PROVE  \/ UNCHANGED <<live, issued>>
         \/ \E id \in Nat \ {0} : live' = Deleted(id) /\ issued' = issued /\ RowFree(id)
         \/ \E u \in Users : CreateAPIToken(u)
         \/ \E p \in Processes : CollectCommit(p) \/ IssueCommit(p)
<1>1. CASE UNCHANGED server
  BY <1>1 DEF server
<1>2. ASSUME NEW id \in Ids, DeleteAPIToken(id)
      PROVE  \E i \in Nat \ {0} : live' = Deleted(i) /\ issued' = issued /\ RowFree(i)
  BY <1>2 DEF DeleteAPIToken, Core, Base, TypeOK, KeysInv, Ids, Key
<1>3. ASSUME NEW p \in Processes,
             DenyCLISession(p) \/ ExpireCLISession(p) \/ CreateCLISession(p) \/ CollectDenied(p)
               \/ CollectBegin(p) \/ IssueBegin(p) \/ Crash(p)
      PROVE  UNCHANGED <<live, issued>>
  BY <1>3 DEF DenyCLISession, ExpireCLISession, CreateCLISession, CollectDenied, CollectBegin,
              IssueBegin, Crash
<1>4. ASSUME NEW p \in Processes, NEW u \in Users, ApproveCLISession(p, u)
      PROVE  UNCHANGED <<live, issued>>
  BY <1>4 DEF ApproveCLISession
<1>5. ASSUME NEW p \in Processes, RevokeAfterFailure(p)
      PROVE  \/ UNCHANGED <<live, issued>>
             \/ \E i \in Nat \ {0} : live' = Deleted(i) /\ issued' = issued /\ RowFree(i)
  <2>1. proc[p].key \in Nat \ {0}
    BY <1>5, FlowOf DEF Core, RevokeAfterFailure, At, Flow, Proc
  <2> QED
    BY <1>5, <2>1 DEF RevokeAfterFailure, HandleRevokeOwnToken, Unanswered
<1>6. ASSUME NEW p \in Processes, GiveUp(p)
      PROVE  \/ UNCHANGED <<live, issued>>
             \/ \E i \in Nat \ {0} : live' = Deleted(i) /\ issued' = issued /\ RowFree(i)
  <2>1. proc[p].with \in Nat \ {0}
    BY <1>6, FlowOf DEF Core, GiveUp, At, Flow, Proc
  <2> QED
    BY <1>6, <2>1 DEF GiveUp, HandleRevokeOwnToken, Unanswered
<1> QED
  BY <1>1, <1>2, <1>3, <1>4, <1>5, <1>6, ServerSteps

\* The set of keys after each of these.
LEMMA DeletedKeys == \A id : Deleted(id) \subseteq live
BY DEF Deleted

LEMMA MintedKey ==
  ASSUME Core, NEW u \in Users, NEW kind \in Kinds, NEW parent \in Nat,
         NEW v \in Processes \cup {None}, Mint(u, kind, parent, v)
  PROVE  \E k \in Key : /\ k = [id |-> issued + 1, user |-> u, kind |-> kind, parent |-> parent,
                                via |-> v]
                        /\ live' = live \cup {k} /\ k \notin live
                        /\ issued' = issued + 1 /\ IsFiniteSet(live')
                        /\ \A w \in Users \ {u} : KeysOf(w)' = KeysOf(w)
                        /\ Cardinality(KeysOf(u)') = Cardinality(KeysOf(u)) + 1
<1> DEFINE k == [id |-> issued + 1, user |-> u, kind |-> kind, parent |-> parent, via |-> v]
<1>1. k \in Key /\ k.id = issued + 1 /\ k.user = u
  BY DEF Core, Base, TypeOK, Key
<1>2. live' = live \cup {k} /\ issued' = issued + 1
  BY DEF Mint
<1>3. k \notin live
  BY <1>1 DEF Core, Base, TypeOK, KeysInv, Key
<1> HIDE DEF k
<1>4. IsFiniteSet(live')
  BY <1>2, FS_AddElement DEF Core, Base, TypeOK
<1>5. \A w \in Users \ {u} : KeysOf(w)' = KeysOf(w)
  BY <1>1, <1>2 DEF KeysOf
<1>6. KeysOf(u)' = KeysOf(u) \cup {k}
  BY <1>1, <1>2 DEF KeysOf
<1>7. IsFiniteSet(KeysOf(u)) /\ k \notin KeysOf(u)
  BY <1>3, FS_Subset DEF Core, Base, TypeOK, KeysOf
<1>8. Cardinality(KeysOf(u)') = Cardinality(KeysOf(u)) + 1
  BY <1>6, <1>7, FS_AddElement
<1> QED
  BY <1>1, <1>2, <1>3, <1>4, <1>5, <1>8 DEF k

Rotated(k, child, p) == IF k.id = child THEN [k EXCEPT !.id = issued + 1, !.via = p] ELSE k

LEMMA RotatedKey ==
  ASSUME Core, NEW k \in live, NEW child, NEW p \in Processes
  PROVE  /\ Rotated(k, child, p) \in Key
         /\ Rotated(k, child, p).id = IF k.id = child THEN issued + 1 ELSE k.id
         /\ Rotated(k, child, p).via = IF k.id = child THEN p ELSE k.via
         /\ Rotated(k, child, p).user = k.user
         /\ Rotated(k, child, p).kind = k.kind
         /\ Rotated(k, child, p).parent = k.parent
<1>1. k \in Key /\ issued + 1 \in Nat
  BY DEF Core, Base, TypeOK
<1>2. CASE k.id = child
  BY <1>1, <1>2 DEF Key, Rotated
<1>3. CASE k.id # child
  BY <1>1, <1>3 DEF Key, Rotated
<1> QED
  BY <1>2, <1>3

LEMMA RotatedKeys ==
  ASSUME Core, NEW child, NEW p \in Processes,
         live' = {Rotated(k, child, p) : k \in live}
  PROVE  /\ IsFiniteSet(live')
         /\ \A u \in Users : Cardinality(KeysOf(u)') <= Cardinality(KeysOf(u))
<1>1. IsFiniteSet(live) /\ live \subseteq Key
  BY DEF Core, Base, TypeOK
<1>2. IsFiniteSet(live')
  <2> DEFINE f == [k \in live |-> Rotated(k, child, p)]
  <2>1. f \in Surjection(live, live')
    BY DEF Surjection
  <2> QED
    BY <1>1, <2>1, FS_Surjection
<1>3. ASSUME NEW u \in Users PROVE Cardinality(KeysOf(u)') <= Cardinality(KeysOf(u))
  <2> DEFINE f == [k \in KeysOf(u) |-> Rotated(k, child, p)]
  <2>1. KeysOf(u)' = {Rotated(k, child, p) : k \in KeysOf(u)}
    BY RotatedKey DEF KeysOf
  <2>2. f \in Surjection(KeysOf(u), KeysOf(u)')
    BY <2>1 DEF Surjection
  <2>3. IsFiniteSet(KeysOf(u))
    BY <1>1, FS_Subset DEF KeysOf
  <2> HIDE DEF f
  <2> QED
    BY <2>2, <2>3, FS_Surjection
<1> QED
  BY <1>2, <1>3

-----------------------------------------------------------------------------
(* How one command moves.                                                  *)

Gone == {"revoke", "failed", "crashed"}
Remembered == {slot[s] : s \in Slots} \cup {tracked[u] : u \in Users}

\* What any step of p does to the variables of the command.
Transition(p) ==
  /\ proc'[p].pc \in Early => proc[p].pc \in Early
  /\ proc[p].pc \in Gone => proc'[p].pc \in Gone
  /\ proc'[p].cmd = proc[p].cmd \/ At(p, "new")
  /\ proc'[p].clean => proc[p].clean \/ proc'[p].key = 0
  /\ \/ proc'[p].with \in {proc[p].with, 0}
     \/ At(p, "stored") /\ proc'[p].with \in Remembered
  /\ \/ proc'[p].key \in {proc[p].key, 0}
     \/ (CollectCommit(p) \/ IssueCommit(p)) /\ proc'[p].key = issued + 1
  /\ \/ proc'[p].old = proc[p].old
     \/ ReadCached(p) \/ LoadOld(p) \/ ReadDescendants(p)
  /\ \/ proc'[p].user = proc[p].user
     \/ proc[p].pc \in {"new", "active", "identify"} \/ proc'[p].pc = "crashed"
  /\ \A q \in Processes \ {p} : proc'[q] = proc[q]

LEMMA GoingTransition ==
  ASSUME Base, NEW p \in Processes, NEW pc \in Pcs, Goto(p, pc),
         pc \in Early => proc[p].pc \in Early, proc[p].pc \in Gone => pc \in Gone
  PROVE  Transition(p)
<1>1. /\ proc'[p].pc = pc /\ proc'[p].cmd = proc[p].cmd /\ proc'[p].clean = proc[p].clean
      /\ proc'[p].with = proc[p].with /\ proc'[p].key = proc[p].key /\ proc'[p].old = proc[p].old
      /\ proc'[p].user = proc[p].user /\ \A q \in Processes \ {p} : proc'[q] = proc[q]
  BY DEF Base, TypeOK, Proc, Goto
<1> QED
  BY <1>1 DEF Transition

LEMMA CommandTransition ==
  ASSUME Base, NEW p \in Processes, Command(p)
  PROVE  Transition(p)
<1>0. proc[p] \in Proc /\ Flow(proc[p]) /\ proc \in [Processes -> Proc]
  BY FlowOf DEF Base, TypeOK
<1>1. ASSUME NEW cmd \in Commands, NEW account \in Users \cup {None},
             NEW relink \in BOOLEAN, Start(p, cmd, account, relink)
      PROVE  Transition(p)
  BY <1>0, <1>1 DEF Start, Transition, Proc, Early, Gone, At, New, Flow
<1>2. ASSUME ReadActive(p) PROVE Transition(p)
  BY <1>0, <1>2 DEF ReadActive, Transition, Proc, Early, Gone, At, New, Flow, Without
<1>3. ASSUME ReadStored(p) PROVE Transition(p)
  BY <1>0, <1>3 DEF ReadStored, Transition, Proc, Early, Gone, At, New, Flow, Slots, Remembered,
     LoginOf, KindOf, Commands, Without
<1>4. ASSUME Verify(p) PROVE Transition(p)
  <2>1. PICK pc \in {"done", "recheck", "giveUp", "failed", "device"} : Goto(p, pc)
    BY <1>0, <1>4 DEF Verify, Flow, At, Without
  <2> QED
    BY <1>4, <2>1, GoingTransition DEF Verify, At, Early, Gone, Pcs
<1>5. ASSUME ReadCached(p) PROVE Transition(p)
  BY <1>0, <1>5 DEF ReadCached, Transition, Proc, Early, Gone, At, New, Flow
<1>6. ASSUME CheckCached(p) PROVE Transition(p)
  <2>1. PICK pc \in {"issue", "verify", "failed", "link"} : Goto(p, pc)
    BY <1>0, <1>6 DEF CheckCached, Flow, At
  <2> QED
    BY <1>6, <2>1, GoingTransition DEF CheckCached, At, Early, Gone, Pcs
<1>7. ASSUME CreateCLISession(p) PROVE Transition(p)
  <2>1. PICK pc \in {"poll"} : Goto(p, pc)
    BY <1>0, <1>7 DEF CreateCLISession, Flow, At
  <2> QED
    BY <1>7, <2>1, GoingTransition DEF CreateCLISession, At, Early, Gone, Pcs
<1>8. ASSUME PollRefused(p) PROVE Transition(p)
  <2>1. PICK pc \in {"failed"} : Goto(p, pc)
    BY <1>0, <1>8 DEF PollRefused, Flow, At
  <2> QED
    BY <1>8, <2>1, GoingTransition DEF PollRefused, At, Early, Gone, Pcs
<1>9. ASSUME CollectDenied(p) PROVE Transition(p)
  <2>1. PICK pc \in {"failed"} : Goto(p, pc)
    BY <1>0, <1>9 DEF CollectDenied, Flow, At
  <2> QED
    BY <1>9, <2>1, GoingTransition DEF CollectDenied, At, Early, Gone, Pcs
<1>10. ASSUME CollectBegin(p) PROVE Transition(p)
  <2>1. CASE UNCHANGED proc
    BY <2>1 DEF Transition
  <2>2. CASE Goto(p, "failed")
    BY <1>10, <2>2, GoingTransition DEF CollectBegin, At, Early, Gone, Pcs
  <2> QED
    BY <1>10, <2>1, <2>2 DEF CollectBegin
<1>11. ASSUME CollectCommit(p) PROVE Transition(p)
  <2>1. CASE Goto(p, "failed")
    BY <2>1, GoingTransition DEF Early, Gone, Pcs
  <2>2. ASSUME NEW pc \in {"done", "identify"}, proc' = [proc EXCEPT ![p].key = issued + 1, ![p].pc = pc]
        PROVE  Transition(p)
    <3>1. /\ proc'[p].pc = pc /\ proc'[p].key = issued + 1 /\ proc'[p].cmd = proc[p].cmd
          /\ (proc'[p].clean <=> proc[p].clean) /\ proc'[p].with = proc[p].with
          /\ proc'[p].old = proc[p].old /\ proc'[p].user = proc[p].user
          /\ \A q \in Processes \ {p} : proc'[q] = proc[q]
      BY <1>0, <2>2 DEF Proc
    <3>2. proc[p].pc \in {"poll", "issue"}
      BY <1>11 DEF CollectCommit, At
    <3> QED
      BY <1>11, <3>1, <3>2 DEF Transition, Early, Gone
  <2> QED
    BY <1>11, <2>1, <2>2 DEF CollectCommit, Answered
<1>12. ASSUME IssueBegin(p) PROVE Transition(p)
  <2>1. CASE UNCHANGED proc
    BY <2>1 DEF Transition
  <2>2. CASE Goto(p, "failed")
    BY <1>12, <2>2, GoingTransition DEF IssueBegin, At, Early, Gone, Pcs
  <2> QED
    BY <1>12, <2>1, <2>2 DEF IssueBegin
<1>13. ASSUME IssueCommit(p) PROVE Transition(p)
  <2>1. CASE Goto(p, "failed")
    BY <2>1, GoingTransition DEF Early, Gone, Pcs
  <2>2. ASSUME NEW pc \in {"done", "identify"}, proc' = [proc EXCEPT ![p].key = issued + 1, ![p].pc = pc]
        PROVE  Transition(p)
    <3>1. /\ proc'[p].pc = pc /\ proc'[p].key = issued + 1 /\ proc'[p].cmd = proc[p].cmd
          /\ (proc'[p].clean <=> proc[p].clean) /\ proc'[p].with = proc[p].with
          /\ proc'[p].old = proc[p].old /\ proc'[p].user = proc[p].user
          /\ \A q \in Processes \ {p} : proc'[q] = proc[q]
      BY <1>0, <2>2 DEF Proc
    <3>2. proc[p].pc \in {"poll", "issue"}
      BY <1>13 DEF IssueCommit, At
    <3> QED
      BY <1>13, <3>1, <3>2 DEF Transition, Early, Gone
  <2> QED
    BY <1>13, <2>1, <2>2 DEF IssueCommit, Answered
<1>14. ASSUME Identify(p) PROVE Transition(p)
  <2>1. CASE Goto(p, "revoke")
    BY <2>1, <1>14, GoingTransition DEF Early, Gone, Pcs
  <2>2. ASSUME NEW o, proc' = [proc EXCEPT ![p].user = o, ![p].pc = "load"]
        PROVE  Transition(p)
    BY <1>0, <1>14, <2>2 DEF Identify, Transition, Proc, Early, Gone, At
  <2> QED
    BY <1>14, <2>1, <2>2 DEF Identify
<1>15. ASSUME LoadOld(p) PROVE Transition(p)
  BY <1>0, <1>15 DEF LoadOld, Transition, Proc, Early, Gone, At, New, Flow
<1>16. ASSUME Save(p) PROVE Transition(p)
  <2>1. PICK pc \in {"activate", "track", "revoke"} : Goto(p, pc)
    BY <1>0, <1>16 DEF Save, Flow, At, Unsaved
  <2> QED
    BY <1>16, <2>1, GoingTransition DEF Save, At, Early, Gone, Pcs
<1>17. ASSUME Activate(p) PROVE Transition(p)
  <2>1. PICK pc \in {"done", "restore"} : Goto(p, pc)
    BY <1>0, <1>17 DEF Activate, Flow, At
  <2> QED
    BY <1>17, <2>1, GoingTransition DEF Activate, At, Early, Gone, Pcs
<1>18. ASSUME TrackProject(p) PROVE Transition(p)
  <2>1. PICK pc \in {"link", "restore"} : Goto(p, pc)
    BY <1>0, <1>18 DEF TrackProject, Flow, At
  <2> QED
    BY <1>18, <2>1, GoingTransition DEF TrackProject, At, Early, Gone, Pcs
<1>19. ASSUME LinkDirectory(p) PROVE Transition(p)
  <2>1. PICK pc \in {"done", "failed", "restore"} : Goto(p, pc)
    BY <1>0, <1>19 DEF LinkDirectory, Flow, At
  <2> QED
    BY <1>19, <2>1, GoingTransition DEF LinkDirectory, At, Early, Gone, Pcs
<1>20. ASSUME Restore(p) PROVE Transition(p)
  <2>1. CASE Goto(p, "revoke")
    BY <2>1, GoingTransition DEF Early, Gone, Pcs
  <2>2. CASE proc' = [proc EXCEPT ![p].clean = FALSE, ![p].pc = "revoke"]
    BY <1>0, <2>2 DEF Transition, Proc, Early, Gone, At
  <2> QED
    BY <1>20, <2>1, <2>2 DEF Restore
<1>21. ASSUME RevokeAfterFailure(p) PROVE Transition(p)
  <2>1. CASE Goto(p, "failed")
    BY <2>1, GoingTransition DEF Early, Gone, Pcs
  <2>2. CASE proc' = [proc EXCEPT ![p].clean = FALSE, ![p].pc = "failed"]
    BY <1>0, <2>2 DEF Transition, Proc, Early, Gone, At
  <2> QED
    BY <1>21, <2>1, <2>2 DEF RevokeAfterFailure
<1>22. ASSUME GiveUp(p) PROVE Transition(p)
  <2>1. PICK pc \in {"descendants", "forget", "failed"} : Goto(p, pc)
    BY <1>0, <1>22 DEF GiveUp, Flow, At
  <2> QED
    BY <1>22, <2>1, GoingTransition DEF GiveUp, At, Early, Gone, Pcs
<1>23. ASSUME ReadDescendants(p) PROVE Transition(p)
  BY <1>0, <1>23 DEF ReadDescendants, Transition, Proc, Early, Gone, At, New, Flow
<1>24. ASSUME MatchDescendant(p) PROVE Transition(p)
  <2>1. PICK pc \in {"drop", "untrack"} : Goto(p, pc)
    BY <1>0, <1>24 DEF MatchDescendant, Flow, At
  <2> QED
    BY <1>24, <2>1, GoingTransition DEF MatchDescendant, At, Early, Gone, Pcs
<1>25. ASSUME DropProject(p) PROVE Transition(p)
  <2>1. PICK pc \in {"untrack", "failed"} : Goto(p, pc)
    BY <1>0, <1>25 DEF DropProject, Flow, At, Forgetting
  <2> QED
    BY <1>25, <2>1, GoingTransition DEF DropProject, At, Early, Gone, Pcs, Forgetting
<1>26. ASSUME Untrack(p) PROVE Transition(p)
  <2>1. PICK pc \in {"forget", "failed"} : Goto(p, pc)
    BY <1>0, <1>26 DEF Untrack, Flow, At, Forgetting
  <2> QED
    BY <1>26, <2>1, GoingTransition DEF Untrack, At, Early, Gone, Pcs, Forgetting
<1>27. ASSUME DeleteLogin(p) PROVE Transition(p)
  <2>1. PICK pc \in {"inactive", "failed"} : Goto(p, pc)
    BY <1>0, <1>27 DEF DeleteLogin, Flow, At, Forgetting
  <2> QED
    BY <1>27, <2>1, GoingTransition DEF DeleteLogin, At, Early, Gone, Pcs, Forgetting
<1>28. ASSUME ReadActiveAgain(p) PROVE Transition(p)
  <2>1. PICK pc \in {"deactivate", "done"} : Goto(p, pc)
    BY <1>0, <1>28 DEF ReadActiveAgain, Flow, At
  <2> QED
    BY <1>28, <2>1, GoingTransition DEF ReadActiveAgain, At, Early, Gone, Pcs
<1>29. ASSUME Deactivate(p) PROVE Transition(p)
  <2>1. PICK pc \in {"done", "failed"} : Goto(p, pc)
    BY <1>0, <1>29 DEF Deactivate, Flow, At, Forgetting
  <2> QED
    BY <1>29, <2>1, GoingTransition DEF Deactivate, At, Early, Gone, Pcs, Forgetting
<1>30. ASSUME Crash(p) PROVE Transition(p)
  BY <1>0, <1>30 DEF Crash, Transition, Proc, Early, Gone, At, New, Flow
<1> QED
  BY <1>1, <1>2, <1>3, <1>4, <1>5, <1>6, <1>7, <1>8, <1>9, <1>10, <1>11, <1>12, <1>13,
     <1>14, <1>15, <1>16, <1>17, <1>18, <1>19, <1>20, <1>21, <1>22, <1>23, <1>24,
     <1>25, <1>26, <1>27, <1>28, <1>29, <1>30 DEF Command

LEMMA ProcSteps ==
  ASSUME Base, [Next]_vars
  PROVE  \/ proc' = proc
         \/ \E p \in Processes : Command(p) /\ Transition(p)
<1>1. CASE UNCHANGED vars
  BY <1>1 DEF vars
<1>2. CASE Browser
  BY <1>2 DEF Browser, CreateAPIToken, ChangeAccess, DeleteAPIToken, DenyCLISession,
              ExpireCLISession, ApproveCLISession
<1> QED
  BY <1>1, <1>2, CommandTransition DEF Next

-----------------------------------------------------------------------------
(* Base, KeysInv and TxnInv are kept by every step.                        *)

LEMMA IssuedGrows == ASSUME Core, [Next]_vars PROVE issued' \in Nat /\ issued <= issued'
<1>1. issued' = issued \/ issued' = issued + 1
  BY LiveSteps DEF CreateAPIToken, CollectCommit, IssueCommit, Mint
<1> QED
  BY <1>1 DEF Core, Base, TypeOK

LEMMA CollectMints ==
  ASSUME Core, NEW p \in Processes, CollectCommit(p)
  PROVE  /\ txn[p].user \in Users /\ KindOf(proc[p].cmd) \in Kinds
         /\ Mint(txn[p].user, KindOf(proc[p].cmd), 0, p)
         /\ txn[p].child = 0 /\ txn[p].parent = 0
         /\ session[p] = [state |-> "approved", by |-> txn[p].user]
         /\ session' = [session EXCEPT ![p].state = "collected"]
         /\ proc[p].pc = "poll" /\ proc[p].cmd \in {"login", "manage", "legacy"}
<1>1. proc[p].cmd \in {"login", "manage", "legacy"}
  BY FlowOf DEF CollectCommit, Core, Flow, At
<1> QED
  BY <1>1 DEF CollectCommit, Core, TxnInv, KindOf, Kinds, At

LEMMA IssueMints ==
  ASSUME Core, NEW p \in Processes, IssueCommit(p)
  PROVE  /\ txn[p].user \in Users /\ txn[p].parent \in Nat \ {0}
         /\ proc[p].pc = "issue" /\ proc[p].cmd = "init"
         /\ \E k \in live : k.id = txn[p].parent /\ k.kind = "setup"
         /\ \/ txn[p].child = 0 /\ Mint(txn[p].user, "project", txn[p].parent, p)
            \/ /\ txn[p].child # 0 /\ issued' = issued + 1
               /\ live' = {Rotated(k, txn[p].child, p) : k \in live}
<1>1. txn[p].child # 0 => issued' = issued + 1 /\ live' = {Rotated(k, txn[p].child, p) : k \in live}
  BY DEF IssueCommit, Rotated
<1>2. txn[p].child = 0 => Mint(txn[p].user, "project", txn[p].parent, p)
  BY DEF IssueCommit
<1>3. proc[p].pc = "issue" /\ proc[p].cmd = "init"
  BY FlowOf DEF IssueCommit, Core, Flow, At
<1>4. /\ txn[p].user \in Users /\ txn[p].parent \in Nat \ {0}
      /\ \E k \in live : k.id = txn[p].parent /\ k.kind = "setup"
  BY <1>3 DEF IssueCommit, Core, TxnInv, At, Base, TypeOK, Txn
<1> QED
  BY <1>1, <1>2, <1>3, <1>4

\* A key that is there after a step: it was there, is new, or was rotated.
LEMMA KeysAfter ==
  ASSUME Core, [Next]_vars, NEW k \in live'
  PROVE  /\ k \in Key
         /\ \/ k \in live
            \/ /\ k.id = issued + 1 /\ issued' = issued + 1
               /\ k.parent # 0 => k.kind = "project"
               /\ \/ \E u \in Users : CreateAPIToken(u) /\ k.via = None /\ k.parent = 0
                  \/ \E p \in Processes : /\ CollectCommit(p) /\ k.via = p /\ k.parent = 0
                                          /\ k.user = txn[p].user
                  \/ \E p \in Processes : /\ IssueCommit(p) /\ k.via = p /\ k.kind = "project"
                                          /\ \/ k.parent = txn[p].parent
                                             \/ \E l \in live : k.parent = l.parent
<1>0. live \subseteq Key
  BY DEF Core, Base, TypeOK
<1>1. CASE live' \subseteq live
  BY <1>0, <1>1
<1>2. ASSUME NEW u \in Users, CreateAPIToken(u), k \notin live
      PROVE  k \in Key /\ k.id = issued + 1 /\ issued' = issued + 1 /\ k.via = None /\ k.parent = 0
  <2>1. Mint(u, "personal", 0, None)
    BY <1>2 DEF CreateAPIToken
  <2> QED
    BY <2>1, <1>2, MintedKey DEF Kinds
<1>3. ASSUME NEW p \in Processes, CollectCommit(p), k \notin live
      PROVE  k \in Key /\ k.id = issued + 1 /\ issued' = issued + 1 /\ k.via = p /\ k.parent = 0
             /\ k.user = txn[p].user
  <2>1. PICK u \in Users, kind \in Kinds : u = txn[p].user /\ Mint(u, kind, 0, p)
    BY <1>3, CollectMints
  <2> QED
    BY <2>1, <1>3, MintedKey
<1>4. ASSUME NEW p \in Processes, IssueCommit(p), k \notin live
      PROVE  k \in Key /\ k.id = issued + 1 /\ issued' = issued + 1 /\ k.via = p /\ k.kind = "project"
             /\ (k.parent = txn[p].parent \/ \E l \in live : k.parent = l.parent)
  <2>1. CASE Mint(txn[p].user, "project", txn[p].parent, p)
    BY <1>4, <2>1, IssueMints, MintedKey DEF Kinds
  <2>2. CASE /\ txn[p].child # 0 /\ issued' = issued + 1
             /\ live' = {Rotated(l, txn[p].child, p) : l \in live}
    <3>1. PICK l \in live : k = Rotated(l, txn[p].child, p)
      BY <2>2
    <3>2. l.id = txn[p].child
      BY <3>1, <1>4 DEF Rotated
    <3>3. l.kind = "project"
      BY <1>4, <3>2 DEF Core, TxnInv, IssueCommit
    <3> QED
      BY <2>2, <3>1, <3>2, <3>3, RotatedKey
  <2> QED
    BY <1>4, <2>1, <2>2, IssueMints
<1>5. CASE \E id \in Nat \ {0} : live' = Deleted(id)
  BY <1>5, <1>1, DeletedKeys
<1> QED
  BY <1>0, <1>1, <1>2, <1>3, <1>4, <1>5, LiveSteps

LEMMA NewKeysAlone ==
  ASSUME Core, [Next]_vars, NEW k \in live', NEW l \in live', k.id = l.id
  PROVE  k = l
<1>0. \A j \in live : j.id <= issued /\ j.id \in Nat
  BY DEF Core, KeysInv, Base, TypeOK, Key
<1>1. CASE k \in live /\ l \in live
  BY <1>1 DEF Core, KeysInv
<1>2. CASE ~(k \in live /\ l \in live)
  <2>1. k.id = issued + 1 /\ l.id = issued + 1 /\ k \notin live /\ l \notin live
    BY <1>0, <1>2, KeysAfter DEF Core, Base, TypeOK
  <2>2. ASSUME NEW u \in Users, NEW kind \in Kinds, NEW parent \in Nat,
               NEW v \in Processes \cup {None}, Mint(u, kind, parent, v)
        PROVE  k = l
    BY <2>1, <2>2, MintedKey
  <2>3. ASSUME NEW p \in Processes, live' = {Rotated(j, txn[p].child, p) : j \in live}
        PROVE  k = l
    <3>1. PICK a \in live, b \in live : k = Rotated(a, txn[p].child, p) /\ l = Rotated(b, txn[p].child, p)
      BY <2>3
    <3>2. a.id = txn[p].child /\ b.id = txn[p].child
      BY <2>1, <3>1 DEF Rotated
    <3> QED
      BY <3>1, <3>2 DEF Core, KeysInv
  <2>4. ASSUME NEW id \in Nat \ {0}, live' = Deleted(id) PROVE FALSE
    BY <2>4, <2>1, DeletedKeys
  <2>5. ASSUME NEW u \in Users, CreateAPIToken(u) PROVE k = l
    BY <2>2, <2>5 DEF CreateAPIToken, Kinds
  <2>6. ASSUME NEW p \in Processes, CollectCommit(p) PROVE k = l
    <3>1. PICK u \in Users, kind \in Kinds : Mint(u, kind, 0, p)
      BY <2>6, CollectMints
    <3> QED
      BY <2>2, <3>1
  <2>7. ASSUME NEW p \in Processes, IssueCommit(p) PROVE k = l
    <3>1. CASE Mint(txn[p].user, "project", txn[p].parent, p)
      BY <2>2, <2>7, <3>1, IssueMints DEF Kinds
    <3> QED
      BY <2>3, <2>7, <3>1, IssueMints
  <2> QED
    BY <2>1, <2>4, <2>5, <2>6, <2>7, LiveSteps
<1> QED
  BY <1>1, <1>2

LEMMA KeysStep == ASSUME Core, [Next]_vars PROVE KeysInv'
<1>1. ASSUME NEW k \in live'
      PROVE  1 <= k.id /\ k.id <= issued' /\ (k.parent # 0 => k.kind = "project")
  <2>1. CASE k \in live
    BY <2>1, IssuedGrows DEF Core, KeysInv, Base, TypeOK, Key
  <2>2. CASE k.id = issued + 1 /\ issued' = issued + 1 /\ (k.parent # 0 => k.kind = "project")
    BY <2>2 DEF Core, Base, TypeOK
  <2> QED
    BY <2>1, <2>2, KeysAfter
<1> QED
  BY <1>1, NewKeysAlone DEF KeysInv

LEMMA LiveType == ASSUME Core, [Next]_vars PROVE live' \in SUBSET Key /\ IsFiniteSet(live')
<1>1. live' \in SUBSET Key
  BY KeysAfter
<1>2. IsFiniteSet(live)
  BY DEF Core, Base, TypeOK
<1>3. ASSUME live' \subseteq live PROVE IsFiniteSet(live')
  <2>1. ASSUME NEW T \in SUBSET live PROVE IsFiniteSet(T)
    BY <1>2, FS_Subset
  <2> QED
    BY <1>3, <2>1
<1>4. ASSUME NEW u \in Users, NEW kind \in Kinds, NEW parent \in Nat,
             NEW v \in Processes \cup {None}, Mint(u, kind, parent, v)
      PROVE  IsFiniteSet(live')
  BY <1>4, MintedKey
<1>5. ASSUME NEW u \in Users, CreateAPIToken(u) PROVE IsFiniteSet(live')
  BY <1>4, <1>5 DEF CreateAPIToken, Kinds
<1>6. ASSUME NEW p \in Processes, CollectCommit(p) PROVE IsFiniteSet(live')
  <2>1. PICK u \in Users, kind \in Kinds : Mint(u, kind, 0, p)
    BY <1>6, CollectMints
  <2> QED
    BY <1>4, <2>1
<1>7. ASSUME NEW p \in Processes, IssueCommit(p) PROVE IsFiniteSet(live')
  <2>1. CASE Mint(txn[p].user, "project", txn[p].parent, p)
    BY <1>4, <1>7, <2>1, IssueMints DEF Kinds
  <2> QED
    BY <1>7, <2>1, IssueMints, RotatedKeys
<1>8. ASSUME NEW id \in Nat \ {0}, live' = Deleted(id) PROVE IsFiniteSet(live')
  BY <1>3, <1>8, DeletedKeys
<1> QED
  BY <1>1, <1>3, <1>5, <1>6, <1>7, <1>8, LiveSteps

\* Sessions: who may be recorded, and that only an approval approves.
LEMMA SessionStep ==
  ASSUME Core, [Next]_vars
  PROVE  session' \in [Processes -> Session] /\ ApprovalInv'
<1>0. session \in [Processes -> Session] /\ ApprovalInv
  BY DEF Core, Base, TypeOK
<1>1. CASE UNCHANGED session
  BY <1>0, <1>1 DEF ApprovalInv
<1>2. ASSUME NEW p \in Processes, NEW u \in Users, ApproveCLISession(p, u)
      PROVE  session' \in [Processes -> Session] /\ ApprovalInv'
  BY <1>0, <1>2 DEF ApproveCLISession, ApprovalInv, Session
<1>3. ASSUME NEW p \in Processes, NEW state \in {"pending", "denied", "expired", "collected"},
             session' = [session EXCEPT ![p].state = state]
      PROVE  session' \in [Processes -> Session] /\ ApprovalInv'
  BY <1>0, <1>3 DEF ApprovalInv, Session
<1>4. ASSUME NEW p \in Processes, DenyCLISession(p) \/ ExpireCLISession(p) \/ CreateCLISession(p)
               \/ CollectDenied(p) \/ CollectCommit(p)
      PROVE  session' \in [Processes -> Session] /\ ApprovalInv'
  BY <1>3, <1>4 DEF DenyCLISession, ExpireCLISession, CreateCLISession, CollectDenied, CollectCommit
<1>5. ASSUME NEW p \in Processes, CollectBegin(p) \/ IssueBegin(p) \/ IssueCommit(p)
               \/ RevokeAfterFailure(p) \/ GiveUp(p) \/ Crash(p)
      PROVE  UNCHANGED session
  BY <1>5 DEF CollectBegin, IssueBegin, IssueCommit, RevokeAfterFailure, GiveUp, Crash
<1> QED
  BY <1>1, <1>2, <1>4, <1>5, ServerSteps DEF server, CreateAPIToken, DeleteAPIToken

\* Transactions: how one begins, and that it then stays, or ends.
Opens(p) == \/ /\ CollectBegin(p) /\ CanCreate(session[p].by)
               /\ txn' = [txn EXCEPT ![p].user = session[p].by]
            \/ \E child \in Nat :
                 /\ IssueBegin(p) /\ Works(proc[p].with, proc[p].user, "setup")
                 /\ child = 0 => CanCreate(proc[p].user)
                 /\ child # 0 => \E k \in Children(proc[p].with) : k.id = child
                 /\ txn' = [txn EXCEPT ![p] = [user |-> proc[p].user, parent |-> proc[p].with,
                                               child |-> child]]

LEMMA TxnSteps ==
  ASSUME Core, [Next]_vars
  PROVE  \/ UNCHANGED txn
         \/ \E p \in Processes : txn' = [txn EXCEPT ![p] = NoTxn]
         \/ \E p \in Processes : Opens(p)
<1>1. ASSUME NEW p \in Processes, NEW u \in Users,
             DenyCLISession(p) \/ ExpireCLISession(p) \/ CreateCLISession(p) \/ CollectDenied(p)
               \/ RevokeAfterFailure(p) \/ GiveUp(p) \/ ApproveCLISession(p, u)
      PROVE  UNCHANGED txn
  BY <1>1 DEF DenyCLISession, ExpireCLISession, CreateCLISession, CollectDenied,
              RevokeAfterFailure, GiveUp, ApproveCLISession
<1>2. ASSUME NEW p \in Processes,
             DenyCLISession(p) \/ ExpireCLISession(p) \/ CreateCLISession(p) \/ CollectDenied(p)
               \/ RevokeAfterFailure(p) \/ GiveUp(p)
      PROVE  UNCHANGED txn
  BY <1>2 DEF DenyCLISession, ExpireCLISession, CreateCLISession, CollectDenied,
              RevokeAfterFailure, GiveUp
<1>3. ASSUME NEW p \in Processes, CollectCommit(p) \/ IssueCommit(p) \/ Crash(p)
      PROVE  txn' = [txn EXCEPT ![p] = NoTxn]
  BY <1>3 DEF CollectCommit, IssueCommit, Crash
<1>4. ASSUME NEW p \in Processes, CollectBegin(p) PROVE UNCHANGED txn \/ Opens(p)
  BY <1>4 DEF CollectBegin, Opens
<1>5. ASSUME NEW p \in Processes, IssueBegin(p) PROVE UNCHANGED txn \/ Opens(p)
  <2>1. ASSUME NEW k \in live PROVE k.id \in Nat \ {0}
    BY DEF Core, Base, TypeOK, Key, KeysInv
  <2> QED
    BY <1>5, <2>1 DEF IssueBegin, Opens, Children
<1> QED
  BY <1>1, <1>2, <1>3, <1>4, <1>5, ServerSteps DEF server, CreateAPIToken, DeleteAPIToken

LEMMA TxnType == ASSUME Core, [Next]_vars PROVE txn' \in [Processes -> Txn]
<1>0. txn \in [Processes -> Txn]
  BY DEF Core, Base, TypeOK
<1>1. NoTxn \in Txn
  BY DEF NoTxn, Txn
<1>2. ASSUME NEW p \in Processes, CollectBegin(p), txn' = [txn EXCEPT ![p].user = session[p].by]
      PROVE  txn' \in [Processes -> Txn]
  <2>1. session[p].by \in Users
    BY <1>2 DEF CollectBegin, Core, ApprovalInv
  <2> QED
    BY <1>0, <1>2, <2>1 DEF Txn
<1>3. ASSUME NEW p \in Processes, NEW child \in Nat,
             txn' = [txn EXCEPT ![p] = [user |-> proc[p].user, parent |-> proc[p].with,
                                        child |-> child]]
      PROVE  txn' \in [Processes -> Txn]
  <2>1. proc[p].user \in Users \cup {None} /\ proc[p].with \in Nat
    BY FlowOf DEF Core, Proc
  <2> QED
    BY <1>0, <1>3, <2>1 DEF Txn
<1> QED
  BY <1>0, <1>1, <1>2, <1>3, TxnSteps DEF Opens

\* The store after a step.
LEMMA SlotSteps ==
  ASSUME [Next]_vars
  PROVE  \/ UNCHANGED slot
         \/ \E p \in Processes : Save(p) /\ slot' = [slot EXCEPT ![SlotOf(p)] = proc[p].key]
         \/ \E p \in Processes : Restore(p) /\ slot' = [slot EXCEPT ![SlotOf(p)] = proc[p].old]
         \/ \E s : slot' = [slot EXCEPT ![s] = 0]
<1>1. ASSUME NEW p \in Processes, Activate(p) \/ TrackProject(p) \/ Untrack(p) \/ Deactivate(p)
      PROVE  UNCHANGED slot
  BY <1>1 DEF Activate, TrackProject, Untrack, Deactivate, Forgetting, machine
<1>2. ASSUME NEW p \in Processes, DropProject(p) \/ DeleteLogin(p)
      PROVE  UNCHANGED slot \/ \E s : slot' = [slot EXCEPT ![s] = 0]
  BY <1>2 DEF DropProject, DeleteLogin, Forgetting, machine
<1>3. ASSUME NEW p \in Processes, Save(p)
      PROVE  UNCHANGED slot \/ slot' = [slot EXCEPT ![SlotOf(p)] = proc[p].key]
  BY <1>3 DEF Save, Unsaved
<1>4. ASSUME NEW p \in Processes, Restore(p)
      PROVE  UNCHANGED slot \/ slot' = [slot EXCEPT ![SlotOf(p)] = proc[p].old]
  BY <1>4 DEF Restore
<1> QED
  BY <1>1, <1>2, <1>3, <1>4, MachineSteps DEF machine

LEMMA TrackedSteps ==
  ASSUME [Next]_vars
  PROVE  \/ UNCHANGED tracked
         \/ \E p \in Processes : TrackProject(p) /\ tracked' = [tracked EXCEPT ![proc[p].user] = proc[p].key]
         \/ \E u : tracked' = [tracked EXCEPT ![u] = 0]
<1>1. ASSUME NEW p \in Processes, Save(p) \/ Activate(p) \/ Restore(p) \/ DropProject(p)
               \/ DeleteLogin(p) \/ Deactivate(p)
      PROVE  UNCHANGED tracked
  BY <1>1 DEF Save, Activate, Restore, DropProject, DeleteLogin, Deactivate, Forgetting, machine
<1>2. ASSUME NEW p \in Processes, Untrack(p)
      PROVE  UNCHANGED tracked \/ \E u : tracked' = [tracked EXCEPT ![u] = 0]
  BY <1>2 DEF Untrack, Forgetting, machine
<1>3. ASSUME NEW p \in Processes, TrackProject(p)
      PROVE  UNCHANGED tracked \/ tracked' = [tracked EXCEPT ![proc[p].user] = proc[p].key]
  BY <1>3 DEF TrackProject
<1> QED
  BY <1>1, <1>2, <1>3, MachineSteps DEF machine

LEMMA ActiveType == ASSUME Core, [Next]_vars PROVE active' \in [{"setup", "personal"} -> Users \cup {None}]
<1>0. active \in [{"setup", "personal"} -> Users \cup {None}]
  BY DEF Core, Base, TypeOK
<1>1. ASSUME NEW p \in Processes, Save(p) \/ TrackProject(p) \/ Restore(p) \/ DropProject(p)
               \/ DeleteLogin(p) \/ Untrack(p)
      PROVE  UNCHANGED active
  BY <1>1 DEF Save, TrackProject, Restore, DropProject, DeleteLogin, Untrack, Forgetting, machine
<1>2. ASSUME NEW p \in Processes, Deactivate(p)
      PROVE  UNCHANGED active \/ \E kind : active' = [active EXCEPT ![kind] = None]
  BY <1>2 DEF Deactivate, Forgetting, machine
<1>3. ASSUME NEW p \in Processes, Activate(p)
      PROVE  /\ proc[p].user \in Users
             /\ UNCHANGED active \/ \E kind : active' = [active EXCEPT ![kind] = proc[p].user]
  BY <1>3, FlowOf DEF Activate, At, Flow, Core
<1> QED
  BY <1>0, <1>1, <1>2, <1>3, MachineSteps DEF machine

LEMMA NumbersKnown ==
  ASSUME Core, NEW p \in Processes
  PROVE  /\ proc[p].with \in 0..issued /\ proc[p].key \in 0..issued /\ proc[p].old \in 0..issued
         /\ txn[p].child \in 0..issued /\ txn[p].parent \in Nat
BY FlowOf DEF Core, Base, KnownInv, Proc, TypeOK, Txn

LEMMA MachineKnown ==
  ASSUME Core, [Next]_vars
  PROVE  /\ slot' \in [Slots -> Nat] /\ tracked' \in [Users -> Nat]
         /\ \A s \in Slots : slot'[s] <= issued'
         /\ \A u \in Users : tracked'[u] <= issued'
<1>0. slot \in [Slots -> 0..issued] /\ tracked \in [Users -> 0..issued] /\ issued \in Nat
  BY DEF Core, Base, KnownInv, TypeOK
<1>1. slot' \in [Slots -> 0..issued]
  BY <1>0, SlotSteps, NumbersKnown
<1>2. tracked' \in [Users -> 0..issued]
  BY <1>0, TrackedSteps, NumbersKnown
<1> QED
  BY <1>0, <1>1, <1>2, IssuedGrows

\* What a command reads from the store, or is given, is known.
LEMMA ReadsKnown ==
  ASSUME Core, [Next]_vars, NEW p \in Processes, Transition(p), proc' \in [Processes -> Proc]
  PROVE  proc'[p].with <= issued' /\ proc'[p].key <= issued' /\ proc'[p].old <= issued'
<1>0. issued \in Nat /\ issued' \in Nat /\ issued <= issued'
  BY IssuedGrows DEF Core, Base, TypeOK
<1>1. Remembered \subseteq 0..issued
  BY DEF Core, Base, KnownInv, TypeOK, Remembered
<1>2. proc'[p].with <= issued'
  <2>1. proc[p].with \in 0..issued /\ 0 \in 0..issued
    BY <1>0, NumbersKnown
  <2>2. proc'[p].with \in 0..issued
    <3>1. proc'[p].with \in {proc[p].with, 0} \/ proc'[p].with \in Remembered
      BY DEF Transition
    <3> QED
      BY <1>1, <2>1, <3>1
  <2> QED
    BY <1>0, <2>2
<1>3. proc'[p].key <= issued'
  <2>1. CollectCommit(p) => issued' = issued + 1
    BY DEF CollectCommit, Mint
  <2>2. IssueCommit(p) => issued' = issued + 1
    BY DEF IssueCommit, Mint
  <2> QED
    BY <1>0, <2>1, <2>2, NumbersKnown DEF Transition
<1>4. proc'[p].old <= issued'
  <2>1. ReadCached(p) => proc'[p].old \in Remembered
    BY FlowOf DEF ReadCached, Remembered, Slots, Core, Base, TypeOK, Proc
  <2>2. LoadOld(p) => proc'[p].old \in Remembered
    <3>1. LoadOld(p) => SlotOf(p) \in Slots
      BY FlowOf DEF LoadOld, Flow, At, SlotOf, KindOf, Slots, Core
    <3> QED
      BY <3>1, FlowOf DEF LoadOld, Remembered, Core, Base, TypeOK, Proc
  <2>3. ReadDescendants(p) => proc'[p].old \in Remembered
    <3>1. ReadDescendants(p) => proc[p].user \in Users
      BY FlowOf DEF ReadDescendants, Flow, At, Confirmed, Core
    <3> QED
      BY <3>1, FlowOf DEF ReadDescendants, Remembered, Core, Base, TypeOK, Proc
  <2>4. proc'[p].old = proc[p].old \/ proc'[p].old \in Remembered
    BY <2>1, <2>2, <2>3 DEF Transition
  <2>5. proc'[p].old \in 0..issued
    BY <1>1, <2>4, NumbersKnown
  <2> QED
    BY <1>0, <2>5
<1> QED
  BY <1>2, <1>3, <1>4

LEMMA KnownStep == ASSUME Core, [Next]_vars PROVE KnownInv'
<1>0. issued \in Nat /\ issued' \in Nat /\ issued <= issued' /\ proc' \in [Processes -> Proc]
  BY IssuedGrows, FlowStep DEF Core, Base, TypeOK, Flows
<1>1. ASSUME NEW p \in Processes
      PROVE  proc'[p].with <= issued' /\ proc'[p].key <= issued' /\ proc'[p].old <= issued'
  <2>1. CASE proc'[p] = proc[p]
    BY <1>0, <2>1, NumbersKnown
  <2>2. CASE Transition(p)
    BY <1>0, <2>2, ReadsKnown
  <2> QED
    BY <2>1, <2>2, ProcSteps DEF Core, Transition
<1>2. ASSUME NEW p \in Processes PROVE txn'[p].child <= issued'
  <2>0. txn \in [Processes -> Txn]
    BY DEF Core, Base, TypeOK
  <2>1. CASE txn'[p].child = txn[p].child
    BY <1>0, <2>1, NumbersKnown
  <2>2. CASE txn'[p] = NoTxn
    BY <1>0, <2>2 DEF NoTxn
  <2>3. ASSUME NEW child \in Nat, child # 0 => \E k \in live : k.id = child,
               txn'[p] = [user |-> proc[p].user, parent |-> proc[p].with, child |-> child]
        PROVE  txn'[p].child <= issued'
    BY <1>0, <2>3 DEF Core, KeysInv, Base, TypeOK, Key
  <2>4. ASSUME NEW q \in Processes, Opens(q) PROVE txn'[p].child <= issued'
    <3>1. CASE q # p
      BY <2>0, <2>1, <2>4, <3>1 DEF Opens
    <3>2. CASE q = p /\ txn' = [txn EXCEPT ![p].user = session[p].by]
      BY <2>0, <2>1, <3>2 DEF Txn
    <3> QED
      BY <2>0, <2>3, <2>4, <3>1, <3>2 DEF Opens, Children
  <2>5. ASSUME NEW q \in Processes, txn' = [txn EXCEPT ![q] = NoTxn] PROVE txn'[p].child <= issued'
    BY <2>0, <2>1, <2>2, <2>5
  <2> QED
    BY <2>1, <2>4, <2>5, TxnSteps
<1> QED
  BY <1>1, <1>2, MachineKnown DEF KnownInv

LEMMA WriterFaults == ASSUME Core, [Next]_vars PROVE writer' \in [Users -> BOOLEAN] /\ faults' \in Nat
<1>0. writer \in [Users -> BOOLEAN] /\ faults \in Nat
  BY DEF Core, Base, TypeOK
<1> DEFINE G == /\ UNCHANGED writer \/ \E u \in Users : writer' = [writer EXCEPT ![u] = ~writer[u]]
                /\ faults' = faults \/ faults' = faults + 1
<1>1. ASSUME UNCHANGED vars PROVE G
  BY <1>1 DEF vars
<1>2. ASSUME NEW u \in Users, CreateAPIToken(u) PROVE G
  BY <1>2 DEF CreateAPIToken, Fault
<1>3. ASSUME NEW u \in Users, ChangeAccess(u) PROVE G
  BY <1>3 DEF ChangeAccess, Fault
<1>4. ASSUME NEW id \in Ids, DeleteAPIToken(id) PROVE G
  BY <1>4 DEF DeleteAPIToken, Fault
<1>5. ASSUME NEW p \in Processes, DenyCLISession(p) PROVE G
  BY <1>5 DEF DenyCLISession, Fault
<1>6. ASSUME NEW p \in Processes, ExpireCLISession(p) PROVE G
  BY <1>6 DEF ExpireCLISession, Fault
<1>7. ASSUME NEW p \in Processes, NEW u \in Users, ApproveCLISession(p, u) PROVE G
  BY <1>7 DEF ApproveCLISession, Fault
<1>8. ASSUME NEW p \in Processes, NEW cmd \in Commands, NEW account \in Users \cup {None},
             NEW relink \in BOOLEAN, Start(p, cmd, account, relink)
      PROVE  G
  BY <1>8 DEF Start, Fault
<1>9. ASSUME NEW p \in Processes, ReadActive(p) PROVE G
  BY <1>9 DEF ReadActive, Fault
<1>10. ASSUME NEW p \in Processes, ReadStored(p) PROVE G
  BY <1>10 DEF ReadStored, Fault
<1>11. ASSUME NEW p \in Processes, Verify(p) PROVE G
  BY <1>11 DEF Verify, Fault
<1>12. ASSUME NEW p \in Processes, ReadCached(p) PROVE G
  BY <1>12 DEF ReadCached, Fault
<1>13. ASSUME NEW p \in Processes, CheckCached(p) PROVE G
  BY <1>13 DEF CheckCached, Fault
<1>14. ASSUME NEW p \in Processes, CreateCLISession(p) PROVE G
  BY <1>14 DEF CreateCLISession, Fault
<1>15. ASSUME NEW p \in Processes, PollRefused(p) PROVE G
  BY <1>15 DEF PollRefused, Fault
<1>16. ASSUME NEW p \in Processes, CollectDenied(p) PROVE G
  BY <1>16 DEF CollectDenied, Fault
<1>17. ASSUME NEW p \in Processes, CollectBegin(p) PROVE G
  BY <1>17 DEF CollectBegin, Fault
<1>18. ASSUME NEW p \in Processes, CollectCommit(p) PROVE G
  BY <1>18 DEF CollectCommit, Fault, Answered
<1>19. ASSUME NEW p \in Processes, IssueBegin(p) PROVE G
  BY <1>19 DEF IssueBegin, Fault
<1>20. ASSUME NEW p \in Processes, IssueCommit(p) PROVE G
  BY <1>20 DEF IssueCommit, Fault, Answered
<1>21. ASSUME NEW p \in Processes, Identify(p) PROVE G
  BY <1>21 DEF Identify, Fault
<1>22. ASSUME NEW p \in Processes, LoadOld(p) PROVE G
  BY <1>22 DEF LoadOld, Fault
<1>23. ASSUME NEW p \in Processes, Save(p) PROVE G
  BY <1>23 DEF Save, Fault, Unsaved
<1>24. ASSUME NEW p \in Processes, Activate(p) PROVE G
  BY <1>24 DEF Activate, Fault
<1>25. ASSUME NEW p \in Processes, TrackProject(p) PROVE G
  BY <1>25 DEF TrackProject, Fault
<1>26. ASSUME NEW p \in Processes, LinkDirectory(p) PROVE G
  BY <1>26 DEF LinkDirectory, Fault
<1>27. ASSUME NEW p \in Processes, Restore(p) PROVE G
  BY <1>27 DEF Restore, Fault
<1>28. ASSUME NEW p \in Processes, RevokeAfterFailure(p) PROVE G
  BY <1>28 DEF RevokeAfterFailure, Fault, HandleRevokeOwnToken, Unanswered
<1>29. ASSUME NEW p \in Processes, GiveUp(p) PROVE G
  BY <1>29 DEF GiveUp, Fault, HandleRevokeOwnToken, Unanswered
<1>30. ASSUME NEW p \in Processes, ReadDescendants(p) PROVE G
  BY <1>30 DEF ReadDescendants, Fault
<1>31. ASSUME NEW p \in Processes, MatchDescendant(p) PROVE G
  BY <1>31 DEF MatchDescendant, Fault
<1>32. ASSUME NEW p \in Processes, DropProject(p) PROVE G
  BY <1>32 DEF DropProject, Fault, Forgetting
<1>33. ASSUME NEW p \in Processes, Untrack(p) PROVE G
  BY <1>33 DEF Untrack, Fault, Forgetting
<1>34. ASSUME NEW p \in Processes, DeleteLogin(p) PROVE G
  BY <1>34 DEF DeleteLogin, Fault, Forgetting
<1>35. ASSUME NEW p \in Processes, ReadActiveAgain(p) PROVE G
  BY <1>35 DEF ReadActiveAgain, Fault
<1>36. ASSUME NEW p \in Processes, Deactivate(p) PROVE G
  BY <1>36 DEF Deactivate, Fault, Forgetting
<1>37. ASSUME NEW p \in Processes, Crash(p) PROVE G
  BY <1>37 DEF Crash, Fault
<1> HIDE DEF G
<1>38. G
  BY <1>1, <1>2, <1>3, <1>4, <1>5, <1>6, <1>7, <1>8, <1>9, <1>10, <1>11, <1>12, <1>13,
     <1>14, <1>15, <1>16, <1>17, <1>18, <1>19, <1>20, <1>21, <1>22, <1>23, <1>24,
     <1>25, <1>26, <1>27, <1>28, <1>29, <1>30, <1>31, <1>32, <1>33, <1>34, <1>35,
     <1>36, <1>37 DEF Next, Browser, Command
<1>39. ASSUME NEW u \in Users, writer' = [writer EXCEPT ![u] = ~writer[u]]
       PROVE  writer' \in [Users -> BOOLEAN]
  <2>1. ASSUME NEW b \in BOOLEAN PROVE [writer EXCEPT ![u] = b] \in [Users -> BOOLEAN]
    BY <1>0
  <2>2. (~writer[u]) \in BOOLEAN
    BY Zenon
  <2> QED
    BY <1>39, <2>1, <2>2, Zenon
<1> QED
  BY <1>0, <1>38, <1>39 DEF G

LEMMA BaseStep == ASSUME Core, [Next]_vars PROVE Base'
<1>1. TypeOK'
  BY LiveType, IssuedGrows, WriterFaults, SessionStep, TxnType, MachineKnown, ActiveType, FlowStep
     DEF TypeOK, Core, Flows
<1>2. FlowInv'
  BY FlowStep DEF Core, Flows
<1> QED
  BY <1>1, <1>2, KnownStep DEF Base

\* While a request of p is open, only its end concerns p.
LEMMA Undisturbed ==
  ASSUME Core, [Next]_vars, NEW p \in Processes, Busy(p)
  PROVE  txn'[p] = NoTxn \/ (proc'[p] = proc[p] /\ session'[p] = session[p] /\ txn'[p] = txn[p])
<1>0. /\ txn \in [Processes -> Txn] /\ session \in [Processes -> Session]
      /\ proc[p].pc \in {"poll", "issue"}
      /\ At(p, "poll") => session[p].state = "approved"
  BY DEF Core, Base, TypeOK, TxnInv
<1>1. CASE txn'[p] # txn[p]
  <2>1. ASSUME NEW q \in Processes, Opens(q) PROVE FALSE
    <3>1. ~Busy(q)
      BY <2>1 DEF Opens, CollectBegin, IssueBegin
    <3>2. q # p
      BY <3>1
    <3> QED
      BY <1>0, <1>1, <2>1, <3>2 DEF Opens
  <2> QED
    BY <1>0, <1>1, <2>1, TxnSteps
<1>2. CASE txn'[p] = txn[p] /\ txn'[p] # NoTxn
  <2>1. ASSUME NEW q \in Processes, Command(q), Transition(q) PROVE proc'[p] = proc[p]
    <3>1. CASE q # p
      BY <2>1, <3>1 DEF Transition
    <3>2. ~Crash(p) /\ ~CollectCommit(p) /\ ~IssueCommit(p)
      BY <1>0, <1>2 DEF Crash, CollectCommit, IssueCommit
    <3>3. ~PollRefused(p) /\ ~CollectDenied(p) /\ ~CollectBegin(p) /\ ~IssueBegin(p)
      BY <1>0 DEF PollRefused, CollectDenied, CollectBegin, IssueBegin
    <3>4. ~CreateCLISession(p) /\ ~RevokeAfterFailure(p) /\ ~GiveUp(p)
      BY <1>0 DEF CreateCLISession, RevokeAfterFailure, GiveUp, At
    <3>5. ASSUME NEW cmd, NEW account, NEW relink, Start(p, cmd, account, relink) PROVE FALSE
      BY <1>0, <3>5 DEF Start, At
    <3>6. ~ReadActive(p) /\ ~ReadStored(p) /\ ~Verify(p) /\ ~ReadCached(p) /\ ~CheckCached(p)
      BY <1>0 DEF ReadActive, ReadStored, Verify, ReadCached, CheckCached, At
    <3>7. ~Identify(p) /\ ~LoadOld(p) /\ ~Save(p) /\ ~Activate(p)
          /\ ~TrackProject(p) /\ ~LinkDirectory(p) /\ ~Restore(p)
      BY <1>0 DEF Identify, LoadOld, Save, Activate, TrackProject, LinkDirectory, Restore, At
    <3>8. /\ ~ReadDescendants(p) /\ ~MatchDescendant(p) /\ ~DropProject(p) /\ ~Untrack(p)
          /\ ~DeleteLogin(p) /\ ~ReadActiveAgain(p) /\ ~Deactivate(p)
      BY <1>0 DEF ReadDescendants, MatchDescendant, DropProject, Untrack, DeleteLogin, ReadActiveAgain,
                  Deactivate, Forgetting, At
    <3>9. CASE q = p
      BY <2>1, <3>2, <3>3, <3>4, <3>5, <3>6, <3>7, <3>8, <3>9 DEF Command
    <3> QED
      BY <3>1, <3>9
  <2>2. proc'[p] = proc[p]
    BY <2>1, ProcSteps DEF Core
  <2>3. session'[p] = session[p]
    <3>1. ASSUME NEW q \in Processes, NEW s \in Session, session' = [session EXCEPT ![q] = s], q # p
          PROVE  session'[p] = session[p]
      BY <1>0, <3>1
    <3>2. ASSUME NEW q \in Processes, DenyCLISession(q) \/ ExpireCLISession(q) \/ CollectDenied(q)
                   \/ \E u \in Users : ApproveCLISession(q, u)
          PROVE  session'[p] = session[p]
      BY <1>0, <3>2 DEF DenyCLISession, ExpireCLISession, CollectDenied, ApproveCLISession
    <3>3. ASSUME NEW q \in Processes, CreateCLISession(q) PROVE session'[p] = session[p]
      BY <1>0, <3>3 DEF CreateCLISession, At
    <3>4. ASSUME NEW q \in Processes, CollectCommit(q) PROVE session'[p] = session[p]
      BY <1>0, <1>2, <3>4 DEF CollectCommit
    <3>5. ASSUME NEW q \in Processes, CollectBegin(q) \/ IssueBegin(q) \/ IssueCommit(q)
                   \/ RevokeAfterFailure(q) \/ GiveUp(q) \/ Crash(q)
          PROVE  UNCHANGED session
      BY <3>5 DEF CollectBegin, IssueBegin, IssueCommit, RevokeAfterFailure, GiveUp, Crash
    <3> QED
      BY <3>2, <3>3, <3>4, <3>5, ServerSteps DEF server, CreateAPIToken, DeleteAPIToken
  <2> QED
    BY <1>2, <2>2, <2>3
<1> QED
  BY <1>1, <1>2, <1>0

\* The key a request issues from outlives the request.
LEMMA ParentStays ==
  ASSUME Core, [Next]_vars, NEW p \in Processes, Busy(p), At(p, "issue"),
         NEW k \in live, k.id = txn[p].parent, k.kind = "setup"
  PROVE  k \in live'
<1>0. /\ k.parent = 0 /\ txn[p].parent # 0
      /\ \A q \in Processes : Busy(q) => k.id # txn[q].child
  BY DEF Core, KeysInv, TxnInv, Base, TypeOK, Key
<1>1. ASSUME NEW id \in Nat \ {0}, live' = Deleted(id), RowFree(id) PROVE k \in live'
  BY <1>0, <1>1 DEF Deleted, RowFree
<1>2. ASSUME NEW q \in Processes, CollectCommit(q) PROVE k \in live'
  BY <1>2 DEF CollectCommit, Mint
<1>3. ASSUME NEW q \in Processes, IssueCommit(q) PROVE k \in live'
  <2>1. CASE Mint(txn[q].user, "project", txn[q].parent, q)
    BY <2>1 DEF Mint
  <2>2. CASE live' = {Rotated(l, txn[q].child, q) : l \in live}
    <3>1. k.id # txn[q].child
      BY <1>0, <1>3 DEF IssueCommit
    <3>2. Rotated(k, txn[q].child, q) = k
      BY <3>1 DEF Rotated
    <3> QED
      BY <2>2, <3>2
  <2> QED
    BY <1>3, <2>1, <2>2, IssueMints
<1>4. ASSUME NEW u \in Users, CreateAPIToken(u) PROVE k \in live'
  BY <1>4 DEF CreateAPIToken, Mint
<1> QED
  BY <1>1, <1>2, <1>3, <1>4, LiveSteps

LEMMA TxnStep == ASSUME Core, [Next]_vars PROVE TxnInv'
<1> SUFFICES ASSUME NEW p \in Processes, Busy(p)'
    PROVE  (/\ txn[p].user \in Users
            /\ proc[p].pc \in {"poll", "issue"}
            /\ At(p, "poll") => /\ txn[p].parent = 0 /\ txn[p].child = 0
                                /\ session[p] = [state |-> "approved", by |-> txn[p].user]
            /\ At(p, "issue") => /\ txn[p].parent # 0
                                 /\ \E k \in live : k.id = txn[p].parent /\ k.kind = "setup"
            /\ \A k \in live : k.id = txn[p].child => k.kind = "project")'
  BY DEF TxnInv
<1>0. txn \in [Processes -> Txn] /\ session \in [Processes -> Session]
  BY DEF Core, Base, TypeOK
<1>1. CASE Busy(p)
  <2>1. proc'[p] = proc[p] /\ session'[p] = session[p] /\ txn'[p] = txn[p]
    BY <1>1, Undisturbed DEF Busy
  <2>2. At(p, "issue") => \E k \in live' : k.id = txn[p].parent /\ k.kind = "setup"
    BY <1>1, ParentStays DEF Core, TxnInv
  <2>3. ASSUME NEW k \in live', k.id = txn[p].child PROVE k.kind = "project"
    <3>1. txn[p].child # issued + 1
      BY NumbersKnown DEF Core, Base, TypeOK
    <3>2. k \in live
      BY <2>3, <3>1, KeysAfter
    <3> QED
      BY <1>1, <2>3, <3>2 DEF Core, TxnInv
  <2>4. TxnInv
    BY DEF Core
  <2> QED
    BY <1>1, <2>1, <2>2, <2>3, <2>4 DEF TxnInv, At
<1>2. CASE ~Busy(p)
  <2>1. Opens(p)
    <3>1. ASSUME NEW q \in Processes, Opens(q) PROVE q = p
      BY <1>0, <1>2, <3>1 DEF Opens, Busy
    <3> QED
      BY <1>0, <1>2, <3>1, TxnSteps DEF Busy
  <2>2. CASE CollectBegin(p) /\ txn' = [txn EXCEPT ![p].user = session[p].by]
    <3>1. /\ txn'[p].user = session[p].by /\ txn'[p].parent = 0 /\ txn'[p].child = 0
          /\ session' = session /\ live' = live
      BY <1>0, <1>2, <2>2 DEF CollectBegin, Busy, NoTxn, Txn
    <3>2. session[p].by \in Users /\ session[p].state = "approved"
      BY <2>2 DEF CollectBegin, Core, ApprovalInv
    <3>3. session[p] = [state |-> "approved", by |-> session[p].by]
      BY <1>0, <3>2 DEF Session
    <3>4. proc' = proc
      <4>1. CASE UNCHANGED proc
        BY <4>1
      <4>2. CASE UNCHANGED txn
        BY <1>2, <4>2 DEF Busy
      <4> QED
        BY <2>2, <4>1, <4>2 DEF CollectBegin
    <3>5. \A k \in live : k.id # 0
      BY DEF Core, KeysInv, Base, TypeOK, Key
    <3>6. proc[p].pc = "poll"
      BY <2>2 DEF CollectBegin, At
    <3> QED
      BY <3>1, <3>2, <3>3, <3>4, <3>5, <3>6 DEF At
  <2>3. ASSUME NEW child \in Nat, IssueBegin(p), Works(proc[p].with, proc[p].user, "setup"),
               child # 0 => \E k \in Children(proc[p].with) : k.id = child,
               txn' = [txn EXCEPT ![p] = [user |-> proc[p].user, parent |-> proc[p].with,
                                          child |-> child]]
        PROVE  (/\ txn[p].user \in Users
                /\ proc[p].pc = "issue"
                /\ txn[p].parent # 0
                /\ \E k \in live : k.id = txn[p].parent /\ k.kind = "setup"
                /\ \A k \in live : k.id = txn[p].child => k.kind = "project")'
    <3>1. PICK k \in live : k.id = proc[p].with /\ k.user = proc[p].user /\ k.kind = "setup"
      BY <2>3 DEF Works
    <3>2. k.user \in Users /\ k.id # 0
      BY DEF Core, KeysInv, Base, TypeOK, Key
    <3>3. ASSUME NEW l \in live, l.id = child PROVE l.kind = "project"
      <4>1. child # 0
        BY <3>3 DEF Core, KeysInv, Base, TypeOK, Key
      <4>2. PICK m \in live : m.id = child /\ m.parent = proc[p].with
        BY <2>3, <4>1 DEF Children
      <4> QED
        BY <3>1, <3>2, <3>3, <4>2 DEF Core, KeysInv
    <3>4. /\ txn'[p].user = proc[p].user /\ txn'[p].parent = proc[p].with
          /\ txn'[p].child = child /\ live' = live
      BY <1>0, <2>3 DEF IssueBegin
    <3>5. proc[p].pc = "issue" /\ txn' # txn
      BY <1>2, <2>3 DEF IssueBegin, At, Busy
    <3>6. proc' = proc
      BY <2>3, <3>5 DEF IssueBegin
    <3> QED
      BY <3>1, <3>2, <3>3, <3>4, <3>5, <3>6
  <2>4. CASE CollectBegin(p)
    BY <2>1, <2>2, <2>4 DEF Opens, CollectBegin, IssueBegin, At
  <2>5. CASE ~CollectBegin(p)
    <3>1. (/\ txn[p].user \in Users
           /\ proc[p].pc = "issue"
           /\ txn[p].parent # 0
           /\ \E k \in live : k.id = txn[p].parent /\ k.kind = "setup"
           /\ \A k \in live : k.id = txn[p].child => k.kind = "project")'
      BY <2>1, <2>3, <2>5 DEF Opens
    <3> QED
      BY <3>1 DEF At
  <2> QED
    BY <2>4, <2>5
<1> QED
  BY <1>1, <1>2

LEMMA CoreStep == Core /\ [Next]_vars => Core'
BY BaseStep, KeysStep, TxnStep, SessionStep DEF Core

LEMMA InitCore == Init => Core
<1> SUFFICES ASSUME Init PROVE Core
  OBVIOUS
<1>1. KeysInv
  <2>1. CASE Fresh
    BY <2>1 DEF Fresh, KeysInv
  <2>2. ASSUME NEW u \in Users, SignedIn(u) PROVE KeysInv
    BY <2>2 DEF SignedIn, KeysInv
  <2> QED
    BY <2>1, <2>2 DEF Init
<1>2. TxnInv /\ ApprovalInv
  BY DEF Init, TxnInv, ApprovalInv, Busy, NoSession
<1> QED
  BY <1>1, <1>2, InitBase DEF Core

\* Every variable has its type, and each command is at a point its kind reaches.
THEOREM TypeCorrect == Spec => []TypeOK
<1>1. Core => TypeOK
  BY DEF Core, Base
<1> QED
  BY <1>1, InitCore, CoreStep, PTL DEF Spec

-----------------------------------------------------------------------------
(* The quota.                                                              *)

\* A transaction that will add a key is alone with the keys of its person,
\* and there is room.
RoomInv ==
  /\ \A p \in Processes : Busy(p) /\ txn[p].child = 0 => Cardinality(KeysOf(txn[p].user)) < Limit
  /\ \A p, q \in Processes : /\ Busy(p) /\ txn[p].child = 0
                             /\ Busy(q) /\ txn[q].child = 0
                             /\ txn[p].user = txn[q].user
                             => p = q

QuotaInv == QuotaKept /\ RoomInv

LEMMA KeysCounted ==
  ASSUME Core, NEW u
  PROVE  IsFiniteSet(KeysOf(u)) /\ Cardinality(KeysOf(u)) \in Nat
<1>1. IsFiniteSet(live) /\ KeysOf(u) \in SUBSET live
  BY DEF Core, Base, TypeOK, KeysOf
<1> QED
  BY <1>1, FS_Subset, FS_CardinalityType

LEMMA KeysCountedAfter ==
  ASSUME Core, [Next]_vars, NEW u
  PROVE  Cardinality(KeysOf(u)') \in Nat
<1>1. IsFiniteSet(live') /\ KeysOf(u)' \in SUBSET live'
  BY LiveType DEF KeysOf
<1> QED
  BY <1>1, FS_Subset, FS_CardinalityType

\* Unless a key is added, nobody has more keys than before.
LEMMA FewerKeys ==
  ASSUME Core, [Next]_vars, NEW u \in Users
  PROVE  \/ Cardinality(KeysOf(u)') <= Cardinality(KeysOf(u))
         \/ /\ Cardinality(KeysOf(u)') = Cardinality(KeysOf(u)) + 1
            /\ \/ CreateAPIToken(u)
               \/ \E p \in Processes : /\ Busy(p) /\ txn[p].user = u /\ txn[p].child = 0
                                       /\ txn' = [txn EXCEPT ![p] = NoTxn]
<1> DEFINE G == Cardinality(KeysOf(u)') <= Cardinality(KeysOf(u))
<1>0. Cardinality(KeysOf(u)) \in Nat
  BY KeysCounted
<1>1. ASSUME KeysOf(u)' \in SUBSET KeysOf(u) PROVE G
  <2>1. ASSUME NEW T \in SUBSET KeysOf(u) PROVE Cardinality(T) <= Cardinality(KeysOf(u))
    BY KeysCounted, FS_Subset
  <2> QED
    BY <1>1, <2>1
<1>2. ASSUME UNCHANGED <<live, issued>> PROVE G
  BY <1>1, <1>2 DEF KeysOf
<1>3. ASSUME NEW id, live' = Deleted(id) PROVE G
  BY <1>1, <1>3 DEF KeysOf, Deleted
<1>4. ASSUME NEW v \in Users, NEW kind \in Kinds, NEW parent \in Nat,
             NEW w \in Processes \cup {None}, Mint(v, kind, parent, w)
      PROVE  G \/ (v = u /\ Cardinality(KeysOf(u)') = Cardinality(KeysOf(u)) + 1)
  <2>1. CASE v = u
    BY <1>4, <2>1, MintedKey
  <2>2. CASE v # u
    <3>1. KeysOf(u)' = KeysOf(u)
      BY <1>4, <2>2, MintedKey
    <3> QED
      BY <1>1, <3>1
  <2> QED
    BY <2>1, <2>2
<1>5. ASSUME NEW v \in Users, CreateAPIToken(v)
      PROVE  G \/ (v = u /\ Cardinality(KeysOf(u)') = Cardinality(KeysOf(u)) + 1)
  BY <1>4, <1>5 DEF CreateAPIToken, Kinds
<1>6. ASSUME NEW p \in Processes, CollectCommit(p)
      PROVE  G \/ /\ Cardinality(KeysOf(u)') = Cardinality(KeysOf(u)) + 1
                  /\ Busy(p) /\ txn[p].user = u /\ txn[p].child = 0
                  /\ txn' = [txn EXCEPT ![p] = NoTxn]
  <2>1. PICK v \in Users, kind \in Kinds : v = txn[p].user /\ Mint(v, kind, 0, p)
    BY <1>6, CollectMints
  <2> QED
    BY <1>4, <1>6, <2>1, CollectMints DEF CollectCommit
<1>7. ASSUME NEW p \in Processes, IssueCommit(p)
      PROVE  G \/ /\ Cardinality(KeysOf(u)') = Cardinality(KeysOf(u)) + 1
                  /\ Busy(p) /\ txn[p].user = u /\ txn[p].child = 0
                  /\ txn' = [txn EXCEPT ![p] = NoTxn]
  <2>1. CASE live' = {Rotated(k, txn[p].child, p) : k \in live}
    BY <2>1, RotatedKeys
  <2>2. CASE txn[p].child = 0 /\ Mint(txn[p].user, "project", txn[p].parent, p)
    <3>1. txn[p].user \in Users /\ txn[p].parent \in Nat
      BY <1>7, IssueMints
    <3> QED
      BY <1>4, <1>7, <2>2, <3>1 DEF IssueCommit, Kinds
  <2> QED
    BY <1>7, <2>1, <2>2, IssueMints
<1> HIDE DEF G
<1>8. G \/ /\ Cardinality(KeysOf(u)') = Cardinality(KeysOf(u)) + 1
           /\ \/ CreateAPIToken(u)
              \/ \E p \in Processes : /\ Busy(p) /\ txn[p].user = u /\ txn[p].child = 0
                                      /\ txn' = [txn EXCEPT ![p] = NoTxn]
  BY <1>2, <1>3, <1>5, <1>6, <1>7, LiveSteps
<1> QED
  BY <1>8 DEF G

LEMMA QuotaKeptStep == ASSUME Core, QuotaInv, [Next]_vars PROVE QuotaKept'
<1> SUFFICES ASSUME NEW u \in Users PROVE Cardinality(KeysOf(u)') <= Limit
  BY DEF QuotaKept
<1>0. /\ Cardinality(KeysOf(u)) \in Nat /\ Limit \in Nat /\ Cardinality(KeysOf(u)) <= Limit
      /\ Cardinality(KeysOf(u)') \in Nat
  BY KeysCounted, KeysCountedAfter, LimitAssumption DEF QuotaInv, QuotaKept
<1>1. CreateAPIToken(u) => Cardinality(KeysOf(u)) < Limit
  BY DEF CreateAPIToken, CanCreate
<1>2. ASSUME NEW p \in Processes, Busy(p), txn[p].user = u, txn[p].child = 0
      PROVE  Cardinality(KeysOf(u)) < Limit
  BY <1>2 DEF QuotaInv, RoomInv
<1> QED
  BY <1>0, <1>1, <1>2, FewerKeys

LEMMA RoomStep == ASSUME Core, QuotaInv, [Next]_vars PROVE RoomInv'
<1>0. txn \in [Processes -> Txn] /\ txn' \in [Processes -> Txn]
  BY CoreStep DEF Core, Base, TypeOK
<1>1. ASSUME \A p \in Processes : txn'[p] \in {txn[p], NoTxn} PROVE RoomInv'
  <2>1. \A p \in Processes : Busy(p)' => Busy(p) /\ txn'[p] = txn[p]
    BY <1>1 DEF Busy
  <2>2. ASSUME NEW p \in Processes, Busy(p)', txn'[p].child = 0, NEW u \in Users, u = txn'[p].user
        PROVE  Cardinality(KeysOf(u)') < Limit
    <3>1. Busy(p) /\ txn'[p] = txn[p] /\ txn[p].child = 0 /\ txn[p].user = u
      BY <2>1, <2>2
    <3>2. Cardinality(KeysOf(u)) < Limit
      BY <3>1 DEF QuotaInv, RoomInv
    <3>3. ~CreateAPIToken(u)
      BY <3>1 DEF CreateAPIToken, CanCreate, KeyLockFree
    <3>4. ASSUME NEW q \in Processes, Busy(q), txn[q].user = u, txn[q].child = 0,
                 txn' = [txn EXCEPT ![q] = NoTxn]
          PROVE  FALSE
      <4>1. q = p
        BY <3>1, <3>4 DEF QuotaInv, RoomInv
      <4> QED
        BY <1>0, <2>2, <3>4, <4>1 DEF Busy
    <3>5. Cardinality(KeysOf(u)) \in Nat /\ Cardinality(KeysOf(u)') \in Nat /\ Limit \in Nat
      BY KeysCounted, KeysCountedAfter, LimitAssumption
    <3>6. Cardinality(KeysOf(u)') <= Cardinality(KeysOf(u))
      BY <3>3, <3>4, FewerKeys
    <3> QED
      BY <3>2, <3>5, <3>6
  <2>3. ASSUME NEW p \in Processes, NEW q \in Processes, Busy(p)', txn'[p].child = 0,
               Busy(q)', txn'[q].child = 0, txn'[p].user = txn'[q].user
        PROVE  p = q
    BY <2>1, <2>3 DEF QuotaInv, RoomInv
  <2>4. \A p \in Processes : Busy(p)' => txn'[p].user \in Users
    BY <2>1 DEF Core, TxnInv
  <2> QED
    BY <2>2, <2>3, <2>4 DEF RoomInv
<1>2. ASSUME NEW p \in Processes, Opens(p) PROVE RoomInv'
  <2>1. live' = live
    BY <1>2 DEF Opens, CollectBegin, IssueBegin
  <2>2. \A q \in Processes \ {p} : txn'[q] = txn[q]
    BY <1>0, <1>2 DEF Opens
  <2>3. txn'[p].child = 0 => CanCreate(txn'[p].user)
    <3>1. CASE CollectBegin(p) /\ CanCreate(session[p].by) /\ txn' = [txn EXCEPT ![p].user = session[p].by]
      BY <1>0, <3>1 DEF Txn
    <3>2. ASSUME NEW child \in Nat, child = 0 => CanCreate(proc[p].user),
                 txn' = [txn EXCEPT ![p] = [user |-> proc[p].user, parent |-> proc[p].with,
                                            child |-> child]]
          PROVE  txn'[p].child = 0 => CanCreate(txn'[p].user)
      BY <1>0, <3>2
    <3> QED
      BY <1>2, <3>1, <3>2 DEF Opens
  <2>4. ASSUME NEW q \in Processes, Busy(q)', txn'[q].child = 0, NEW u, u = txn'[q].user
        PROVE  Cardinality(KeysOf(u)') < Limit
    <3>0. KeysOf(u)' = KeysOf(u)
      BY <2>1 DEF KeysOf
    <3>1. CASE q = p
      BY <2>3, <2>4, <3>0, <3>1 DEF CanCreate
    <3>2. CASE q # p
      BY <2>2, <2>4, <3>0, <3>2 DEF QuotaInv, RoomInv, Busy
    <3> QED
      BY <3>1, <3>2
  <2>5. ASSUME NEW q \in Processes \ {p}, txn'[q].child = 0, txn'[p].child = 0
        PROVE  txn'[q].user # txn'[p].user
    BY <2>2, <2>3, <2>5 DEF CanCreate, KeyLockFree
  <2>6. ASSUME NEW q \in Processes \ {p}, NEW r \in Processes \ {p}, Busy(q)', txn'[q].child = 0,
               Busy(r)', txn'[r].child = 0, txn'[q].user = txn'[r].user
        PROVE  q = r
    BY <2>2, <2>6 DEF QuotaInv, RoomInv, Busy
  <2>7. \A q \in Processes : Busy(q)' /\ txn'[q].child = 0 => (Cardinality(KeysOf(txn[q].user)) < Limit)'
    BY <2>4
  <2> QED
    BY <2>5, <2>6, <2>7 DEF RoomInv
<1> QED
  BY <1>0, <1>1, <1>2, TxnSteps

\* A person never has more than Limit keys (QuotaKept), since adding one holds
\* a lock of the person from the count to the insertion.
THEOREM QuotaHolds == Spec => []QuotaKept
<1>1. Init => QuotaInv
  <2> SUFFICES ASSUME Init PROVE QuotaInv
    OBVIOUS
  <2>1. RoomInv
    BY DEF Init, RoomInv, Busy
  <2>2. ASSUME NEW u \in Users PROVE Cardinality(KeysOf(u)) <= Limit
    <3>1. CASE Fresh
      <4>1. KeysOf(u) = {}
        BY <3>1 DEF Fresh, KeysOf
      <4> QED
        BY <4>1, FS_EmptySet, LimitAssumption
    <3>2. ASSUME NEW v \in Users, SignedIn(v) PROVE Cardinality(KeysOf(u)) <= Limit
      <4> DEFINE a == [id |-> 1, user |-> v, kind |-> "setup", parent |-> 0, via |-> None]
                 b == [id |-> 2, user |-> v, kind |-> "project", parent |-> 1, via |-> None]
      <4>1. live = {a} \cup {b}
        BY <3>2 DEF SignedIn
      <4>2. IsFiniteSet({a}) /\ Cardinality({a}) = 1
        BY FS_Singleton
      <4> HIDE DEF a, b
      <4>3. IsFiniteSet(live) /\ Cardinality(live) <= 2 /\ Cardinality(live) \in Nat
        <5>1. IsFiniteSet(live) /\ Cardinality(live) = IF b \in {a} THEN 1 ELSE 2
          BY <4>1, <4>2, FS_AddElement
        <5> QED
          BY <5>1
      <4>4. KeysOf(u) \in SUBSET live
        BY DEF KeysOf
      <4>5. Cardinality(KeysOf(u)) <= Cardinality(live) /\ Cardinality(KeysOf(u)) \in Nat
        BY <4>3, <4>4, FS_Subset, FS_CardinalityType
      <4> QED
        BY <4>3, <4>5, LimitAssumption
    <3> QED
      BY <3>1, <3>2 DEF Init
  <2> QED
    BY <2>1, <2>2 DEF QuotaInv, QuotaKept
<1>2. Core /\ QuotaInv /\ [Next]_vars => QuotaInv'
  BY QuotaKeptStep, RoomStep DEF QuotaInv
<1>3. QuotaInv => QuotaKept
  BY DEF QuotaInv
<1> QED
  BY <1>1, <1>2, <1>3, InitCore, CoreStep, PTL DEF Spec

-----------------------------------------------------------------------------
(* Consent.                                                                *)

\* A command that could not be given a key yet has none.
UnkeyedInv == \A p \in Processes : proc[p].pc \in Early => \A k \in live : k.via # p

LEMMA MintedLate ==
  ASSUME Core, NEW p \in Processes, CollectCommit(p) \/ IssueCommit(p)
  PROVE  proc'[p].pc \in {"done", "identify", "failed"} /\ proc'[p].cmd = proc[p].cmd
<1>1. proc \in [Processes -> Proc]
  BY DEF Core, Base, TypeOK
<1>2. ASSUME NEW id, NEW pc, Answered(p, id, pc)
      PROVE  proc'[p].pc \in {pc, "failed"} /\ proc'[p].cmd = proc[p].cmd
  BY <1>1, <1>2 DEF Answered, Goto, Proc
<1>3. CASE CollectCommit(p)
  <2>1. PICK pc \in {"done", "identify"} : Answered(p, issued + 1, pc)
    BY <1>3 DEF CollectCommit
  <2> QED
    BY <1>2, <2>1
<1>4. CASE IssueCommit(p)
  <2>1. Answered(p, issued + 1, "identify")
    BY <1>4 DEF IssueCommit
  <2> QED
    BY <1>2, <2>1
<1> QED
  BY <1>3, <1>4

LEMMA UnkeyedStep == ASSUME Core, UnkeyedInv, [Next]_vars PROVE UnkeyedInv'
<1> SUFFICES ASSUME NEW p \in Processes, proc'[p].pc \in Early, NEW k \in live' PROVE k.via # p
  BY DEF UnkeyedInv
<1>1. proc[p].pc \in Early
  BY ProcSteps DEF Core, Transition
<1>2. CASE k \in live
  BY <1>1, <1>2 DEF UnkeyedInv
<1>3. CASE k.via = None
  BY <1>3, NoneAssumption
<1>4. ASSUME NEW q \in Processes, CollectCommit(q) \/ IssueCommit(q), k.via = q PROVE k.via # p
  BY <1>4, MintedLate DEF Early
<1> QED
  BY <1>2, <1>3, <1>4, KeysAfter

\* A collected session stays collected, by whom it was.
LEMMA SessionStays ==
  ASSUME Core, [Next]_vars, NEW p \in Processes, session[p].state = "collected", ~At(p, "device")
  PROVE  session'[p] = session[p]
<1>0. session \in [Processes -> Session]
  BY DEF Core, Base, TypeOK
<1>1. CASE UNCHANGED session
  BY <1>1
<1>2. ASSUME NEW q \in Processes, NEW u \in Users, ApproveCLISession(q, u)
      PROVE  session'[p] = session[p]
  BY <1>0, <1>2 DEF ApproveCLISession, Approvable
<1>3. ASSUME NEW q \in Processes, DenyCLISession(q) PROVE session'[p] = session[p]
  BY <1>0, <1>3 DEF DenyCLISession, Deniable
<1>4. ASSUME NEW q \in Processes, ExpireCLISession(q) PROVE session'[p] = session[p]
  BY <1>0, <1>4 DEF ExpireCLISession
<1>5. ASSUME NEW q \in Processes, CreateCLISession(q) PROVE session'[p] = session[p]
  BY <1>0, <1>5 DEF CreateCLISession
<1>6. ASSUME NEW q \in Processes, CollectDenied(q) PROVE session'[p] = session[p]
  BY <1>0, <1>6 DEF CollectDenied
<1>7. ASSUME NEW q \in Processes, CollectCommit(q) PROVE session'[p] = session[p]
  <2>1. session[q] = [state |-> "approved", by |-> txn[q].user]
    BY <1>7, CollectMints
  <2>2. session' = [session EXCEPT ![q].state = "collected"]
    BY <1>7 DEF CollectCommit
  <2>3. q # p
    BY <2>1
  <2> QED
    BY <1>0, <2>2, <2>3
<1>8. ASSUME NEW q \in Processes, CollectBegin(q) \/ IssueBegin(q) \/ IssueCommit(q)
               \/ RevokeAfterFailure(q) \/ GiveUp(q) \/ Crash(q)
      PROVE  UNCHANGED session
  BY <1>8 DEF CollectBegin, IssueBegin, IssueCommit, RevokeAfterFailure, GiveUp, Crash
<1> QED
  BY <1>1, <1>2, <1>3, <1>4, <1>5, <1>6, <1>7, <1>8, ServerSteps
     DEF server, CreateAPIToken, DeleteAPIToken

LEMMA ConsentStep == ASSUME Core, UnkeyedInv, ConsentHeld, [Next]_vars PROVE ConsentHeld'
<1> SUFFICES ASSUME NEW k \in live', NEW p \in Processes, k.via = p, proc'[p].cmd # "init"
             PROVE  /\ session'[p] = [state |-> "collected", by |-> k.user]
                    /\ \A l \in live' : l.via = p => l = k
  <2>1. \A k \in live' : k.via # None => k.via \in Processes
    BY KeysAfter DEF Key
  <2> QED
    BY <2>1 DEF ConsentHeld
<1>0. session \in [Processes -> Session] /\ p # None
  BY NoneAssumption DEF Core, Base, TypeOK
<1>1. CASE k \in live
  <2>1. proc[p].pc \notin Early
    BY <1>1 DEF UnkeyedInv
  <2>2. proc'[p].cmd = proc[p].cmd
    BY <2>1, ProcSteps DEF Core, Transition, At, Early
  <2>3. /\ session[p] = [state |-> "collected", by |-> k.user]
        /\ \A l \in live : l.via = p => l = k
    BY <1>0, <1>1, <2>2 DEF ConsentHeld
  <2>4. session'[p] = session[p]
    BY <2>1, <2>3, SessionStays DEF At, Early
  <2>5. ASSUME NEW l \in live', l.via = p PROVE l = k
    <3>1. ~CollectCommit(p) /\ ~IssueCommit(p)
      BY <2>1 DEF CollectCommit, IssueCommit, At, Early
    <3>2. l \in live
      BY <1>0, <2>5, <3>1, KeysAfter
    <3> QED
      BY <2>3, <2>5, <3>2
  <2> QED
    BY <2>3, <2>4, <2>5
<1>2. CASE k \notin live
  <2>1. CollectCommit(p) /\ k.user = txn[p].user /\ k.id = issued + 1
    <3>1. CollectCommit(p) \/ IssueCommit(p)
      BY <1>0, <1>2, KeysAfter
    <3>2. ~IssueCommit(p)
      BY IssueMints, MintedLate
    <3>3. k.id = issued + 1
      BY <1>2, KeysAfter
    <3>4. ASSUME NEW q \in Processes, CollectCommit(q), k.via = q PROVE q = p
      BY <3>4
    <3> QED
      BY <1>0, <1>2, <3>1, <3>2, <3>3, KeysAfter
  <2>2. session'[p] = [state |-> "collected", by |-> k.user]
    BY <1>0, <2>1, CollectMints
  <2>3. ASSUME NEW l \in live', l.via = p PROVE l = k
    <3>1. l \notin live
      BY <2>1, <2>3 DEF UnkeyedInv, CollectCommit, At, Early
    <3>2. l.id = issued + 1
      BY <3>1, KeysAfter
    <3> QED
      BY <2>1, <3>2, NewKeysAlone
  <2> QED
    BY <2>2, <2>3
<1> QED
  BY <1>1, <1>2

\* What a device flow handed out was approved by its owner and collected once
\* (ConsentHeld), since a command has no key before it collects one, and a
\* collected session does not change any more.
THEOREM ConsentAlwaysHeld == Spec => []ConsentHeld
<1>1. Init => UnkeyedInv /\ ConsentHeld
  <2> SUFFICES ASSUME Init PROVE \A k \in live : k.via = None
    BY NoneAssumption DEF UnkeyedInv, ConsentHeld
  <2> QED
    BY DEF Init, Fresh, SignedIn
<1>2. Core /\ UnkeyedInv /\ ConsentHeld /\ [Next]_vars => UnkeyedInv' /\ ConsentHeld'
  BY UnkeyedStep, ConsentStep
<1> QED
  BY <1>1, <1>2, InitCore, CoreStep, PTL DEF Spec

-----------------------------------------------------------------------------
(* Logouts.                                                                *)

\* The server confirmed that the login of this logout is gone.
Ended(p) == proc[p].pc \in Confirmed \/ (At(p, "done") /\ proc[p].cmd \in Ending)

\* The steps of a logout until then.
Begins(p) ==
  \/ \E cmd \in Commands, account \in Users \cup {None}, relink \in BOOLEAN :
       Start(p, cmd, account, relink)
  \/ ReadActive(p) \/ ReadStored(p) \/ Verify(p) \/ GiveUp(p) \/ Crash(p)

LEMMA LogoutActions ==
  ASSUME NEW p \in Processes, Command(p),
         proc[p].pc \in {"new", "active", "stored", "verify", "giveUp", "done", "failed", "crashed"}
  PROVE  Begins(p)
<1>1. ~ReadCached(p)
  BY DEF ReadCached, At
<1>2. ~CheckCached(p)
  BY DEF CheckCached, At
<1>3. ~CreateCLISession(p)
  BY DEF CreateCLISession, At
<1>4. ~PollRefused(p)
  BY DEF PollRefused, At
<1>5. ~CollectDenied(p)
  BY DEF CollectDenied, At
<1>6. ~CollectBegin(p)
  BY DEF CollectBegin, At
<1>7. ~CollectCommit(p)
  BY DEF CollectCommit, At
<1>8. ~IssueBegin(p)
  BY DEF IssueBegin, At
<1>9. ~IssueCommit(p)
  BY DEF IssueCommit, At
<1>10. ~Identify(p)
  BY DEF Identify, At
<1>11. ~LoadOld(p)
  BY DEF LoadOld, At
<1>12. ~Save(p)
  BY DEF Save, At
<1>13. ~Activate(p)
  BY DEF Activate, At
<1>14. ~TrackProject(p)
  BY DEF TrackProject, At
<1>15. ~LinkDirectory(p)
  BY DEF LinkDirectory, At
<1>16. ~Restore(p)
  BY DEF Restore, At
<1>17. ~RevokeAfterFailure(p)
  BY DEF RevokeAfterFailure, At
<1>18. ~ReadDescendants(p)
  BY DEF ReadDescendants, At
<1>19. ~MatchDescendant(p)
  BY DEF MatchDescendant, At
<1>20. ~DropProject(p)
  BY DEF DropProject, At, Forgetting
<1>21. ~Untrack(p)
  BY DEF Untrack, At, Forgetting
<1>22. ~DeleteLogin(p)
  BY DEF DeleteLogin, At, Forgetting
<1>23. ~ReadActiveAgain(p)
  BY DEF ReadActiveAgain, At
<1>24. ~Deactivate(p)
  BY DEF Deactivate, At, Forgetting
<1> QED
  BY <1>1, <1>2, <1>3, <1>4, <1>5, <1>6, <1>7, <1>8, <1>9, <1>10, <1>11, <1>12, <1>13, <1>14,
     <1>15, <1>16, <1>17, <1>18, <1>19, <1>20, <1>21, <1>22, <1>23, <1>24
     DEF Command, Begins

LEMMA LogoutStep ==
  ASSUME Core, [Next]_vars, NEW p \in Processes, Ended(p)'
  PROVE  /\ proc'[p].with = proc[p].with /\ proc[p].with # 0
         /\ Ended(p) \/ live' = Deleted(proc[p].with)
<1>0. proc[p] \in Proc /\ Flow(proc[p]) /\ proc'[p] \in Proc /\ Flow(proc'[p])
  BY CoreStep, FlowOf DEF Core, Base, TypeOK, FlowInv
<1>1. proc'[p].with # 0 /\ proc'[p].cmd \in Ending /\ proc'[p].pc \in Confirmed \cup {"done"}
  BY <1>0 DEF Ended, At, Flow
<1>2. CASE proc'[p] = proc[p]
  BY <1>1, <1>2 DEF Ended, At
<1>3. CASE Command(p) /\ Transition(p)
  <2>1. CASE At(p, "new")
    <3>0. Begins(p)
      BY <1>3, <2>1, LogoutActions DEF At
    <3>a. ~ReadActive(p) /\ ~ReadStored(p) /\ ~Verify(p) /\ ~GiveUp(p) /\ ~Crash(p)
      BY <2>1 DEF ReadActive, ReadStored, Verify, GiveUp, Crash, At
    <3>1. PICK cmd \in Commands, account \in Users \cup {None}, relink \in BOOLEAN :
            Start(p, cmd, account, relink)
      BY <3>0, <3>a DEF Begins
    <3>2. proc'[p].pc \in {"device", "active"}
      BY <1>0, <3>1 DEF Start, Core, Base, TypeOK, Proc
    <3> QED
      BY <1>1, <3>2 DEF Confirmed
  <2>2. CASE ~At(p, "new")
    <3>1. proc[p].cmd \in Ending
      BY <1>1, <1>3, <2>2 DEF Transition
    <3>2. proc[p].pc \in {"active", "stored", "verify", "giveUp", "done", "failed", "crashed"} \cup Confirmed
      BY <1>0, <2>2, <3>1 DEF Flow, Ending, At, Proc, Pcs, Confirmed
    <3>3. CASE proc[p].pc \in Confirmed
      BY <1>1, <1>3, <3>3 DEF Transition, At, Confirmed, Ended
    <3>4. CASE proc[p].pc \in {"active", "stored", "verify", "done", "failed", "crashed"}
      <4>1. ReadActive(p) \/ ReadStored(p) \/ Verify(p) \/ Crash(p)
        <5>1. Begins(p)
          BY <1>3, <3>4, LogoutActions
        <5>2. ASSUME NEW cmd \in Commands, NEW account \in Users \cup {None}, NEW relink \in BOOLEAN
              PROVE  ~Start(p, cmd, account, relink)
          BY <3>4 DEF Start, At
        <5>3. ~GiveUp(p)
          BY <3>4 DEF GiveUp, At
        <5> QED
          BY <5>1, <5>2, <5>3 DEF Begins
      <4>2. ReadActive(p) => proc'[p].pc \in {"stored", "failed"}
        BY <1>0, <3>1 DEF ReadActive, Without, Ending, Core, Base, TypeOK, Proc
      <4>3. ReadStored(p) => proc'[p].pc \in {"failed", "giveUp", "verify"}
        BY SMTT(30), <1>0, <3>1 DEF ReadStored, Without, Ending, Core, Base, TypeOK, Proc
      <4>4. Verify(p) => proc'[p].pc \in {"failed", "giveUp"}
        BY <1>0, <3>1 DEF Verify, Goto, Without, Ending, Core, Base, TypeOK, Proc
      <4>5. Crash(p) => proc'[p].pc = "crashed"
        BY <1>0 DEF Crash, New, Core, Base, TypeOK
      <4> QED
        BY <1>1, <4>1, <4>2, <4>3, <4>4, <4>5 DEF Confirmed
    <3>5. CASE At(p, "giveUp")
      <4>1. GiveUp(p) \/ Crash(p)
        <5>1. Begins(p)
          BY <1>3, <3>5, LogoutActions DEF At
        <5>2. ASSUME NEW cmd \in Commands, NEW account \in Users \cup {None}, NEW relink \in BOOLEAN
              PROVE  ~Start(p, cmd, account, relink)
          BY <3>5 DEF Start, At
        <5>3. ~ReadActive(p) /\ ~ReadStored(p) /\ ~Verify(p)
          BY <3>5 DEF ReadActive, ReadStored, Verify, At
        <5> QED
          BY <5>1, <5>2, <5>3 DEF Begins
      <4>2. Crash(p) => proc'[p].pc = "crashed"
        BY <1>0 DEF Crash, New, Core, Base, TypeOK
      <4>3. GiveUp(p)
        BY <1>1, <4>1, <4>2 DEF Confirmed
      <4>4. ~Goto(p, "failed")
        BY <1>1 DEF Goto, Confirmed, Core, Base, TypeOK, Proc
      <4>5. live' = Deleted(proc[p].with)
        BY <4>3, <4>4 DEF GiveUp, HandleRevokeOwnToken
      <4>6. proc'[p].with = proc[p].with
        BY <1>1, <1>3, <3>5 DEF Transition, At
      <4> QED
        BY <1>1, <4>5, <4>6
    <3> QED
      BY <3>2, <3>3, <3>4, <3>5 DEF At
  <2> QED
    BY <2>1, <2>2
<1>4. ASSUME NEW q \in Processes \ {p}, Transition(q) PROVE proc'[p] = proc[p]
  BY <1>4 DEF Transition
<1> QED
  BY <1>2, <1>3, <1>4, ProcSteps DEF Core

LEMMA RevokedStep == ASSUME Core, RevokedForGood, [Next]_vars PROVE RevokedForGood'
<1> SUFFICES ASSUME NEW p \in Processes, Ended(p)', NEW k \in live'
             PROVE  k.id # proc'[p].with /\ k.parent # proc'[p].with
  BY DEF RevokedForGood, Ended, Ending, Ids, Children
<1>1. proc'[p].with = proc[p].with /\ proc[p].with # 0
  BY LogoutStep
<1>2. CASE live' = Deleted(proc[p].with)
  BY <1>1, <1>2 DEF Deleted
<1>3. CASE Ended(p)
  <2>1. \A l \in live : l.id # proc[p].with /\ l.parent # proc[p].with
    BY <1>3 DEF RevokedForGood, Ended, Ending, Ids, Children
  <2>2. CASE k \in live
    BY <1>1, <2>1, <2>2
  <2>3. CASE k.id = issued + 1
    <3>1. k.id # proc[p].with
      BY <2>3, NumbersKnown DEF Core, Base, TypeOK
    <3>2. ASSUME NEW q \in Processes, IssueCommit(q), k.parent = txn[q].parent
          PROVE  k.parent # proc[p].with
      BY <2>1, <3>2, IssueMints
    <3>3. k \notin live
      BY <2>3 DEF Core, KeysInv, Base, TypeOK, Key
    <3>4. k.parent = 0 \/ (\E q \in Processes : IssueCommit(q) /\ k.parent = txn[q].parent)
            \/ \E l \in live : k.parent = l.parent
      BY <3>3, KeysAfter
    <3> QED
      BY <1>1, <2>1, <3>1, <3>2, <3>4
  <2> QED
    BY <2>2, <2>3, KeysAfter
<1> QED
  BY <1>2, <1>3, LogoutStep

\* A confirmed logout holds (RevokedForGood): a new key is new, and one with a
\* parent was issued while the parent was there and locked.
THEOREM RevocationHolds == Spec => []RevokedForGood
<1>1. Init => RevokedForGood
  BY DEF Init, New, RevokedForGood, Confirmed, At
<1>2. Core /\ RevokedForGood /\ [Next]_vars => RevokedForGood'
  BY RevokedStep
<1> QED
  BY <1>1, <1>2, InitCore, CoreStep, PTL DEF Spec

-----------------------------------------------------------------------------
(* Cleaning up.                                                            *)

\* Where a command has a key that is nowhere else, and where it may be stored.
Hidden == {"identify", "load", "save"}
Held == {"activate", "track", "link", "restore", "done"}

\* No two commands are given the same key.
Distinct == \A p, q \in Processes : proc[p].key = proc[q].key => p = q \/ proc[p].key = 0

\* A command did not find its own key on the machine.
Unread == \A p \in Processes : proc[p].key # 0 => proc[p].old # proc[p].key

\* A key that its command did not store yet is known to nobody else.
Secret ==
  \A p \in Processes : proc[p].pc \in Hidden =>
    /\ proc[p].key \notin Remembered
    /\ \A q \in Processes : proc[q].old # proc[p].key

\* A key is stored where its command put it, or where another one restored it.
Placed ==
  \A p \in Processes : (proc[p].key # 0 /\ proc[p].clean) =>
    \A s \in Slots : slot[s] = proc[p].key =>
      \/ s = SlotOf(p) /\ proc[p].pc \in Held
      \/ \E q \in Processes \ {p} : proc[q].old = proc[p].key /\ proc[q].pc \in Gone

\* A command that failed and could undo what it did has no live key.
Dead == \A p \in Processes : (At(p, "failed") /\ proc[p].key # 0 /\ proc[p].clean) => proc[p].key \notin Ids

CleanInv == Distinct /\ Unread /\ Secret /\ Placed /\ Dead

\* A command that has a key: the step that gave it, or one of the few after it.
Uses(p) == \/ Identify(p) \/ LoadOld(p) \/ Save(p) \/ Activate(p) \/ TrackProject(p)
           \/ LinkDirectory(p) \/ Restore(p) \/ RevokeAfterFailure(p)

LEMMA KeyedActions ==
  ASSUME Core, NEW p \in Processes, Command(p), Transition(p), proc'[p].key # 0
  PROVE  \/ /\ CollectCommit(p) \/ IssueCommit(p)
            /\ proc'[p].key = issued + 1
         \/ Uses(p) /\ proc'[p].key = proc[p].key
<1>1. CASE (CollectCommit(p) \/ IssueCommit(p)) /\ proc'[p].key = issued + 1
  BY <1>1
<1>2. CASE proc'[p].key = proc[p].key
  <2>0. proc[p].pc \notin Early \cup {"giveUp"} \cup Confirmed
    BY <1>2, FlowOf DEF Core, Flow
  <2>1. ASSUME NEW cmd \in Commands, NEW account \in Users \cup {None}, NEW relink \in BOOLEAN,
               Start(p, cmd, account, relink)
        PROVE  FALSE
    BY <2>0, <2>1 DEF Start, At, Early
  <2>2. ~Crash(p)
    <3>1. Crash(p) => proc'[p].key = 0
      BY DEF Crash, New, Core, Base, TypeOK
    <3> QED
      BY <3>1
  <2>3. ~ReadActive(p)
    BY <2>0 DEF ReadActive, At, Early, Confirmed
  <2>4. ~ReadStored(p)
    BY <2>0 DEF ReadStored, At, Early, Confirmed
  <2>5. ~Verify(p)
    BY <2>0 DEF Verify, At, Early, Confirmed
  <2>6. ~ReadCached(p)
    BY <2>0 DEF ReadCached, At, Early, Confirmed
  <2>7. ~CheckCached(p)
    BY <2>0 DEF CheckCached, At, Early, Confirmed
  <2>8. ~CreateCLISession(p)
    BY <2>0 DEF CreateCLISession, At, Early, Confirmed
  <2>9. ~PollRefused(p)
    BY <2>0 DEF PollRefused, At, Early, Confirmed
  <2>10. ~CollectDenied(p)
    BY <2>0 DEF CollectDenied, At, Early, Confirmed
  <2>11. ~CollectBegin(p)
    BY <2>0 DEF CollectBegin, At, Early, Confirmed
  <2>12. ~IssueBegin(p)
    BY <2>0 DEF IssueBegin, At, Early, Confirmed
  <2>13. ~GiveUp(p)
    BY <2>0 DEF GiveUp, At, Early, Confirmed
  <2>14. ~ReadDescendants(p)
    BY <2>0 DEF ReadDescendants, At, Early, Confirmed
  <2>15. ~MatchDescendant(p)
    BY <2>0 DEF MatchDescendant, At, Early, Confirmed
  <2>16. ~DropProject(p)
    BY <2>0 DEF DropProject, At, Early, Confirmed, Forgetting
  <2>17. ~Untrack(p)
    BY <2>0 DEF Untrack, At, Early, Confirmed, Forgetting
  <2>18. ~DeleteLogin(p)
    BY <2>0 DEF DeleteLogin, At, Early, Confirmed, Forgetting
  <2>19. ~ReadActiveAgain(p)
    BY <2>0 DEF ReadActiveAgain, At, Early, Confirmed
  <2>20. ~Deactivate(p)
    BY <2>0 DEF Deactivate, At, Early, Confirmed, Forgetting
  <2>21. ~CollectCommit(p)
    BY <2>0 DEF CollectCommit, At, Early, Confirmed
  <2>22. ~IssueCommit(p)
    BY <2>0 DEF IssueCommit, At, Early, Confirmed
  <2> QED
    BY <1>2, <2>1, <2>2, <2>3, <2>4, <2>5, <2>6, <2>7, <2>8, <2>9, <2>10, <2>11, <2>12, <2>13,
       <2>14, <2>15, <2>16, <2>17, <2>18, <2>19, <2>20, <2>21, <2>22
       DEF Command, Uses
<1> QED
  BY <1>1, <1>2 DEF Transition

\* Where the steps after a key was given lead.
LEMMA UsesSteps ==
  ASSUME Core, NEW p \in Processes, Uses(p)
  PROVE  /\ proc'[p].pc \in Hidden => proc[p].pc \in Hidden
         /\ (proc[p].pc \in Held /\ proc[p].key # 0) => proc'[p].pc \in Held \/ Restore(p)
         /\ (proc'[p].pc = "failed" /\ proc'[p].clean /\ proc[p].key # 0) => live' = Deleted(proc[p].key)
         /\ Restore(p) => proc'[p].pc = "revoke"
         /\ (Restore(p) /\ proc'[p].clean) => slot' = [slot EXCEPT ![SlotOf(p)] = proc[p].old]
         /\ Save(p) => slot' = slot \/ proc'[p].pc \in Held
         /\ proc[p].pc \in Hidden \cup {"revoke"} \cup Held
         /\ proc'[p].pc # "crashed"
<1>0. proc \in [Processes -> Proc]
  BY DEF Core, Base, TypeOK
<1>1. CASE Identify(p)
  <2>1. proc'[p].pc \in {"load", "revoke"}
    BY ZenonT(40), <1>0, <1>1 DEF Identify, Goto, Proc
  <2> QED
    BY <1>1, <2>1 DEF Identify, Restore, Save, At, Hidden, Held
<1>2. CASE LoadOld(p)
  <2>1. proc'[p].pc = "save"
    BY <1>0, <1>2 DEF LoadOld, Proc
  <2> QED
    BY <1>2, <2>1 DEF LoadOld, Restore, Save, At, Hidden, Held
<1>3. CASE Save(p)
  <2>1. proc'[p].pc \in {"activate", "track"} \/ (proc'[p].pc = "revoke" /\ slot' = slot)
    BY <1>0, <1>3 DEF Save, Unsaved, Goto, Proc
  <2> QED
    BY <1>3, <2>1 DEF Restore, Save, At, Hidden, Held
<1>4. CASE Activate(p)
  <2>1. proc'[p].pc \in {"done", "restore"}
    BY <1>0, <1>4 DEF Activate, Goto, Proc
  <2> QED
    BY <1>4, <2>1 DEF Activate, Restore, Save, At, Hidden, Held
<1>5. CASE TrackProject(p)
  <2>1. proc'[p].pc \in {"link", "restore"}
    BY <1>0, <1>5 DEF TrackProject, Goto, Proc
  <2> QED
    BY <1>5, <2>1 DEF TrackProject, Restore, Save, At, Hidden, Held
<1>6. CASE LinkDirectory(p)
  <2>1. proc'[p].pc \in {"done", "restore"} \/ (proc'[p].pc = "failed" /\ proc[p].key = 0)
    BY <1>0, <1>6 DEF LinkDirectory, Goto, Proc
  <2> QED
    BY <1>6, <2>1 DEF LinkDirectory, Restore, Save, At, Hidden, Held
<1>7. CASE Restore(p)
  <2>1. proc'[p].pc = "revoke"
    BY <1>0, <1>7 DEF Restore, Goto, Proc
  <2>2. ~proc'[p].clean \/ slot' = [slot EXCEPT ![SlotOf(p)] = proc[p].old]
    BY <1>0, <1>7 DEF Restore, Proc
  <2> QED
    BY <1>7, <2>1, <2>2 DEF Restore, Save, At, Hidden, Held
<1>8. CASE RevokeAfterFailure(p)
  <2>1. proc'[p].pc = "failed"
    BY <1>0, <1>8 DEF RevokeAfterFailure, Goto, Proc
  <2>2. ~proc'[p].clean \/ live' = Deleted(proc[p].key)
    BY <1>0, <1>8 DEF RevokeAfterFailure, HandleRevokeOwnToken, Proc
  <2> QED
    BY <1>8, <2>1, <2>2 DEF RevokeAfterFailure, Restore, Save, At, Hidden, Held
<1> QED
  BY <1>1, <1>2, <1>3, <1>4, <1>5, <1>6, <1>7, <1>8 DEF Uses

\* For one command that has a key after a step.
LEMMA KeyedStep ==
  ASSUME Core, [Next]_vars, NEW p \in Processes, proc'[p].key # 0
  PROVE  \/ /\ CollectCommit(p) \/ IssueCommit(p)
            /\ proc'[p].key = issued + 1
         \/ /\ proc'[p].key = proc[p].key
            /\ (Uses(p) /\ Transition(p)) \/ proc'[p] = proc[p]
<1>1. CASE proc'[p] = proc[p]
  BY <1>1
<1>2. CASE Command(p) /\ Transition(p)
  BY <1>2, KeyedActions
<1>3. ASSUME NEW q \in Processes \ {p}, Transition(q) PROVE proc'[p] = proc[p]
  BY <1>3 DEF Transition
<1> QED
  BY <1>1, <1>2, <1>3, ProcSteps DEF Core

\* What a command has read, after a step.
LEMMA OldStep ==
  ASSUME Core, [Next]_vars, NEW p \in Processes
  PROVE  \/ proc'[p].old = proc[p].old
         \/ proc'[p].old \in Remembered /\ proc[p].pc \in Early \cup {"load"} \cup Confirmed
<1>1. CASE proc'[p] = proc[p]
  BY <1>1
<1>2. CASE Transition(p)
  <2>0. proc \in [Processes -> Proc] /\ Flow(proc[p])
    BY FlowOf DEF Core, Base, TypeOK
  <2>1. ReadCached(p) => proc'[p].old \in Remembered /\ proc[p].pc \in Early
    BY <2>0 DEF ReadCached, Remembered, Slots, Proc, At, Early
  <2>2. LoadOld(p) => proc'[p].old \in Remembered /\ proc[p].pc = "load"
    <3>1. LoadOld(p) => SlotOf(p) \in Slots
      BY <2>0 DEF LoadOld, Flow, At, SlotOf, KindOf, Slots
    <3> QED
      BY <2>0, <3>1 DEF LoadOld, Remembered, Proc, At
  <2>3. ReadDescendants(p) => proc'[p].old \in Remembered /\ proc[p].pc \in Confirmed
    <3>1. ReadDescendants(p) => proc[p].user \in Users /\ proc[p].pc \in Confirmed
      BY <2>0 DEF ReadDescendants, Flow, At, Confirmed
    <3> QED
      BY <2>0, <3>1 DEF ReadDescendants, Remembered, Proc
  <2> QED
    BY <1>2, <2>1, <2>2, <2>3 DEF Transition
<1>3. ASSUME NEW q \in Processes \ {p}, Transition(q) PROVE proc'[p] = proc[p]
  BY <1>3 DEF Transition
<1> QED
  BY <1>1, <1>2, <1>3, ProcSteps DEF Core

LEMMA GoneStep ==
  ASSUME Core, [Next]_vars, NEW p \in Processes, proc[p].pc \in Gone
  PROVE  proc'[p].pc \in Gone /\ proc'[p].old = proc[p].old
<1>1. proc'[p].old = proc[p].old
  BY OldStep DEF Gone, Early, Confirmed
<1>2. proc'[p].pc \in Gone
  BY ProcSteps DEF Core, Transition
<1> QED
  BY <1>1, <1>2

LEMMA CommitMachine ==
  ASSUME Core, NEW p \in Processes, CollectCommit(p) \/ IssueCommit(p)
  PROVE  UNCHANGED <<slot, tracked>> /\ issued' = issued + 1
BY DEF CollectCommit, IssueCommit, Mint, machine

LEMMA DistinctStep == ASSUME Core, CleanInv, [Next]_vars PROVE Distinct'
<1> SUFFICES ASSUME NEW p \in Processes, NEW q \in Processes, proc'[p].key = proc'[q].key,
                    proc'[p].key # 0
             PROVE  p = q
  BY DEF Distinct
<1>1. \A r \in Processes : proc[r].key # issued + 1
  BY NumbersKnown DEF Core, Base, TypeOK
<1>2. CASE proc'[p].key = issued + 1
  <2>1. /\ CollectCommit(p) \/ IssueCommit(p)
        /\ CollectCommit(q) \/ IssueCommit(q)
    BY <1>1, <1>2, KeyedStep
  <2>2. proc' # proc
    BY <1>1, <1>2
  <2>3. PICK r \in Processes : Transition(r)
    BY <2>2, ProcSteps DEF Core
  <2>4. p = r /\ q = r
    BY <1>1, <1>2, <2>3 DEF Transition
  <2> QED
    BY <2>4
<1>3. CASE proc'[p].key # issued + 1
  <2>1. proc'[p].key = proc[p].key /\ proc'[q].key = proc[q].key
    BY <1>3, KeyedStep
  <2> QED
    BY <2>1 DEF CleanInv, Distinct
<1> QED
  BY <1>2, <1>3

LEMMA UnreadStep == ASSUME Core, CleanInv, [Next]_vars PROVE Unread'
<1> SUFFICES ASSUME NEW p \in Processes, proc'[p].key # 0 PROVE proc'[p].old # proc'[p].key
  BY DEF Unread
<1>1. CASE proc'[p].key = issued + 1 /\ (CollectCommit(p) \/ IssueCommit(p))
  <2>1. proc'[p].old \in 0..issued
    <3>1. Remembered \subseteq 0..issued
      BY DEF Core, Base, KnownInv, TypeOK, Remembered
    <3> QED
      BY <3>1, OldStep, NumbersKnown
  <2> QED
    BY <1>1, <2>1 DEF Core, Base, TypeOK
<1>2. CASE proc'[p].key = proc[p].key
  <2>1. proc[p].pc \notin Early \cup Confirmed
    BY <1>2, FlowOf DEF Core, Flow
  <2>2. proc[p].pc = "load" => proc[p].key \notin Remembered
    BY DEF CleanInv, Secret, Hidden
  <2> QED
    BY <1>2, <2>1, <2>2, OldStep DEF CleanInv, Unread
<1> QED
  BY <1>1, <1>2, KeyedStep

LEMMA SecretStep == ASSUME Core, CleanInv, [Next]_vars PROVE Secret'
<1> SUFFICES ASSUME NEW p \in Processes, proc'[p].pc \in Hidden
             PROVE  /\ \A s \in Slots : slot'[s] # proc'[p].key
                    /\ \A u \in Users : tracked'[u] # proc'[p].key
                    /\ \A q \in Processes : proc'[q].old # proc'[p].key
  BY DEF Secret, Remembered
<1>0. /\ proc'[p].key # 0 /\ slot \in [Slots -> Nat] /\ tracked \in [Users -> Nat]
      /\ proc \in [Processes -> Proc]
  BY CoreStep DEF Core, Base, TypeOK, FlowInv, Flow, Hidden
<1>1. Remembered \subseteq 0..issued
  BY DEF Core, Base, KnownInv, TypeOK, Remembered
<1>2. CASE proc'[p].key = issued + 1 /\ (CollectCommit(p) \/ IssueCommit(p))
  <2>1. ASSUME NEW q \in Processes PROVE proc'[q].old \in 0..issued
    BY <1>1, OldStep, NumbersKnown
  <2>2. UNCHANGED <<slot, tracked>>
    BY <1>2, CommitMachine
  <2>3. /\ \A s \in Slots : slot[s] \in 0..issued
        /\ \A u \in Users : tracked[u] \in 0..issued
    BY DEF Core, Base, KnownInv, TypeOK
  <2>4. issued + 1 \notin 0..issued
    BY DEF Core, Base, TypeOK
  <2> QED
    BY <1>2, <2>1, <2>2, <2>3, <2>4
<1>3. CASE proc'[p].key = proc[p].key /\ ((Uses(p) /\ Transition(p)) \/ proc'[p] = proc[p])
  <2>1. proc[p].pc \in Hidden
    BY <1>3, UsesSteps
  <2>2. proc[p].key \notin Remembered /\ \A q \in Processes : proc[q].old # proc[p].key
    BY <2>1 DEF CleanInv, Secret
  <2>3. ASSUME NEW q \in Processes PROVE proc'[q].old # proc'[p].key
    BY <1>3, <2>2, OldStep
  <2>4. ASSUME NEW q \in Processes, (Save(q) /\ slot' # slot) \/ TrackProject(q)
        PROVE  proc[q].key # proc[p].key
    <3>1. q # p
      <4>1. Save(p) => slot' = slot
        <5>1. Hidden \cap Held = {}
          BY DEF Hidden, Held
        <5> QED
          BY <5>1, UsesSteps DEF Uses
      <4>2. ~TrackProject(p)
        BY <2>1 DEF TrackProject, At, Hidden
      <4> QED
        BY <2>4, <4>1, <4>2
    <3> QED
      BY <1>0, <1>3, <3>1 DEF CleanInv, Distinct
  <2>5. ASSUME NEW s \in Slots PROVE slot'[s] # proc'[p].key
    <3>1. slot[s] # proc[p].key
      BY <2>2 DEF Remembered
    <3> QED
      BY <1>0, <1>3, <2>2, <2>4, <3>1, SlotSteps
  <2>6. ASSUME NEW u \in Users PROVE tracked'[u] # proc'[p].key
    <3>1. tracked[u] # proc[p].key
      BY <2>2 DEF Remembered
    <3> QED
      BY <1>0, <1>3, <2>4, <3>1, TrackedSteps
  <2> QED
    BY <2>3, <2>5, <2>6
<1> QED
  BY <1>0, <1>2, <1>3, KeyedStep

LEMMA PlacedStep == ASSUME Core, CleanInv, [Next]_vars PROVE Placed'
<1> SUFFICES ASSUME NEW p \in Processes, proc'[p].key # 0, proc'[p].clean, NEW s \in Slots,
                    slot'[s] = proc'[p].key
             PROVE  \/ s = SlotOf(p)' /\ proc'[p].pc \in Held
                    \/ \E q \in Processes \ {p} : proc'[q].old = proc'[p].key /\ proc'[q].pc \in Gone
  BY DEF Placed
<1>0. slot \in [Slots -> Nat] /\ proc \in [Processes -> Proc]
  BY DEF Core, Base, TypeOK
<1>1. ~(proc'[p].key = issued + 1 /\ (CollectCommit(p) \/ IssueCommit(p)))
  <2>1. slot[s] # issued + 1
    BY DEF Core, Base, KnownInv, TypeOK
  <2> QED
    BY <2>1, CommitMachine
<1>2. proc'[p].key = proc[p].key /\ ((Uses(p) /\ Transition(p)) \/ proc'[p] = proc[p])
  BY <1>1, KeyedStep
<1>3. proc[p].clean
  BY <1>2 DEF Transition
<1>4. ASSUME proc[p].pc \in Held \cup {"save"} PROVE SlotOf(p)' = SlotOf(p)
  <2>1. CASE proc'[p] = proc[p]
    BY <2>1 DEF SlotOf
  <2>2. CASE Uses(p) /\ Transition(p)
    <3>1. (proc'[p].cmd = proc[p].cmd /\ proc'[p].user = proc[p].user) \/ proc'[p].pc = "crashed"
      BY <1>4, <2>2 DEF Transition, At, Held
    <3>2. proc'[p].pc # "crashed"
      BY <2>2, UsesSteps
    <3> QED
      BY <3>1, <3>2 DEF SlotOf
  <2> QED
    BY <1>2, <2>1, <2>2
<1>5. CASE slot'[s] = slot[s]
  <2>1. CASE s = SlotOf(p) /\ proc[p].pc \in Held
    <3>1. CASE proc'[p].pc \in Held
      BY <1>4, <2>1, <3>1
    <3>2. CASE Restore(p)
      <4>1. slot' = [slot EXCEPT ![SlotOf(p)] = proc[p].old]
        BY <3>2, UsesSteps DEF Uses
      <4>2. slot'[s] = proc[p].old
        BY <1>0, <2>1, <4>1
      <4> QED
        BY <1>2, <4>2 DEF CleanInv, Unread
    <3> QED
      BY <1>2, <2>1, <3>1, <3>2, UsesSteps
  <2>2. ASSUME NEW q \in Processes \ {p}, proc[q].old = proc[p].key, proc[q].pc \in Gone
        PROVE  proc'[q].old = proc'[p].key /\ proc'[q].pc \in Gone
    BY <1>2, <2>2, GoneStep
  <2> QED
    BY <1>2, <1>3, <1>5, <2>1, <2>2 DEF CleanInv, Placed
<1>6. CASE slot'[s] # slot[s]
  <2>1. ASSUME NEW q \in Processes, Save(q), slot' = [slot EXCEPT ![SlotOf(q)] = proc[q].key]
        PROVE  s = SlotOf(p)' /\ proc'[p].pc \in Held
    <3>1. s = SlotOf(q) /\ slot'[s] = proc[q].key
      BY <1>0, <1>6, <2>1
    <3>2. q = p
      BY <1>2, <3>1 DEF CleanInv, Distinct
    <3>3. proc'[p].pc \in Held
      BY <1>6, <2>1, <3>2, UsesSteps DEF Uses
    <3> QED
      BY <1>4, <2>1, <3>1, <3>2, <3>3 DEF Save, At
  <2>2. ASSUME NEW q \in Processes, Restore(q), slot' = [slot EXCEPT ![SlotOf(q)] = proc[q].old]
        PROVE  \E r \in Processes \ {p} : proc'[r].old = proc'[p].key /\ proc'[r].pc \in Gone
    <3>1. slot'[s] = proc[q].old
      BY <1>0, <1>6, <2>2
    <3>2. q # p
      BY <1>2, <3>1 DEF CleanInv, Unread
    <3>3. proc'[q].pc \in Gone
      BY <2>2, UsesSteps DEF Uses, Gone
    <3>4. proc'[q].old = proc[q].old
      BY <2>2, OldStep DEF Restore, At, Early, Confirmed
    <3> QED
      BY <3>1, <3>2, <3>3, <3>4
  <2>3. ASSUME NEW i, slot' = [slot EXCEPT ![i] = 0] PROVE FALSE
    BY <1>0, <1>6, <2>3
  <2> QED
    BY <1>6, <2>1, <2>2, <2>3, SlotSteps
<1> QED
  BY <1>5, <1>6

LEMMA DeadStep == ASSUME Core, CleanInv, [Next]_vars PROVE Dead'
<1> SUFFICES ASSUME NEW p \in Processes, proc'[p].pc = "failed", proc'[p].key # 0, proc'[p].clean,
                    NEW k \in live'
             PROVE  k.id # proc'[p].key
  BY DEF Dead, At, Ids
<1>0. ~(CollectCommit(p) \/ IssueCommit(p)) \/ proc'[p].key # issued + 1
  <2>1. ASSUME CollectCommit(p) \/ IssueCommit(p) PROVE proc'[p].key \in {0, proc[p].key}
    <3>1. proc \in [Processes -> Proc]
      BY DEF Core, Base, TypeOK
    <3>2. ASSUME NEW id, NEW pc \in {"done", "identify"}, Answered(p, id, pc)
          PROVE  proc'[p].key = proc[p].key
      BY <3>1, <3>2 DEF Answered, Goto, Proc
    <3>3. CollectCommit(p) => \E pc \in {"done", "identify"} : Answered(p, issued + 1, pc)
      BY DEF CollectCommit
    <3>4. IssueCommit(p) => Answered(p, issued + 1, "identify")
      BY DEF IssueCommit
    <3> QED
      BY <2>1, <3>2, <3>3, <3>4
  <2>2. proc[p].key # issued + 1
    BY NumbersKnown DEF Core, Base, TypeOK
  <2> QED
    BY <2>1, <2>2
<1>1. proc'[p].key = proc[p].key /\ ((Uses(p) /\ Transition(p)) \/ proc'[p] = proc[p])
  BY <1>0, KeyedStep
<1>2. CASE Uses(p)
  <2>1. live' = Deleted(proc[p].key)
    BY <1>1, <1>2, UsesSteps
  <2> QED
    BY <1>1, <2>1 DEF Deleted
<1>3. CASE proc'[p] = proc[p]
  <2>1. \A l \in live : l.id # proc[p].key
    BY <1>3 DEF CleanInv, Dead, At, Ids
  <2>2. proc[p].key # issued + 1
    BY NumbersKnown DEF Core, Base, TypeOK
  <2> QED
    BY <1>1, <2>1, <2>2, KeysAfter
<1> QED
  BY <1>1, <1>2, <1>3

\* A command that failed and could undo what it did leaves its key neither on
\* the server nor in the store (NothingLeftBehind): until it stores the key
\* nobody else knows it, and afterwards only a command that read it there may
\* put it back.
THEOREM NothingIsLeftBehind == Spec => []NothingLeftBehind
<1>1. Init => CleanInv
  <2> SUFFICES ASSUME Init PROVE \A p \in Processes : proc[p].key = 0 /\ proc[p].pc = "new"
    BY DEF CleanInv, Distinct, Unread, Secret, Placed, Dead, Hidden, At
  <2> QED
    BY DEF Init, New
<1>2. Core /\ CleanInv /\ [Next]_vars => CleanInv'
  BY DistinctStep, UnreadStep, SecretStep, PlacedStep, DeadStep DEF CleanInv
<1>3. CleanInv => NothingLeftBehind
  <2> SUFFICES ASSUME CleanInv, NEW p \in Processes, At(p, "failed"), proc[p].key # 0, proc[p].clean
               PROVE  /\ proc[p].key \notin Ids
                      /\ \A s \in Slots : slot[s] = proc[p].key =>
                           \E q \in Processes \ {p} : proc[q].old = proc[p].key
    BY DEF NothingLeftBehind
  <2>1. proc[p].pc \notin Held
    BY DEF At, Held
  <2> QED
    BY <2>1 DEF CleanInv, Placed, Dead
<1> QED
  BY <1>1, <1>2, <1>3, InitCore, CoreStep, PTL DEF Spec

=============================================================================
