-------------------------- MODULE ConnectFlow_proofs ---------------------------
(***************************************************************************)
(* Proofs about ConnectFlow, for any processes, configs and attempts: what   *)
(* a process leaves of its secret files when it exits or is signalled.     *)
(***************************************************************************)
EXTENDS ConnectFlow, TLAPS

\* A process that runs has loaded a config.
Loaded == \A p \in Procs : status[p] = "alive" /\ pc[p] # "off" => cfg[p] \in Configs \cup Edited

TypeInv == TypeOK /\ Loaded

-------------------------------------------------------------------------------
(* Types.                                                                     *)

\* A login resolves to an owner of that config, or to none.
LEMMA LoginTyped ==
    ASSUME NEW c \in Configs \cup Edited, NEW p \in Procs, NEW a \in Attempts[p],
           a.host \in c.hosts \cup {Address}
    PROVE  /\ ResolvedLogin(c, a.host, a.over) \in Owner \cup {None}
           /\ PasswordOf(c, ResolvedLogin(c, a.host, a.over)) \in Owner \cup {None}
  <1>1. c \in Config /\ a \in Attempt
    BY ConnectAssumption
  <1>2. a.over \in Cred \cup {None}
    BY <1>1 DEF Attempt
  <1>3. c.hosts \subseteq Host /\ c.login \in [Host -> Cred \cup {Own}]
    BY <1>1 DEF Config
  <1> QED BY <1>2, <1>3 DEF ResolvedLogin, PasswordOf, LoginOf, Owner

\* A password is got in one of the known ways, and only if there is one.
LEMMA ViaTyped ==
    ASSUME NEW c \in Configs \cup Edited, NEW owner
    PROVE  /\ Via(c, owner) \in {"none", "config", "keyring", "file"}
           /\ Via(c, owner) = "none" <=> owner = None
  <1>1. c.mode \in Mode
    BY ConnectAssumption DEF Config
  <1> QED BY <1>1 DEF Via, Mode

\* What an attempt resolves to is a plan, with a certificate only beside a key.
LEMMA PlanTyped ==
    ASSUME NEW c \in Configs \cup Edited, NEW p \in Procs, NEW a \in Attempts[p],
           NEW login, NEW owner \in Owner \cup {None},
           a.host \in c.hosts \cup {Address}
    PROVE  /\ [via |-> Via(c, owner), host |-> ToldOf(a.host, owner), secret |-> owner,
               over |-> a.over # None,
               key |-> login \in c.keys, cert |-> login \in c.certs,
               records |-> a.host # Address /\ ~a.scp, launch |-> "no"] \in Plan
           /\ login \in c.certs => login \in c.keys
  <1>1. c \in Config /\ c.certs \subseteq c.keys
    BY ConnectAssumption
  <1>2. c.hosts \subseteq Host
    BY <1>1 DEF Config
  <1>3. ToldOf(a.host, owner) \in Host \cup {Address, None}
    BY <1>2 DEF ToldOf
  <1>4. (a.over # None) \in BOOLEAN
    OBVIOUS
  <1>5. (login \in c.keys) \in BOOLEAN
    OBVIOUS
  <1>6. (login \in c.certs) \in BOOLEAN
    OBVIOUS
  <1>7. (a.host # Address /\ ~a.scp) \in BOOLEAN
    OBVIOUS
  <1>8. Via(c, owner) \in {"none", "config", "keyring", "file"}
    BY ViaTyped
  <1>9. [via |-> Via(c, owner), host |-> ToldOf(a.host, owner), secret |-> owner,
               over |-> a.over # None,
               key |-> login \in c.keys, cert |-> login \in c.certs,
               records |-> a.host # Address /\ ~a.scp, launch |-> "no"] \in Plan
    BY <1>3, <1>4, <1>5, <1>6, <1>7, <1>8, Zenon DEF Plan
  <1> QED BY <1>1, <1>9

-------------------------------------------------------------------------------
(* Every step keeps the types.                                                *)

\* The start types: no process runs.
LEMMA InitTyped == Init => TypeInv
  <1>1. NoPlan \in Plan
    BY DEF NoPlan, Plan
  <1>2. NoPlan.via = "none" /\ NoPlan.secret = None
    BY DEF NoPlan
  <1>3. 0 \in 0..MaxEdits /\ 0 \in 0..MaxAsks
    BY ConnectAssumption
  <1>4. "off" \in Pc
    BY DEF Pc
  <1> QED BY <1>1, <1>2, <1>3, <1>4 DEF Init, TypeInv, TypeOK, Loaded

\* Up to the launch.
LEMMA StartTyped ==
    ASSUME TypeInv, NEW p \in Procs, Start(p) \/ GiveUp(p)
    PROVE  TypeInv'
  BY DEF TypeInv, TypeOK, Loaded, Start, GiveUp, At, Goto, Pc, Swept, signalVars,
         fileVars, sshVars, useVars

\* The steps that write, register and remove files.
LEMMA FilesTyped ==
    ASSUME TypeInv, NEW p \in Procs,
           \/ WriteKey(p) \/ WriteKeyFails(p) \/ WriteCert(p) \/ RegisterKey(p)
           \/ RemovePw(p) \/ DropFiles(p) \/ RegisterPw(p)
    PROVE  TypeInv'
  BY DEF TypeInv, TypeOK, Loaded, WriteKey, WriteKeyFails, WriteCert, RegisterKey,
         RemovePw, DropFiles, RegisterPw, At, Goto, Pc, Over, Drop, Write, Register,
         Unregister, Remove, File, Kind, signalVars, fileVars, sshVars, useVars

\* A target is resolved.
LEMMA ResolveTyped ==
    ASSUME TypeInv, NEW p \in Procs, NEW a \in Attempts[p], Resolve(p, a)
    PROVE  TypeInv'
  <1> DEFINE login == ResolvedLogin(cfg[p], a.host, a.over)
             owner == PasswordOf(cfg[p], login)
             new == [via |-> Via(cfg[p], owner), host |-> ToldOf(a.host, owner),
                     secret |-> owner, over |-> a.over # None,
                     key |-> login \in cfg[p].keys, cert |-> login \in cfg[p].certs,
                     records |-> a.host # Address /\ ~a.scp, launch |-> "no"]
  <1>1. cfg[p] \in Configs \cup Edited /\ a.host \in cfg[p].hosts \cup {Address}
    BY DEF TypeInv, Loaded, Resolve, At
  <1>2. owner \in Owner \cup {None}
    BY <1>1, LoginTyped
  <1>3. new \in Plan
    BY <1>1, <1>2, PlanTyped, Zenon
  <1>4. new.via = "none" <=> new.secret = None
    BY <1>1, ViaTyped, Zenon
  <1>5. plan' = [plan EXCEPT ![p] = new]
    BY Zenon DEF Resolve
  <1>6. pc' \in [Procs -> Pc] /\ pc'[p] # "off" /\ status' = status
        /\ \A q \in Procs : q # p => pc'[q] = pc[q]
    BY DEF Resolve, Goto, Pc, TypeInv, TypeOK
  <1>7. caught' \in [Procs -> (SUBSET Kind) \cup {None}]
    BY DEF Resolve, TypeInv, TypeOK
  <1>8. UNCHANGED <<config, edits, cfg, taken, disk, live, old, read, given, asks,
                    usage, mine, unsaved>>
    BY DEF Resolve, fileVars, sshVars, useVars
  <1> HIDE DEF new
  <1>9. /\ plan' \in [Procs -> Plan]
        /\ \A q \in Procs : plan'[q].via = "none" <=> plan'[q].secret = None
    BY <1>3, <1>4, <1>5 DEF TypeInv, TypeOK
  <1>10. Loaded'
    BY <1>1, <1>6, <1>8 DEF TypeInv, Loaded
  <1> QED BY <1>6, <1>7, <1>8, <1>9, <1>10 DEF TypeInv, TypeOK

\* A plan whose launch is noted is a plan, of the same password.
LEMMA NotedTyped ==
    ASSUME NEW d \in Plan, NEW how \in {"begun", "failed"}
    PROVE  LET e == [d EXCEPT !.launch = how]
           IN  e \in Plan /\ e.via = d.via /\ e.secret = d.secret
  BY DEF Plan

\* The check of the host key, the use, and the launch.
LEMMA LaunchTyped ==
    ASSUME TypeInv, NEW p \in Procs,
           \/ CheckPasses(p) \/ CheckFails(p) \/ LoadUse(p) \/ SaveUse(p)
           \/ Launch(p) \/ LaunchFails(p) \/ Exec(p) \/ ExecFails(p)
    PROVE  TypeInv'
  <1> USE DEF TypeInv, TypeOK, Loaded, At, Goto, Pc, Over, Drop, signalVars,
         fileVars, sshVars, useVars
  <1>1. CASE CheckPasses(p) \/ CheckFails(p)
    BY <1>1 DEF CheckPasses, CheckFails
  <1>2. CASE LoadUse(p)
    BY <1>2 DEF LoadUse
  <1>3. CASE SaveUse(p)
    BY <1>3 DEF SaveUse
  <1>4. ASSUME NEW how \in {"begun", "failed"}, Launched(p, how)
        PROVE  /\ plan' \in [Procs -> Plan]
               /\ \A q \in Procs : plan'[q].via = "none" <=> plan'[q].secret = None
    <2> DEFINE new == [plan[p] EXCEPT !.launch = how]
    <2>1. new \in Plan /\ new.via = plan[p].via /\ new.secret = plan[p].secret
      BY NotedTyped
    <2>2. plan' = [plan EXCEPT ![p] = new]
      BY <1>4 DEF Launched
    <2> HIDE DEF new
    <2> QED BY <2>1, <2>2
  <1>5. CASE Launch(p)
    <2>1. Launched(p, "begun")
      BY <1>5 DEF Launch
    <2>2. pc' \in [Procs -> Pc] /\ \A q \in Procs : pc[q] = "off" => pc'[q] = "off"
      BY <1>5 DEF Launch
    <2>3. /\ taken' \in [Procs -> SUBSET File] /\ disk' \subseteq File /\ old' \subseteq File
          /\ \A q \in Procs : taken'[q] \subseteq {q} \X Kind
      BY <1>5 DEF Launch, Write, File, Kind
    <2>4. UNCHANGED <<config, edits, cfg, status, caught, live, read, given, asks,
                      usage, mine, unsaved>>
      BY <1>5 DEF Launch
    <2>5. /\ plan' \in [Procs -> Plan]
          /\ \A q \in Procs : plan'[q].via = "none" <=> plan'[q].secret = None
      BY <1>4, <2>1
    <2>6. Loaded'
      BY <2>2, <2>4
    <2> QED BY <2>2, <2>3, <2>4, <2>5, <2>6
  <1>6. CASE LaunchFails(p)
    BY <1>4, <1>6 DEF LaunchFails
  <1>7. CASE Exec(p)
    BY <1>7 DEF Exec
  <1>8. CASE ExecFails(p)
    BY <1>4, <1>8 DEF ExecFails
  <1> QED BY <1>1, <1>2, <1>3, <1>5, <1>6, <1>7, <1>8

\* Whatever way a process ends.
LEMMA EndTyped ==
    ASSUME TypeInv, NEW p \in Procs,
           NEW how \in {"alive", "exited", "signalled", "killed"}, End(p, how)
    PROVE  TypeInv'
  <1>1. [NoPlan EXCEPT !.launch = plan[p].launch] \in Plan
    BY DEF NoPlan, Plan, TypeInv, TypeOK
  <1>2. /\ [NoPlan EXCEPT !.launch = plan[p].launch].via = "none"
        /\ [NoPlan EXCEPT !.launch = plan[p].launch].secret = None
    BY DEF NoPlan
  <1> DEFINE new == [NoPlan EXCEPT !.launch = plan[p].launch]
  <1>3. plan' = [plan EXCEPT ![p] = new]
    BY DEF End
  <1> HIDE DEF new
  <1>4. /\ plan' \in [Procs -> Plan]
        /\ \A q \in Procs : plan'[q].via = "none" <=> plan'[q].secret = None
    BY <1>1, <1>2, <1>3 DEF TypeInv, TypeOK, new
  <1>5. /\ pc' \in [Procs -> Pc] /\ cfg' \in [Procs -> Configs \cup Edited \cup {None}]
        /\ status' \in [Procs -> {"alive", "exited", "signalled", "killed"}]
        /\ taken' \in [Procs -> SUBSET File] /\ live' \subseteq File /\ old' \subseteq File
        /\ \A q \in Procs : taken'[q] \subseteq {q} \X Kind
    BY DEF End, FilesOf, TypeInv, TypeOK, Pc
  <1>6. /\ read' \in [Procs -> {"no", "yes", "missing"}]
        /\ given' \in [Procs -> Owner \cup {None, Refused}]
        /\ asks' \in [Procs -> 0..MaxAsks]
    BY ConnectAssumption DEF End, SshGone, TypeInv, TypeOK
  <1>7. UNCHANGED <<config, edits, caught, disk, usage, mine, unsaved>>
    BY DEF End, useVars
  <1>8. Loaded'
    BY DEF End, TypeInv, TypeOK, Loaded
  <1> QED BY <1>4, <1>5, <1>6, <1>7, <1>8 DEF TypeInv, TypeOK

\* ssh and its helper.
LEMMA SshTyped ==
    ASSUME TypeInv, NEW p \in Procs, SshEnds(p) \/ Ssh(p)
    PROVE  TypeInv'
  <1> USE DEF TypeInv, TypeOK, Loaded, At, Goto, Pc, Over, Drop, signalVars,
         fileVars, sshVars, useVars
  <1>1. CASE SshEnds(p)
    <2>1. pc' \in [Procs -> Pc] /\ \A q \in Procs : pc'[q] = "off" <=> pc[q] = "off"
      BY <1>1 DEF SshEnds
    <2>2. /\ read' \in [Procs -> {"no", "yes", "missing"}]
          /\ given' \in [Procs -> Owner \cup {None, Refused}]
          /\ asks' \in [Procs -> 0..MaxAsks]
      BY <1>1, ConnectAssumption DEF SshEnds, SshGone
    <2>3. UNCHANGED <<config, edits, cfg, plan, status, caught, taken, disk, live, old,
                      usage, mine, unsaved>>
      BY <1>1 DEF SshEnds
    <2> QED BY <2>1, <2>2, <2>3
  <1>2. CASE ReadKey(p)
    BY <1>2 DEF ReadKey
  <1>3. CASE Ask(p)
    <2>1. Answers(p) \subseteq Owner \cup {None, Refused}
      <3>1. plan[p].secret \in Owner \cup {None}
        BY DEF Plan
      <3>2. config \in Config
        BY ConnectAssumption
      <3>3. \A h \in config.hosts : LoginOf(config, h) \in Owner
        BY <3>2 DEF Config, LoginOf, Owner
      <3> QED BY <3>1, <3>3 DEF Answers
    <2>2. given' \in [Procs -> Owner \cup {None, Refused}]
      BY <1>3, <2>1 DEF Ask
    <2>3. asks' \in [Procs -> 0..MaxAsks]
      BY <1>3, ConnectAssumption DEF Ask
    <2> QED BY <1>3, <2>2, <2>3 DEF Ask
  <1> QED BY <1>1, <1>2, <1>3 DEF Ssh

\* The signal thread.
LEMMA CatchTyped ==
    ASSUME TypeInv, NEW p \in Procs, Catch(p) \/ Wipe(p)
    PROVE  TypeInv'
  <1> USE DEF TypeInv, TypeOK, Loaded, signalVars, fileVars, sshVars, useVars
  <1>1. CASE Catch(p)
    <2>1. FilesOf(live, p) \subseteq {p} \X Kind
      BY DEF FilesOf, File
    <2>2. /\ taken' \in [Procs -> SUBSET File]
          /\ \A q \in Procs : taken'[q] \subseteq {q} \X Kind
      BY <1>1, <2>1 DEF Catch, FilesOf
    <2>3. HeldKinds(pc[p]) \subseteq Kind
      BY DEF HeldKinds
    <2>4. caught' \in [Procs -> (SUBSET Kind) \cup {None}] /\ live' \subseteq File
      BY <1>1, <2>3 DEF Catch
    <2>5. UNCHANGED <<config, edits, cfg, pc, plan, status, disk, old, read, given, asks,
                      usage, mine, unsaved>>
      BY <1>1 DEF Catch
    <2> QED BY <2>2, <2>4, <2>5
  <1>2. CASE Wipe(p)
    BY <1>2 DEF Wipe
  <1> QED BY <1>1, <1>2

\* What happens around the processes.
LEMMA AroundTyped ==
    ASSUME TypeInv, Edit \/ Sweep \/ \E f \in File : Age(f)
    PROVE  TypeInv'
  <1> USE DEF TypeInv, TypeOK, Loaded, signalVars, fileVars, sshVars, useVars
  <1>1. CASE Edit
    BY <1>1, ConnectAssumption DEF Edit
  <1>2. CASE Sweep \/ \E f \in File : Age(f)
    BY <1>2 DEF Sweep, Swept, Age
  <1> QED BY <1>1, <1>2

\* Every step keeps them.
LEMMA TypeKept == TypeInv /\ [Next]_vars => TypeInv'
  <1> SUFFICES ASSUME TypeInv, [Next]_vars PROVE TypeInv'
    OBVIOUS
  <1>1. CASE UNCHANGED vars
    BY <1>1 DEF vars, signalVars, fileVars, sshVars, useVars, TypeInv, TypeOK, Loaded
  <1>2. ASSUME NEW p \in Procs, Main(p) PROVE TypeInv'
    BY <1>2, StartTyped, ResolveTyped, FilesTyped, LaunchTyped, SshTyped, EndTyped
    DEF Main, Exit
  <1>3. ASSUME NEW p \in Procs, Ssh(p) \/ Signal(p) PROVE TypeInv'
    BY <1>3, SshTyped, EndTyped, CatchTyped DEF Signal, SignalExit, Kill
  <1>4. CASE Edit \/ Sweep \/ \E f \in File : Age(f)
    BY <1>4, AroundTyped
  <1> QED BY <1>1, <1>2, <1>3, <1>4 DEF Next

\* TypeOK: every state has its types, and an attempt that has a password has a way
\* to get it.
THEOREM ConnectTyped == Spec => []TypeOK
  <1>1. TypeInv => TypeOK
    BY DEF TypeInv
  <1> QED BY InitTyped, TypeKept, <1>1, PTL DEF Spec

\* What is resolved is not launched yet, and has a certificate only beside a key.
LEMMA ResolvedPlan ==
    ASSUME TypeInv, NEW p \in Procs, NEW a \in Attempts[p], Resolve(p, a)
    PROVE  /\ plan'[p].launch = "no"
           /\ plan'[p].cert => plan'[p].key
           /\ pc'[p] = IF plan'[p].key THEN "key" ELSE "check"
  <1>1. cfg[p] \in Configs \cup Edited /\ a.host \in cfg[p].hosts \cup {Address}
    BY DEF Resolve, At, TypeInv, Loaded
  <1> DEFINE login == ResolvedLogin(cfg[p], a.host, a.over)
             owner == PasswordOf(cfg[p], login)
             new == [via |-> Via(cfg[p], owner), host |-> ToldOf(a.host, owner),
                     secret |-> owner, over |-> a.over # None,
                     key |-> login \in cfg[p].keys, cert |-> login \in cfg[p].certs,
                     records |-> a.host # Address /\ ~a.scp, launch |-> "no"]
  <1>2. new.launch = "no" /\ new.key = (login \in cfg[p].keys)
        /\ new.cert = (login \in cfg[p].certs)
    BY Zenon
  <1>3. owner \in Owner \cup {None}
    BY <1>1, LoginTyped
  <1>4. login \in cfg[p].certs => login \in cfg[p].keys
    BY <1>1, <1>3, PlanTyped
  <1>5. plan' = [plan EXCEPT ![p] = new]
    BY Zenon DEF Resolve
  <1>6. pc'[p] = IF plan'[p].key THEN "key" ELSE "check"
    BY DEF Resolve, Goto, TypeInv, TypeOK
  <1> HIDE DEF new, login, owner
  <1>7. plan'[p] = new
    BY <1>5 DEF TypeInv, TypeOK
  <1> QED BY <1>2, <1>4, <1>6, <1>7

\* Noting the launch changes nothing else of the plan.
LEMMA LaunchPlan ==
    ASSUME TypeInv, NEW p \in Procs, NEW how \in {"begun", "failed"}, Launched(p, how)
    PROVE  /\ plan'[p].launch = how /\ plan'[p].key = plan[p].key
           /\ plan'[p].cert = plan[p].cert /\ plan'[p].via = plan[p].via
  <1> DEFINE new == [plan[p] EXCEPT !.launch = how]
  <1>1. plan \in [Procs -> Plan]
    BY DEF TypeInv, TypeOK
  <1>2. /\ new.launch = how /\ new.key = plan[p].key /\ new.cert = plan[p].cert
        /\ new.via = plan[p].via
    BY <1>1 DEF Plan
  <1>3. plan' = [plan EXCEPT ![p] = new]
    BY DEF Launched
  <1> HIDE DEF new
  <1> QED BY <1>1, <1>2, <1>3

-------------------------------------------------------------------------------
(* What a process's files may do while it does nothing.                       *)

Same(q) ==
    /\ pc'[q] = pc[q] /\ plan'[q] = plan[q] /\ status'[q] = status[q]
    /\ caught'[q] = caught[q] /\ taken'[q] = taken[q] /\ read'[q] = read[q]
    /\ \A k : /\ <<q, k>> \in disk' => <<q, k>> \in disk
              /\ <<q, k>> \in disk => <<q, k>> \in disk' \cup old
              /\ <<q, k>> \in live => <<q, k>> \in live'
              /\ <<q, k>> \in old => <<q, k>> \in old'

\* What one process does leaves the others as they are, but for what it sweeps.
LEMMA OthersSame ==
    ASSUME TypeInv, NEW p \in Procs, NEW q \in Procs, p # q, Main(p) \/ Ssh(p) \/ Signal(p)
    PROVE  Same(q)
  <1> USE DEF Same, TypeInv, TypeOK, At, Goto, signalVars, fileVars, sshVars, useVars
  <1>1. CASE Start(p) \/ GiveUp(p)
    BY <1>1 DEF Start, GiveUp, Swept, Stale
  <1>2. CASE \E a \in Attempts[p] : Resolve(p, a)
    BY <1>2 DEF Resolve
  <1>3. CASE WriteKey(p) \/ WriteKeyFails(p) \/ WriteCert(p)
    BY <1>3 DEF WriteKey, WriteKeyFails, WriteCert, Write, Remove
  <1>4. CASE RegisterKey(p) \/ RegisterPw(p)
    BY <1>4 DEF RegisterKey, RegisterPw, Register
  <1>5. CASE CheckPasses(p) \/ CheckFails(p) \/ LoadUse(p) \/ SaveUse(p)
    BY <1>5 DEF CheckPasses, CheckFails, LoadUse, SaveUse
  <1>6. CASE Launch(p) \/ LaunchFails(p)
    BY <1>6 DEF Launch, LaunchFails, Launched, Write
  <1>7. CASE Exec(p) \/ ExecFails(p) \/ SshEnds(p)
    BY <1>7 DEF Exec, ExecFails, SshEnds, SshGone, Launched
  <1>8. CASE RemovePw(p)
    BY <1>8 DEF RemovePw, Unregister, Remove
  <1>9. CASE DropFiles(p)
    BY <1>9 DEF DropFiles, Unregister, Remove
  <1>10. ASSUME NEW how, End(p, how)
         PROVE  Same(q)
    BY <1>10 DEF End, SshGone, FilesOf
  <1>11. CASE Ssh(p)
    BY <1>11 DEF Ssh, ReadKey, Ask
  <1>12. CASE Catch(p)
    BY <1>12 DEF Catch, FilesOf
  <1>13. CASE Wipe(p)
    BY <1>13 DEF Wipe
  <1> QED BY <1>1, <1>2, <1>3, <1>4, <1>5, <1>6, <1>7, <1>8, <1>9, <1>10, <1>11, <1>12,
             <1>13 DEF Main, Signal, Exit, SignalExit, Kill

\* Edits, other programs and time leave all processes as they are.
LEMMA AroundSame ==
    ASSUME TypeInv, NEW q \in Procs,
           Edit \/ Sweep \/ (\E f \in File : Age(f)) \/ UNCHANGED vars
    PROVE  Same(q)
  BY DEF Same, Edit, Sweep, Age, Swept, Stale, vars, signalVars, fileVars, sshVars

-------------------------------------------------------------------------------
(* Where a connection's files may be found, and where each of them is known  *)
(* to the signal thread.                                                     *)

KeyPc == {"cert", "regKey", "regCert", "dropCert", "rmKey"} \cup KeyHeld
CertPc == {"regKey", "regCert", "dropCert", "rmKey", "rmCert"} \cup KeyHeld
PwPc == {"regPw", "rmPw"} \cup PwHeld
KeyWork == {"key", "cert", "regKey", "regCert", "dropKey", "dropCert", "rmKey", "rmCert"}
CertWork == {"cert", "regCert", "dropCert", "rmCert"}

\* The main thread has a file only on the way from its writing to its removal.
Placed(p) ==
    /\ <<p, "key">> \in disk => plan[p].key /\ pc[p] \in KeyPc
    /\ <<p, "cert">> \in disk => plan[p].cert /\ pc[p] \in CertPc
    /\ <<p, "pw">> \in disk =>
          plan[p].launch = "failed" \/ (plan[p].via = "file" /\ pc[p] \in PwPc)

\* It does what its plan asks for, and launches once.
Planned(p) ==
    /\ plan[p].cert => plan[p].key
    /\ pc[p] \in KeyWork => plan[p].key
    /\ pc[p] \in CertWork => plan[p].cert
    /\ pc[p] \in {"regPw", "unregPw", "rmPw"} => plan[p].via = "file"
    /\ pc[p] \in PwPc => plan[p].launch # "no"
    /\ plan[p].launch # "no" =>
          pc[p] \in PwPc \cup {"dropKey", "dropCert", "rmKey", "rmCert", "done"}

\* Where the registry has a file, or will before all of its connection's are due.
InRegistry(l, k) == k \in HeldKinds(l) \/ (k = "key" /\ l = "regCert")

\* A file whose time has come is in the registry; one that was there when the
\* signal came is gone or in the hands of the signal thread.
Guarded(p) ==
    /\ caught[p] = None =>
          \A k \in Kind : <<p, k>> \in disk /\ InRegistry(pc[p], k) => <<p, k>> \in live
    /\ caught[p] # None =>
          /\ \A k \in caught[p] : <<p, k>> \in disk => <<p, k>> \in taken[p]
          /\ pc[p] \in {"key", "cert"} => "key" \notin caught[p] /\ "cert" \notin caught[p]
          /\ "pw" \in caught[p] => plan[p].launch # "no"
          /\ pc[p] # "off"

\* What is left of it when it is gone.
Left(p) ==
    /\ status[p] = "exited" =>
          \A k \in Kind : <<p, k>> \in disk => k = "pw" /\ plan[p].launch = "failed"
    /\ status[p] = "signalled" => \A k \in caught[p] : <<p, k>> \notin disk

Fine(p) == (status[p] = "alive" => Placed(p) /\ Planned(p) /\ Guarded(p)) /\ Left(p)

IInv == TypeInv /\ \A p \in Procs : Fine(p)

\* It says what NothingLeft says.
LEMMA LeftSuffices == IInv => NothingLeft
  <1> SUFFICES ASSUME IInv, NEW p \in Procs
               PROVE  /\ status[p] = "exited" =>
                           FilesOf(disk, p) \subseteq
                              IF plan[p].launch = "failed" THEN {<<p, "pw">>} ELSE {}
                      /\ status[p] = "signalled" =>
                           {<<p, k>> : k \in caught[p]} \cap disk = {}
    BY DEF NothingLeft
  <1>1. Left(p) /\ disk \subseteq File
    BY DEF IInv, Fine, TypeInv, TypeOK
  <1>2. \A f \in FilesOf(disk, p) : \E k \in Kind : f = <<p, k>> /\ <<p, k>> \in disk
    BY <1>1 DEF FilesOf, File
  <1> QED BY <1>1, <1>2 DEF Left

\* A process that does nothing stays as it is when its files only vanish.
LEMMA Kept == ASSUME NEW p \in Procs, Fine(p), Same(p) PROVE Fine(p)'
  BY DEF Same, Fine, Placed, Planned, Guarded, Left

\* Nothing starts with files.
LEMMA InitFine == Init => IInv
  <1> SUFFICES ASSUME Init, NEW p \in Procs PROVE Fine(p)
    BY InitTyped DEF IInv
  <1>1. /\ disk = {} /\ pc[p] = "off" /\ caught[p] = None /\ status[p] = "alive"
        /\ plan[p] = NoPlan
    BY DEF Init
  <1> QED BY <1>1 DEF Fine, Placed, Planned, Guarded, Left, NoPlan, KeyWork, CertWork,
                      PwPc, PwHeld

-------------------------------------------------------------------------------
(* A process's own steps.                                                     *)

\* A process starts, or its command ends without a connection.
LEMMA StartFine ==
    ASSUME IInv, NEW p \in Procs, Start(p) \/ GiveUp(p)
    PROVE  Fine(p)'
  <1>1. /\ status[p] = "alive" /\ pc[p] \in {"off", "loaded"} /\ pc'[p] \in {"loaded", "done"}
        /\ plan'[p] = plan[p] /\ status'[p] = status[p] /\ caught'[p] = caught[p]
        /\ taken'[p] = taken[p] /\ Fine(p)
        /\ \A k : <<p, k>> \in disk' => <<p, k>> \in disk
    BY DEF Start, GiveUp, At, Goto, Swept, IInv, TypeInv, TypeOK, signalVars, fileVars
  <1> QED BY <1>1
    DEF Fine, Placed, Planned, Guarded, Left, InRegistry, HeldKinds, KeyPc, CertPc, PwPc,
        KeyHeld, PwHeld, KeyWork, CertWork

\* A target is resolved.
LEMMA ResolveFine ==
    ASSUME IInv, NEW p \in Procs, NEW a \in Attempts[p], Resolve(p, a)
    PROVE  Fine(p)'
  <1>1. /\ status[p] = "alive" /\ pc[p] = "loaded" /\ Fine(p)
        /\ cfg[p] \in Configs \cup Edited /\ a.host \in cfg[p].hosts \cup {Address}
    BY DEF Resolve, At, IInv, TypeInv, Loaded
  <1>2. /\ plan'[p].launch = "no"
        /\ plan'[p].cert => plan'[p].key
        /\ pc'[p] = IF plan'[p].key THEN "key" ELSE "check"
    BY ResolvedPlan DEF IInv
  <1>3. /\ caught'[p] = IF caught[p] = None THEN None ELSE {}
        /\ UNCHANGED <<status, taken, disk, live>>
    BY DEF Resolve, fileVars, IInv, TypeInv, TypeOK
  <1>4. \A k \in Kind : <<p, k>> \notin disk
    BY <1>1 DEF Fine, Placed, Planned, KeyPc, CertPc, PwPc, KeyHeld, PwHeld, Kind
  <1> QED BY <1>1, <1>2, <1>3, <1>4
    DEF Fine, Placed, Planned, Guarded, Left, Kind, KeyWork, CertWork, PwPc, PwHeld

\* The key and certificate files are written.
LEMMA WriteFine ==
    ASSUME IInv, NEW p \in Procs, WriteKey(p) \/ WriteKeyFails(p) \/ WriteCert(p)
    PROVE  Fine(p)'
  <1> USE DEF At, Goto, Over, IInv, TypeInv, TypeOK
  <1>1. status[p] = "alive" /\ pc[p] \in {"key", "cert"} /\ Fine(p)
    BY DEF WriteKey, WriteKeyFails, WriteCert
  <1>2. plan[p].key /\ plan[p].launch = "no" /\ (pc[p] = "cert" => plan[p].cert)
    BY <1>1 DEF Fine, Planned, KeyWork, CertWork, PwPc, PwHeld
  <1>3. /\ <<p, "pw">> \notin disk /\ <<p, "cert">> \notin disk
        /\ pc[p] = "key" => <<p, "key">> \notin disk
    BY <1>1, <1>2 DEF Fine, Placed, CertPc, KeyPc, PwPc, KeyHeld, PwHeld
  <1>4. plan'[p] = plan[p] /\ status'[p] = "alive" /\ caught'[p] = caught[p]
    BY DEF WriteKey, WriteKeyFails, WriteCert, signalVars
  <1>5. CASE WriteKey(p)
    <2>1. /\ pc[p] = "key" /\ pc'[p] = IF plan[p].cert THEN "cert" ELSE "regKey"
          /\ disk' = disk \cup {<<p, "key">>}
          /\ taken'[p] = taken[p] \ {<<p, "key">>}
      BY <1>5 DEF WriteKey, Write
    <2> QED BY <1>1, <1>2, <1>3, <1>4, <2>1
      DEF Fine, Placed, Planned, Guarded, Left, InRegistry, HeldKinds, KeyPc, CertPc, PwPc,
          KeyHeld, PwHeld, KeyWork, CertWork, Kind
  <1>6. CASE WriteKeyFails(p)
    <2>1. pc[p] = "key" /\ pc'[p] \in {"loaded", "done"} /\ UNCHANGED <<taken, disk, live>>
      BY <1>6 DEF WriteKeyFails, signalVars, fileVars
    <2> QED BY <1>1, <1>2, <1>3, <1>4, <2>1
      DEF Fine, Placed, Planned, Guarded, Left, InRegistry, HeldKinds, KeyPc, CertPc, PwPc,
          KeyHeld, PwHeld, KeyWork, CertWork, Kind
  <1>7. CASE WriteCert(p)
    <2>0. pc[p] = "cert"
      BY <1>7 DEF WriteCert
    <2>1. CASE /\ pc'[p] = "regKey" /\ disk' = disk \cup {<<p, "cert">>}
               /\ taken'[p] = taken[p] \ {<<p, "cert">>}
      BY <1>1, <1>2, <1>3, <1>4, <2>0, <2>1
      DEF Fine, Placed, Planned, Guarded, Left, InRegistry, HeldKinds, KeyPc, CertPc, PwPc,
          KeyHeld, PwHeld, KeyWork, CertWork, Kind
    <2>2. CASE /\ pc'[p] \in {"loaded", "done"} /\ disk' = disk \ {<<p, "key">>, <<p, "cert">>}
               /\ UNCHANGED <<live, taken>>
      BY <1>1, <1>2, <1>3, <1>4, <2>0, <2>2
      DEF Fine, Placed, Planned, Guarded, Left, InRegistry, HeldKinds, KeyPc, CertPc, PwPc,
          KeyHeld, PwHeld, KeyWork, CertWork, Kind
    <2> QED BY <1>7, <2>1, <2>2 DEF WriteCert, Write, Remove
  <1> QED BY <1>5, <1>6, <1>7

\* The files are registered.
LEMMA RegisterFine ==
    ASSUME IInv, NEW p \in Procs, RegisterKey(p) \/ RegisterPw(p)
    PROVE  Fine(p)'
  <1> USE DEF At, Goto, IInv, TypeInv, TypeOK
  <1>1. status[p] = "alive" /\ Fine(p) /\ pc[p] \in {"regKey", "regCert", "regPw"}
    BY DEF RegisterKey, RegisterPw
  <1>2. /\ plan'[p] = plan[p] /\ status'[p] = "alive" /\ caught'[p] = caught[p]
        /\ taken'[p] = taken[p] /\ disk' = disk
    BY DEF RegisterKey, RegisterPw, Register, signalVars
  <1>3. CASE pc[p] = "regKey"
    <2>1. /\ live' = live \cup {<<p, "key">>}
          /\ pc'[p] = IF plan[p].cert THEN "regCert" ELSE "check"
      BY <1>3 DEF RegisterKey, RegisterPw, Register
    <2> QED BY <1>1, <1>2, <1>3, <2>1
      DEF Fine, Placed, Planned, Guarded, Left, InRegistry, HeldKinds, KeyPc, CertPc, PwPc,
          KeyHeld, PwHeld, KeyWork, CertWork, Kind
  <1>4. CASE pc[p] = "regCert"
    <2>1. live' = live \cup {<<p, "cert">>} /\ pc'[p] = "check"
      BY <1>4 DEF RegisterKey, RegisterPw, Register
    <2> QED BY <1>1, <1>2, <1>4, <2>1
      DEF Fine, Placed, Planned, Guarded, Left, InRegistry, HeldKinds, KeyPc, CertPc, PwPc,
          KeyHeld, PwHeld, KeyWork, CertWork, Kind
  <1>5. CASE pc[p] = "regPw"
    <2>1. live' = live \cup {<<p, "pw">>} /\ pc'[p] = "exec"
      BY <1>5 DEF RegisterKey, RegisterPw, Register
    <2> QED BY <1>1, <1>2, <1>5, <2>1
      DEF Fine, Placed, Planned, Guarded, Left, InRegistry, HeldKinds, KeyPc, CertPc, PwPc,
          KeyHeld, PwHeld, KeyWork, CertWork, Kind
  <1> QED BY <1>1, <1>3, <1>4, <1>5

\* The host key is checked and the use is counted.
LEMMA CheckFine ==
    ASSUME IInv, NEW p \in Procs,
           CheckPasses(p) \/ CheckFails(p) \/ LoadUse(p) \/ SaveUse(p)
    PROVE  Fine(p)'
  <1> USE DEF At, Goto, Over, Drop, IInv, TypeInv, TypeOK
  <1>1. /\ status[p] = "alive" /\ Fine(p) /\ pc[p] \in {"check", "use", "save"}
        /\ pc[p] \in {"use", "save"} => pc'[p] \in {"save", "launch"}
    BY DEF CheckPasses, CheckFails, LoadUse, SaveUse
  <1>2. plan[p].launch = "no"
    BY <1>1 DEF Fine, Planned, PwPc, PwHeld
  <1>3. pc[p] = "check" =>
           \/ pc'[p] \in {"use", "save", "launch"}
           \/ pc'[p] = "dropKey" /\ plan[p].key
           \/ pc'[p] \in {"loaded", "done"} /\ ~plan[p].key
    BY DEF CheckPasses, CheckFails, LoadUse, SaveUse
  <1>4. UNCHANGED <<plan, status, caught, taken, disk, live>>
    BY DEF CheckPasses, CheckFails, LoadUse, SaveUse, signalVars, fileVars
  <1> QED BY <1>1, <1>2, <1>3, <1>4
    DEF Fine, Placed, Planned, Guarded, Left, InRegistry, HeldKinds, KeyPc, CertPc, PwPc,
        KeyHeld, PwHeld, KeyWork, CertWork, Kind

\* ssh is started, with the password in a file or without.
LEMMA LaunchFine ==
    ASSUME IInv, NEW p \in Procs,
           Launch(p) \/ LaunchFails(p) \/ Exec(p) \/ ExecFails(p)
    PROVE  Fine(p)'
  <1> USE DEF At, Goto, IInv, TypeInv, TypeOK
  <1>1. status[p] = "alive" /\ Fine(p) /\ status'[p] = "alive" /\ caught'[p] = caught[p]
        /\ live' = live
    BY DEF Launch, LaunchFails, Exec, ExecFails, signalVars, fileVars
  <1>2. ASSUME NEW how \in {"begun", "failed"}, Launched(p, how)
        PROVE  /\ plan'[p].launch = how /\ plan'[p].key = plan[p].key
               /\ plan'[p].cert = plan[p].cert /\ plan'[p].via = plan[p].via
    BY <1>2, LaunchPlan
  <1>3. CASE Launch(p) \/ LaunchFails(p)
    <2>1. /\ pc[p] = "launch" /\ plan'[p].launch = "begun" /\ plan'[p].key = plan[p].key
          /\ plan'[p].cert = plan[p].cert /\ plan'[p].via = plan[p].via
      BY <1>2, <1>3 DEF Launch, LaunchFails
    <2>2. plan[p].launch = "no" /\ <<p, "pw">> \notin disk
      BY <1>1, <2>1 DEF Fine, Placed, Planned, PwPc, PwHeld
    <2>3. CASE /\ pc'[p] = "regPw" /\ plan[p].via = "file" /\ disk' = disk \cup {<<p, "pw">>}
               /\ taken'[p] = taken[p] \ {<<p, "pw">>}
      BY <1>1, <2>1, <2>2, <2>3
      DEF Fine, Placed, Planned, Guarded, Left, InRegistry, HeldKinds, KeyPc, CertPc, PwPc,
          KeyHeld, PwHeld, KeyWork, CertWork, Kind
    <2>4. CASE /\ \/ pc'[p] = "exec"
                  \/ pc'[p] = IF plan[p].key THEN "dropKey" ELSE "done"
               /\ UNCHANGED <<disk, taken>>
      BY <1>1, <2>1, <2>2, <2>4
      DEF Fine, Placed, Planned, Guarded, Left, InRegistry, HeldKinds, KeyPc, CertPc, PwPc,
          KeyHeld, PwHeld, KeyWork, CertWork, Kind
    <2> QED BY <1>3, <2>3, <2>4 DEF Launch, LaunchFails, Write, signalVars, fileVars
  <1>4. CASE Exec(p)
    <2>1. pc[p] = "exec" /\ pc'[p] = "ssh" /\ UNCHANGED <<plan, disk, taken>>
      BY <1>4 DEF Exec, signalVars, fileVars
    <2> QED BY <1>1, <2>1
      DEF Fine, Placed, Planned, Guarded, Left, InRegistry, HeldKinds, KeyPc, CertPc, PwPc,
          KeyHeld, PwHeld, KeyWork, CertWork, Kind
  <1>5. CASE ExecFails(p)
    <2>1. /\ pc[p] = "exec" /\ plan'[p].launch = "failed" /\ plan'[p].key = plan[p].key
          /\ plan'[p].cert = plan[p].cert /\ plan'[p].via = plan[p].via
          /\ UNCHANGED <<disk, taken>>
      BY <1>2, <1>5 DEF ExecFails, signalVars, fileVars
    <2>2. plan[p].launch # "no"
      BY <1>1, <2>1 DEF Fine, Planned, PwPc, PwHeld
    <2>3. pc'[p] = IF plan[p].key THEN "dropKey" ELSE "done"
      BY <1>5, <2>2 DEF ExecFails, Drop, Over
    <2> QED BY <1>1, <2>1, <2>2, <2>3
      DEF Fine, Placed, Planned, Guarded, Left, InRegistry, HeldKinds, KeyPc, CertPc, PwPc,
          KeyHeld, PwHeld, KeyWork, CertWork, Kind
  <1> QED BY <1>3, <1>4, <1>5

\* ssh ends, and the password file goes.
LEMMA EndedFine ==
    ASSUME IInv, NEW p \in Procs, SshEnds(p) \/ RemovePw(p)
    PROVE  Fine(p)'
  <1> USE DEF At, Goto, IInv, TypeInv, TypeOK
  <1>1. /\ status[p] = "alive" /\ Fine(p) /\ pc[p] \in {"ssh", "unregPw", "rmPw"}
        /\ plan' = plan /\ status' = status /\ caught' = caught /\ taken' = taken
    BY DEF SshEnds, RemovePw, signalVars
  <1>2. plan[p].launch # "no"
    BY <1>1 DEF Fine, Planned, PwPc, PwHeld
  <1>3. Drop(p) = IF plan[p].key THEN "dropKey" ELSE "done"
    BY <1>2 DEF Drop, Over
  <1>4. CASE SshEnds(p)
    <2>1. /\ pc'[p] = IF plan[p].via = "file" THEN "unregPw" ELSE Drop(p)
          /\ pc[p] = "ssh" /\ UNCHANGED <<disk, live>>
      BY <1>4 DEF SshEnds, fileVars
    <2> QED BY <1>1, <1>2, <1>3, <2>1
      DEF Fine, Placed, Planned, Guarded, Left, InRegistry, HeldKinds, KeyPc, CertPc, PwPc,
          KeyHeld, PwHeld, KeyWork, CertWork, Kind
  <1>5. CASE RemovePw(p)
    <2>1. CASE pc[p] = "unregPw" /\ pc'[p] = "rmPw" /\ disk' = disk /\ live' = live \ {<<p, "pw">>}
      BY <1>1, <1>2, <2>1
      DEF Fine, Placed, Planned, Guarded, Left, InRegistry, HeldKinds, KeyPc, CertPc, PwPc,
          KeyHeld, PwHeld, KeyWork, CertWork, Kind
    <2>2. CASE pc[p] = "rmPw" /\ pc'[p] = Drop(p) /\ disk' = disk \ {<<p, "pw">>} /\ live' = live
      BY <1>1, <1>2, <1>3, <2>2
      DEF Fine, Placed, Planned, Guarded, Left, InRegistry, HeldKinds, KeyPc, CertPc, PwPc,
          KeyHeld, PwHeld, KeyWork, CertWork, Kind
    <2> QED BY <1>5, <2>1, <2>2 DEF RemovePw, Unregister, Remove
  <1> QED BY <1>4, <1>5

\* The key and certificate files go.
LEMMA DropFine ==
    ASSUME IInv, NEW p \in Procs, DropFiles(p)
    PROVE  Fine(p)'
  <1> USE DEF At, Goto, Over, IInv, TypeInv, TypeOK
  <1>1. /\ status[p] = "alive" /\ Fine(p)
        /\ plan' = plan /\ status' = status /\ caught' = caught /\ taken' = taken
    BY DEF DropFiles, signalVars
  <1>2. Over(p) = IF p \in Tui /\ plan[p].launch = "no" THEN "loaded" ELSE "done"
    BY DEF Over
  <1>3. CASE /\ pc[p] = "dropKey" /\ pc'[p] = IF plan[p].cert THEN "dropCert" ELSE "rmKey"
             /\ live' = live \ {<<p, "key">>} /\ disk' = disk
    BY <1>1, <1>3
      DEF Fine, Placed, Planned, Guarded, Left, InRegistry, HeldKinds, KeyPc, CertPc, PwPc,
          KeyHeld, PwHeld, KeyWork, CertWork, Kind
  <1>4. CASE /\ pc[p] = "dropCert" /\ pc'[p] = "rmKey"
             /\ live' = live \ {<<p, "cert">>} /\ disk' = disk
    BY <1>1, <1>4
      DEF Fine, Placed, Planned, Guarded, Left, InRegistry, HeldKinds, KeyPc, CertPc, PwPc,
          KeyHeld, PwHeld, KeyWork, CertWork, Kind
  <1>5. CASE /\ pc[p] = "rmKey" /\ pc'[p] = IF plan[p].cert THEN "rmCert" ELSE Over(p)
             /\ disk' = disk \ {<<p, "key">>} /\ live' = live
    BY <1>1, <1>2, <1>5
      DEF Fine, Placed, Planned, Guarded, Left, InRegistry, HeldKinds, KeyPc, CertPc, PwPc,
          KeyHeld, PwHeld, KeyWork, CertWork, Kind
  <1>6. CASE /\ pc[p] = "rmCert" /\ pc'[p] = Over(p)
             /\ disk' = disk \ {<<p, "cert">>} /\ live' = live
    BY <1>1, <1>2, <1>6
      DEF Fine, Placed, Planned, Guarded, Left, InRegistry, HeldKinds, KeyPc, CertPc, PwPc,
          KeyHeld, PwHeld, KeyWork, CertWork, Kind
  <1> QED BY <1>3, <1>4, <1>5, <1>6 DEF DropFiles, Unregister, Remove

\* A process exits, is killed, or exits when the signal thread is through.
LEMMA EndFine ==
    ASSUME IInv, NEW p \in Procs, Exit(p) \/ SignalExit(p) \/ Kill(p)
    PROVE  Fine(p)'
  <1> USE DEF IInv, TypeInv, TypeOK
  <1>1. status[p] = "alive" /\ Fine(p)
    BY DEF Exit, SignalExit, Kill, Running, At
  <1>2. ASSUME NEW how \in {"exited", "signalled", "killed"}, End(p, how)
        PROVE  /\ status'[p] = how /\ caught' = caught /\ disk' = disk
               /\ plan'[p].launch = plan[p].launch
    <2> DEFINE new == [NoPlan EXCEPT !.launch = plan[p].launch]
    <2>1. plan' = [plan EXCEPT ![p] = new] /\ new.launch = plan[p].launch
      BY <1>2 DEF End, NoPlan
    <2>2. status'[p] = how /\ caught' = caught /\ disk' = disk
      BY <1>2 DEF End
    <2> HIDE DEF new
    <2> QED BY <2>1, <2>2
  <1>3. CASE Exit(p)
    <2>1. pc[p] = "done" /\ End(p, "exited")
      BY <1>3 DEF Exit, At
    <2> QED BY <1>1, <1>2, <2>1
      DEF Fine, Placed, Left, KeyPc, CertPc, PwPc, KeyHeld, PwHeld, Kind
  <1>4. CASE SignalExit(p)
    <2>1. caught[p] # None /\ taken[p] = {} /\ End(p, "signalled")
      BY <1>4 DEF SignalExit
    <2> QED BY <1>1, <1>2, <2>1 DEF Fine, Guarded, Left
  <1>5. CASE Kill(p)
    <2>1. End(p, "killed")
      BY <1>5 DEF Kill
    <2> QED BY <1>1, <1>2, <2>1 DEF Fine, Left
  <1> QED BY <1>3, <1>4, <1>5

\* The signal thread takes what is registered, and removes it.
LEMMA CatchFine ==
    ASSUME IInv, NEW p \in Procs, Catch(p) \/ Wipe(p)
    PROVE  Fine(p)'
  <1> USE DEF IInv, TypeInv, TypeOK
  <1>1. /\ status[p] = "alive" /\ Fine(p) /\ pc[p] # "off"
        /\ pc' = pc /\ plan' = plan /\ status' = status
    BY DEF Catch, Wipe, Running
  <1>2. CASE Catch(p)
    <2>1. /\ caught[p] = None /\ caught'[p] = HeldKinds(pc[p]) /\ disk' = disk
          /\ taken'[p] = FilesOf(live, p)
      BY <1>2 DEF Catch
    <2>2. HeldKinds(pc[p]) \subseteq Kind
      BY DEF HeldKinds
    <2>3. HeldKinds(pc[p]) # None
      BY <2>2, ConnectAssumption DEF Kind
    <2>4. \A k \in HeldKinds(pc[p]) : <<p, k>> \in disk => <<p, k>> \in FilesOf(live, p)
      BY <1>1, <2>1, <2>2 DEF Fine, Guarded, InRegistry, FilesOf
    <2>5. /\ pc[p] \in {"key", "cert"} => HeldKinds(pc[p]) = {}
          /\ "pw" \in HeldKinds(pc[p]) => pc[p] \in PwHeld
      BY DEF HeldKinds, KeyHeld, PwHeld, Kind
    <2> QED BY <1>1, <2>1, <2>3, <2>4, <2>5 DEF Fine, Placed, Planned, Guarded, Left, PwPc
  <1>3. CASE Wipe(p)
    <2>1. PICK f \in taken[p] : taken'[p] = taken[p] \ {f} /\ disk' = disk \ {f}
      BY <1>3 DEF Wipe
    <2>2. caught' = caught /\ live' = live
      BY <1>3 DEF Wipe
    <2> QED BY <1>1, <2>1, <2>2 DEF Fine, Placed, Planned, Guarded, Left
  <1> QED BY <1>2, <1>3

\* ssh and its helper remove files at most.
LEMMA SshFine == ASSUME IInv, NEW p \in Procs, Ssh(p) PROVE Fine(p)'
  <1>1. /\ UNCHANGED <<pc, plan, status, caught, taken, live>>
        /\ disk' \subseteq disk
    BY DEF Ssh, ReadKey, Ask, signalVars, fileVars
  <1> QED BY <1>1 DEF IInv, Fine, Placed, Planned, Guarded, Left

\* NothingLeft: a process that exits leaves no secret file, but the password of an
\* ssh that could not be started; one that is signalled leaves none of those that
\* were registered, wherever the signal meets it.
THEOREM ConnectLeavesNothing == Spec => []NothingLeft
  <1>1. ASSUME IInv, [Next]_vars PROVE IInv'
    <2>1. TypeInv'
      BY <1>1, TypeKept DEF IInv
    <2>2. ASSUME NEW p \in Procs, Main(p) PROVE Fine(p)'
      BY <1>1, <2>2, StartFine, ResolveFine, WriteFine, RegisterFine, CheckFine, LaunchFine,
         EndedFine, DropFine, EndFine
      DEF Main
    <2>3. ASSUME NEW p \in Procs, Signal(p) PROVE Fine(p)'
      BY <1>1, <2>3, CatchFine, EndFine DEF Signal
    <2>4. ASSUME NEW p \in Procs, Ssh(p) PROVE Fine(p)'
      BY <1>1, <2>4, SshFine
    <2>5. ASSUME NEW p \in Procs, Main(p) \/ Ssh(p) \/ Signal(p), NEW q \in Procs
          PROVE  Fine(q)'
      BY <1>1, <2>2, <2>3, <2>4, <2>5, OthersSame, Kept DEF IInv
    <2>6. ASSUME Edit \/ Sweep \/ (\E f \in File : Age(f)) \/ UNCHANGED vars, NEW q \in Procs
          PROVE  Fine(q)'
      BY <1>1, <2>6, AroundSame, Kept DEF IInv
    <2> QED BY <1>1, <2>1, <2>5, <2>6 DEF Next, IInv
  <1> QED BY InitFine, <1>1, LeftSuffices, PTL DEF Spec

-------------------------------------------------------------------------------
(* What the helper answers.                                                   *)

\* A plan follows from the config its process loaded.
Meant(p) ==
    /\ plan[p].via = "config" =>
          /\ cfg[p].mode = "plaintext"
          /\ ~plan[p].over =>
                /\ plan[p].host \in cfg[p].hosts
                /\ plan[p].secret = LoginOf(cfg[p], plan[p].host)
                /\ plan[p].secret \in cfg[p].secrets
    /\ plan[p].via = "keyring" =>
          cfg[p].mode = "keyring" /\ plan[p].secret \in cfg[p].secrets
    /\ pc[p] = "off" => plan[p].via = "none"

MeantInv == TypeInv /\ \A p \in Procs : Meant(p)

\* A process that neither loads nor resolves means what it meant.
LEMMA MeantSame ==
    ASSUME NEW q \in Procs, Meant(q), cfg'[q] = cfg[q],
           plan'[q].via = plan[q].via, plan'[q].over = plan[q].over,
           plan'[q].host = plan[q].host, plan'[q].secret = plan[q].secret,
           pc'[q] = "off" => pc[q] = "off"
    PROVE  Meant(q)'
  BY DEF Meant, LoginOf

\* What an attempt resolves to follows from the config.
LEMMA ResolveMeant ==
    ASSUME MeantInv, NEW p \in Procs, NEW a \in Attempts[p], Resolve(p, a)
    PROVE  Meant(p)'
  <1> DEFINE c == cfg[p]
             login == ResolvedLogin(c, a.host, a.over)
             owner == PasswordOf(c, login)
             new == [via |-> Via(c, owner), host |-> ToldOf(a.host, owner),
                     secret |-> owner, over |-> a.over # None,
                     key |-> login \in c.keys, cert |-> login \in c.certs,
                     records |-> a.host # Address /\ ~a.scp, launch |-> "no"]
  <1>1. c \in Configs \cup Edited /\ a.host \in c.hosts \cup {Address}
    BY DEF Resolve, At, MeantInv, TypeInv, Loaded
  <1>2. c \in Config /\ None \notin Host \cup Cred
    BY <1>1, ConnectAssumption
  <1>3. None \notin c.secrets
    BY <1>2 DEF Config, Owner
  <1>4. /\ new.via = Via(c, owner) /\ new.host = a.host /\ new.secret = owner
        /\ (~new.over <=> a.over = None)
    BY Zenon DEF ToldOf
  <1>5. plan' = [plan EXCEPT ![p] = new]
    BY Zenon DEF Resolve
  <1>6. pc'[p] # "off" /\ cfg' = cfg
    BY DEF Resolve, Goto, MeantInv, TypeInv, TypeOK
  <1>7. Via(c, owner) \in {"config", "keyring"} => owner \in c.secrets /\ owner = login
    BY DEF Via, PasswordOf
  <1>8. /\ Via(c, owner) = "config" => c.mode = "plaintext"
        /\ Via(c, owner) = "keyring" => c.mode = "keyring"
    BY <1>2 DEF Via, Config, Mode
  <1>9. owner # None /\ owner = login /\ a.over = None =>
           a.host \in c.hosts /\ owner = LoginOf(c, a.host)
    BY <1>1 DEF ResolvedLogin
  <1> HIDE DEF new, owner, login
  <1>10. plan'[p] = new
    BY <1>5 DEF MeantInv, TypeInv, TypeOK
  <1> QED BY <1>3, <1>4, <1>6, <1>7, <1>8, <1>9, <1>10 DEF Meant

\* Every step keeps what is meant.
LEMMA MeantKept ==
    ASSUME MeantInv, [Next]_vars, NEW q \in Procs
    PROVE  Meant(q)'
  <1> USE DEF MeantInv, TypeInv, TypeOK, At, Goto, signalVars, fileVars, sshVars, useVars
  <1>1. Meant(q)
    OBVIOUS
  <1>2. CASE UNCHANGED vars \/ Edit \/ Sweep \/ \E f \in File : Age(f)
    BY <1>1, <1>2, MeantSame DEF vars, Edit, Sweep, Age
  <1>3. ASSUME NEW p \in Procs, Start(p) PROVE Meant(q)'
    <2>1. CASE p = q
      <3>1. plan'[q].via = "none"
        BY <1>1, <1>3, <2>1 DEF Start, Meant
      <3> QED BY <3>1 DEF Meant
    <2>2. CASE p # q
      BY <1>1, <1>3, <2>2, MeantSame DEF Start
    <2> QED BY <2>1, <2>2
  <1>4. ASSUME NEW p \in Procs, NEW a \in Attempts[p], Resolve(p, a) PROVE Meant(q)'
    <2>1. CASE p # q
      <3>1. plan'[q] = plan[q] /\ cfg'[q] = cfg[q] /\ pc'[q] = pc[q]
        BY <1>4, <2>1 DEF Resolve
      <3> QED BY <1>1, <3>1, MeantSame
    <2> QED BY <1>4, <2>1, ResolveMeant
  <1>5. ASSUME NEW p \in Procs, NEW how \in {"begun", "failed"}, Launched(p, how)
        PROVE  /\ plan'[q].via = plan[q].via /\ plan'[q].over = plan[q].over
               /\ plan'[q].host = plan[q].host /\ plan'[q].secret = plan[q].secret
    <2> DEFINE new == [plan[p] EXCEPT !.launch = how]
    <2>1. /\ new.via = plan[p].via /\ new.over = plan[p].over
          /\ new.host = plan[p].host /\ new.secret = plan[p].secret
      BY DEF Plan
    <2>2. plan' = [plan EXCEPT ![p] = new]
      BY <1>5 DEF Launched
    <2> HIDE DEF new
    <2> QED BY <2>1, <2>2
  <1>6. ASSUME NEW p \in Procs, Launch(p) \/ LaunchFails(p) \/ ExecFails(p) PROVE Meant(q)'
    <2>1. /\ plan'[q].via = plan[q].via /\ plan'[q].over = plan[q].over
          /\ plan'[q].host = plan[q].host /\ plan'[q].secret = plan[q].secret
      BY <1>5, <1>6 DEF Launch, LaunchFails, ExecFails
    <2>2. cfg' = cfg /\ (pc'[q] = "off" => pc[q] = "off")
      BY <1>6 DEF Launch, LaunchFails, ExecFails, Drop, Over
    <2> QED BY <1>1, <2>1, <2>2, MeantSame
  <1>7. ASSUME NEW p \in Procs, NEW how, End(p, how) PROVE Meant(q)'
    <2>1. CASE p = q
      <3> DEFINE new == [NoPlan EXCEPT !.launch = plan[p].launch]
      <3>1. new.via = "none" /\ plan' = [plan EXCEPT ![p] = new]
        BY <1>7 DEF End, NoPlan
      <3> HIDE DEF new
      <3>2. plan'[q].via = "none"
        BY <2>1, <3>1
      <3> QED BY <3>2 DEF Meant
    <2>2. CASE p # q
      <3>1. plan'[q] = plan[q] /\ cfg'[q] = cfg[q] /\ pc'[q] = pc[q]
        BY <1>7, <2>2 DEF End
      <3> QED BY <1>1, <3>1, MeantSame
    <2> QED BY <2>1, <2>2
  <1>8. ASSUME NEW p \in Procs,
               \/ GiveUp(p) \/ WriteKey(p) \/ WriteKeyFails(p) \/ WriteCert(p)
               \/ RegisterKey(p) \/ CheckPasses(p) \/ CheckFails(p) \/ LoadUse(p) \/ SaveUse(p)
               \/ RegisterPw(p) \/ Exec(p) \/ SshEnds(p) \/ RemovePw(p) \/ DropFiles(p)
               \/ Ssh(p) \/ Catch(p) \/ Wipe(p)
        PROVE  Meant(q)'
    <2>1. UNCHANGED <<cfg, plan>>
      BY <1>8 DEF GiveUp, WriteKey, WriteKeyFails, WriteCert, RegisterKey, CheckPasses,
         CheckFails, LoadUse, SaveUse, RegisterPw, Exec, SshEnds, RemovePw, DropFiles,
         Ssh, ReadKey, Ask, Catch, Wipe
    <2>2. pc'[q] = "off" => pc[q] = "off"
      BY <1>8 DEF GiveUp, WriteKey, WriteKeyFails, WriteCert, RegisterKey, CheckPasses,
         CheckFails, LoadUse, SaveUse, RegisterPw, Exec, SshEnds, RemovePw, DropFiles,
         Ssh, ReadKey, Ask, Catch, Wipe, Over, Drop
    <2> QED BY <1>1, <2>1, <2>2, MeantSame
  <1> QED
    BY <1>2, <1>3, <1>4, <1>6, <1>7, <1>8
    DEF Next, Main, Signal, Exit, SignalExit, Kill

\* AnswersResolved: while the config is the one that was loaded, the helper answers
\* with the password that was resolved.
THEOREM ConnectAnswers == Spec => AnswersResolved
  <1>1. Init => MeantInv
    BY InitTyped DEF Init, MeantInv, Meant, NoPlan
  <1>2. MeantInv /\ [Next]_vars => MeantInv'
    BY TypeKept, MeantKept DEF MeantInv
  <1>3. ASSUME MeantInv, NEW p \in Procs, Ask(p), config = cfg[p],
               plan[p].via = "file" => <<p, "pw">> \in disk, ~plan[p].over
        PROVE  given'[p] = plan[p].secret
    <2>1. \E answer \in Answers(p) : given'[p] = answer
      BY <1>3 DEF Ask, MeantInv, TypeInv, TypeOK
    <2>2. \A answer \in Answers(p) : answer = plan[p].secret
      BY <1>3 DEF Answers, MeantInv, Meant
    <2> QED BY <2>1, <2>2
  <1>4. MeantInv /\ [Next]_vars =>
           [\A p \in Procs :
               /\ Ask(p) /\ config = cfg[p]
               /\ plan[p].via = "file" => <<p, "pw">> \in disk
               /\ ~plan[p].over
               => given'[p] = plan[p].secret]_vars
    BY <1>3
  <1> QED BY <1>1, <1>2, <1>4, PTL DEF Spec, AnswersResolved

-------------------------------------------------------------------------------
(* The usage table.                                                           *)

\* A process whose use has not been counted.
Uncounted(p) ==
    /\ status[p] = "alive"
    /\ \/ pc[p] \in {"off", "loaded", "key", "cert", "regKey", "regCert", "check", "use", "save"}
       \/ pc[p] \in {"dropKey", "dropCert", "rmKey", "rmCert"} /\ plan[p].launch = "no"

\* No table has a use that has not been counted; ssh runs once it has been.
Counted(p) ==
    /\ Uncounted(p) => p \notin usage /\ \A q \in Procs : p \notin mine[q]
    /\ pc[p] \in {"launch", "regPw", "exec", "ssh"} /\ plan[p].records
       => p \in usage \cup unsaved \/ \E q \in usage : p \notin mine[q]
    /\ pc[p] \in {"regPw", "exec", "ssh", "unregPw", "rmPw"} => plan[p].launch # "no"

CountedInv == TypeInv /\ \A p \in Procs : Counted(p)

\* A use is counted.
LEMMA SaveCounted ==
    ASSUME CountedInv, NEW p \in Procs, SaveUse(p), NEW q \in Procs
    PROVE  Counted(q)'
  <1> USE DEF CountedInv, TypeInv, TypeOK, At, Goto
  <1>1. /\ pc[p] = "save" /\ status[p] = "alive" /\ pc'[p] = "launch"
        /\ UNCHANGED <<plan, status>>
    BY DEF SaveUse, signalVars
  <1>2. /\ mine'[p] = mine[p] \cup {p} /\ \A r \in Procs : r # p => mine'[r] = mine[r]
        /\ \/ usage' = mine[p] \cup {p} /\ unsaved' = unsaved
           \/ usage' = usage /\ unsaved' = unsaved \cup {p}
    BY DEF SaveUse
  <1>3. q # p => pc'[q] = pc[q]
    BY DEF SaveUse
  <1>4. Counted(p) /\ Counted(q)
    OBVIOUS
  <1>5. p \notin usage
    BY <1>1, <1>4 DEF Counted, Uncounted
  <1>6. CASE p = q
    BY <1>1, <1>2, <1>5, <1>6 DEF Counted, Uncounted
  <1>7. CASE p # q
    <2>1. Uncounted(q)' => Uncounted(q)
      BY <1>1, <1>3, <1>7 DEF Uncounted
    <2>2. Uncounted(q) => q \notin usage' /\ \A r \in Procs : q \notin mine'[r]
      BY <1>2, <1>4, <1>7 DEF Counted
    <2>3. ASSUME q \in usage \cup unsaved \/ \E r \in usage : q \notin mine[r]
          PROVE  q \in usage' \cup unsaved' \/ \E r \in usage' : q \notin mine'[r]
      <3>1. CASE usage' = mine[p] \cup {p}
        BY <1>2, <1>7, <3>1
      <3>2. CASE usage' = usage /\ unsaved' = unsaved \cup {p}
        BY <1>2, <1>5, <1>7, <2>3, <3>2
      <3> QED BY <1>2, <3>1, <3>2
    <2> QED BY <1>1, <1>3, <1>4, <1>7, <2>1, <2>2, <2>3 DEF Counted
  <1> QED BY <1>6, <1>7

\* A table is loaded.
LEMMA LoadCounted ==
    ASSUME CountedInv, NEW p \in Procs, Start(p) \/ LoadUse(p), NEW q \in Procs
    PROVE  Counted(q)'
  <1> USE DEF CountedInv, TypeInv, TypeOK, At, Goto
  <1>1. /\ pc[p] \in {"off", "use"} /\ status[p] = "alive" /\ pc'[p] \in {"loaded", "save"}
        /\ UNCHANGED <<plan, status, usage, unsaved>>
        /\ \A r \in Procs : r # p => pc'[r] = pc[r]
    BY DEF Start, LoadUse, signalVars
  <1>2. mine'[p] \subseteq usage /\ \A r \in Procs : r # p => mine'[r] = mine[r]
    BY DEF Start, LoadUse
  <1>3. Counted(p) /\ Counted(q) /\ p \notin usage
    BY <1>1 DEF Counted, Uncounted
  <1>4. Uncounted(q)' => Uncounted(q)
    BY <1>1 DEF Uncounted
  <1>5. Uncounted(q)' => q \notin usage' /\ \A r \in Procs : q \notin mine'[r]
    BY <1>1, <1>2, <1>3, <1>4 DEF Counted
  <1>6. pc'[q] \in {"launch", "regPw", "exec", "ssh"} => pc[q] = pc'[q]
    BY <1>1
  <1>7. (\E r \in usage : q \notin mine[r]) => \E r \in usage' : q \notin mine'[r]
    BY <1>1, <1>2, <1>3
  <1>8. pc'[q] \in {"unregPw", "rmPw"} => pc[q] = pc'[q]
    BY <1>1
  <1> QED BY <1>1, <1>3, <1>5, <1>6, <1>7, <1>8 DEF Counted

\* Every step keeps the count.
LEMMA CountedKept ==
    ASSUME CountedInv, [Next]_vars, NEW q \in Procs
    PROVE  Counted(q)'
  <1> USE DEF CountedInv, TypeInv, TypeOK, At, Goto, signalVars, fileVars, sshVars, useVars
  <1>1. Counted(q)
    OBVIOUS
  <1>2. CASE UNCHANGED vars \/ Edit \/ Sweep \/ \E f \in File : Age(f)
    BY <1>1, <1>2 DEF vars, Edit, Sweep, Age, Counted, Uncounted
  <1>3. ASSUME NEW p \in Procs, NEW a \in Attempts[p], Resolve(p, a) PROVE Counted(q)'
    <2>1. /\ pc[p] = "loaded" /\ status[p] = "alive" /\ pc'[p] \in {"key", "check"}
          /\ UNCHANGED <<status, usage, mine, unsaved>>
          /\ \A r \in Procs : r # p => pc'[r] = pc[r] /\ plan'[r] = plan[r]
      BY <1>3 DEF Resolve
    <2> QED BY <1>1, <2>1 DEF Counted, Uncounted
  <1>4. ASSUME NEW p \in Procs, NEW how \in {"begun", "failed"}, Launched(p, how)
        PROVE  /\ plan'[q].records = plan[q].records
               /\ plan'[p].launch = how /\ (q # p => plan'[q] = plan[q])
    <2> DEFINE new == [plan[p] EXCEPT !.launch = how]
    <2>1. new.records = plan[p].records /\ new.launch = how
      BY DEF Plan
    <2>2. plan' = [plan EXCEPT ![p] = new]
      BY <1>4 DEF Launched
    <2> HIDE DEF new
    <2> QED BY <2>1, <2>2
  <1>5. ASSUME NEW p \in Procs, Launch(p) \/ LaunchFails(p) \/ ExecFails(p) PROVE Counted(q)'
    <2>1. /\ plan'[q].records = plan[q].records
          /\ plan'[p].launch # "no" /\ (q # p => plan'[q] = plan[q])
      BY <1>4, <1>5 DEF Launch, LaunchFails, ExecFails
    <2>2. /\ pc[p] \in {"launch", "exec"}
          /\ pc'[p] \in {"regPw", "exec", "dropKey", "done", "loaded"}
          /\ (q # p => pc'[q] = pc[q])
          /\ UNCHANGED <<status, usage, mine, unsaved>>
      BY <1>5 DEF Launch, LaunchFails, ExecFails, Drop, Over
    <2>3. pc[p] = "exec" => plan[p].launch # "no"
      BY DEF Counted
    <2>4. pc'[p] # "loaded"
      BY <1>5, <2>3 DEF Launch, LaunchFails, ExecFails, Drop, Over
    <2> QED BY <1>1, <2>1, <2>2, <2>4 DEF Counted, Uncounted
  <1>6. ASSUME NEW p \in Procs, NEW how \in {"exited", "signalled", "killed"}, End(p, how)
        PROVE  Counted(q)'
    <2>1. /\ status'[p] # "alive" /\ pc'[p] = "off"
          /\ UNCHANGED <<usage, mine, unsaved>>
      BY <1>6 DEF End
    <2>2. q # p => plan'[q] = plan[q] /\ pc'[q] = pc[q] /\ status'[q] = status[q]
      BY <1>6 DEF End
    <2> QED BY <1>1, <2>1, <2>2 DEF Counted, Uncounted
  <1>7. ASSUME NEW p \in Procs, CheckPasses(p) \/ CheckFails(p) PROVE Counted(q)'
    <2>1. /\ pc[p] = "check" /\ status[p] = "alive"
          /\ \/ pc'[p] \in {"use", "save", "dropKey", "loaded", "done"}
             \/ pc'[p] = "launch" /\ ~plan[p].records
          /\ UNCHANGED <<plan, status, usage, mine, unsaved>>
          /\ (q # p => pc'[q] = pc[q])
      BY <1>7 DEF CheckPasses, CheckFails, Drop, Over
    <2> QED BY <1>1, <2>1 DEF Counted, Uncounted
  <1>8. ASSUME NEW p \in Procs,
               \/ GiveUp(p) \/ WriteKey(p) \/ WriteKeyFails(p) \/ WriteCert(p) \/ RegisterKey(p)
        PROVE  Counted(q)'
    <2>1. /\ pc[p] \in {"loaded", "key", "cert", "regKey", "regCert"} /\ status[p] = "alive"
          /\ pc'[p] \in {"loaded", "cert", "regKey", "regCert", "check", "done"}
          /\ UNCHANGED <<plan, status, usage, mine, unsaved>>
          /\ (q # p => pc'[q] = pc[q])
      BY <1>8 DEF GiveUp, WriteKey, WriteKeyFails, WriteCert, RegisterKey, Over
    <2> QED BY <1>1, <2>1 DEF Counted, Uncounted
  <1>9. ASSUME NEW p \in Procs, RegisterPw(p) \/ Exec(p) \/ SshEnds(p) \/ RemovePw(p)
        PROVE  Counted(q)'
    <2>1. /\ pc[p] \in {"regPw", "exec", "ssh", "unregPw", "rmPw"} /\ status[p] = "alive"
          /\ UNCHANGED <<plan, status, usage, mine, unsaved>>
          /\ (q # p => pc'[q] = pc[q])
      BY <1>9 DEF RegisterPw, Exec, SshEnds, RemovePw
    <2>2. plan[p].launch # "no"
      BY <2>1 DEF Counted
    <2>3. \/ pc'[p] \in {"exec", "ssh"} /\ pc[p] \in {"regPw", "exec"}
          \/ pc'[p] \in {"unregPw", "rmPw", "dropKey", "done"}
      BY <1>9, <2>2 DEF RegisterPw, Exec, SshEnds, RemovePw, Drop, Over
    <2> QED BY <1>1, <2>1, <2>2, <2>3 DEF Counted, Uncounted
  <1>10. ASSUME NEW p \in Procs, DropFiles(p) PROVE Counted(q)'
    <2>1. /\ pc[p] \in {"dropKey", "dropCert", "rmKey", "rmCert"} /\ status[p] = "alive"
          /\ UNCHANGED <<plan, status, usage, mine, unsaved>>
          /\ (q # p => pc'[q] = pc[q])
          /\ \/ pc'[p] \in {"dropCert", "rmKey", "rmCert", "done"}
             \/ pc'[p] = "loaded" /\ plan[p].launch = "no"
      BY <1>10 DEF DropFiles, Over
    <2> QED BY <1>1, <2>1 DEF Counted, Uncounted
  <1>11. ASSUME NEW p \in Procs, Ssh(p) \/ Catch(p) \/ Wipe(p) PROVE Counted(q)'
    <2>1. UNCHANGED <<pc, plan, status, usage, mine, unsaved>>
      BY <1>11 DEF Ssh, ReadKey, Ask, Catch, Wipe
    <2> QED BY <1>1, <2>1 DEF Counted, Uncounted
  <1> QED
    BY <1>2, <1>3, <1>5, <1>6, <1>7, <1>8, <1>9, <1>10, <1>11, SaveCounted, LoadCounted
    DEF Next, Main, Signal, Exit, SignalExit, Kill

\* UsageOnDisk: while ssh runs, its use is in the file, could not be saved, or was
\* overwritten by a process whose table lacks it; no order of loads and saves of
\* any number of processes loses one in another way.
THEOREM ConnectCounts == Spec => []UsageOnDisk
  <1>1. Init => CountedInv
    BY InitTyped DEF Init, CountedInv, Counted
  <1>2. CountedInv /\ [Next]_vars => CountedInv'
    BY TypeKept, CountedKept DEF CountedInv
  <1>3. CountedInv => UsageOnDisk
    BY DEF CountedInv, Counted, UsageOnDisk
  <1> QED BY <1>1, <1>2, <1>3, PTL DEF Spec

-------------------------------------------------------------------------------
(* The key ssh is pointed at.                                                 *)

\* Where the key, and the certificate with it, must be there for ssh.
KeyDue == {"cert", "regKey", "regCert", "check", "use", "save", "launch", "regPw", "exec", "ssh"}
CertDue == KeyDue \ {"cert"}

\* A file that is due is on disk, or was swept, unless a signal came.
Present(p) ==
    /\ status[p] = "alive" /\ caught[p] = None =>
          /\ plan[p].key /\ pc[p] \in KeyDue => <<p, "key">> \in disk \cup old
          /\ plan[p].cert /\ pc[p] \in CertDue => <<p, "cert">> \in disk \cup old
    /\ caught[p] = None => taken[p] = {}
    /\ read[p] # "no" => status[p] = "alive" /\ pc[p] = "ssh"
    /\ read[p] = "missing" => caught[p] # None \/ {<<p, "key">>, <<p, "cert">>} \cap old # {}

PresentInv == TypeInv /\ \A p \in Procs : Present(p)

\* A process that does nothing keeps its files, but for sweeps.
LEMMA PresentSame == ASSUME NEW p \in Procs, Present(p), Same(p) PROVE Present(p)'
  BY DEF Same, Present

\* Every step of its own keeps its files until ssh has ended.
LEMMA PresentOwn ==
    ASSUME PresentInv, NEW p \in Procs, Main(p) \/ Ssh(p) \/ Signal(p)
    PROVE  Present(p)'
  <1> USE DEF PresentInv, TypeInv, TypeOK, At, Goto, signalVars, fileVars, sshVars
  <1>1. Present(p)
    OBVIOUS
  <1>2. ASSUME Start(p) \/ GiveUp(p) PROVE Present(p)'
    <2>1. /\ pc[p] # "ssh" /\ pc'[p] \in {"loaded", "done"}
          /\ UNCHANGED <<status, caught, taken, old, read>>
      BY <1>2 DEF Start, GiveUp
    <2> QED BY <1>1, <2>1 DEF Present, KeyDue, CertDue
  <1>3. ASSUME NEW a \in Attempts[p], Resolve(p, a) PROVE Present(p)'
    <2>1. /\ pc[p] = "loaded" /\ UNCHANGED <<status, taken, old, read>>
          /\ caught'[p] = IF caught[p] = None THEN None ELSE {}
      BY <1>3 DEF Resolve
    <2>2. None # {}
      BY ConnectAssumption
    <2>3. /\ plan'[p].cert => plan'[p].key
          /\ pc'[p] = IF plan'[p].key THEN "key" ELSE "check"
      BY <1>3, ResolvedPlan
    <2> QED BY <1>1, <2>1, <2>2, <2>3 DEF Present, KeyDue, CertDue
  <1>4. ASSUME WriteKey(p) \/ WriteKeyFails(p) \/ WriteCert(p) PROVE Present(p)'
    <2>1. pc[p] \in {"key", "cert"} /\ UNCHANGED <<plan, status, caught, read>>
      BY <1>4 DEF WriteKey, WriteKeyFails, WriteCert
    <2>2. caught[p] = None => taken'[p] = {}
      BY <1>1, <1>4 DEF Present, WriteKey, WriteKeyFails, WriteCert, Write, Remove
    <2>3. \/ pc'[p] = "cert" /\ <<p, "key">> \in disk'
          \/ pc[p] = "key" /\ pc'[p] = "regKey" /\ ~plan[p].cert /\ <<p, "key">> \in disk'
          \/ /\ pc[p] = "cert" /\ pc'[p] = "regKey" /\ <<p, "cert">> \in disk'
             /\ <<p, "key">> \in disk \cup old => <<p, "key">> \in disk' \cup old'
          \/ pc'[p] \in {"loaded", "done"}
      BY <1>4 DEF WriteKey, WriteKeyFails, WriteCert, Write, Remove, Over
    <2> QED BY <1>1, <2>1, <2>2, <2>3 DEF Present, KeyDue, CertDue
  <1>5. ASSUME RegisterKey(p) \/ CheckPasses(p) \/ CheckFails(p) \/ LoadUse(p) \/ SaveUse(p)
        PROVE  Present(p)'
    <2>1. /\ pc[p] \in {"regKey", "regCert", "check", "use", "save"}
          /\ pc'[p] \in {"regCert", "check", "use", "save", "launch", "dropKey", "loaded", "done"}
          /\ UNCHANGED <<plan, status, caught, taken, disk, old, read>>
      BY <1>5 DEF RegisterKey, Register, CheckPasses, CheckFails, LoadUse, SaveUse, Drop, Over
    <2> QED BY <1>1, <2>1 DEF Present, KeyDue, CertDue
  <1>6. ASSUME Launch(p) \/ LaunchFails(p) \/ RegisterPw(p) \/ Exec(p) \/ ExecFails(p)
        PROVE  Present(p)'
    <2>1. /\ pc[p] \in {"launch", "regPw", "exec"}
          /\ UNCHANGED <<status, caught, read>>
          /\ caught[p] = None => taken'[p] = {}
          /\ \A k \in {"key", "cert"} :
                <<p, k>> \in disk \cup old => <<p, k>> \in disk' \cup old'
      BY <1>1, <1>6 DEF Present, Launch, LaunchFails, RegisterPw, Register, Exec, ExecFails, Write
    <2>2. plan'[p].key = plan[p].key /\ plan'[p].cert = plan[p].cert
      BY <1>6, LaunchPlan DEF Launch, LaunchFails, RegisterPw, Exec, ExecFails
    <2>3. read[p] = "no"
      BY <1>1, <2>1 DEF Present
    <2> QED BY <1>1, <2>1, <2>2, <2>3 DEF Present, KeyDue, CertDue
  <1>7. ASSUME SshEnds(p) \/ RemovePw(p) \/ DropFiles(p) PROVE Present(p)'
    <2>1. /\ pc[p] \in {"ssh", "unregPw", "rmPw", "dropKey", "dropCert", "rmKey", "rmCert"}
          /\ UNCHANGED <<plan, status, caught, taken>>
          /\ pc'[p] \notin KeyDue
          /\ pc[p] = "ssh" => read'[p] = "no"
          /\ pc[p] # "ssh" => read'[p] = read[p]
      BY <1>7 DEF SshEnds, SshGone, RemovePw, DropFiles, Unregister, Remove, Drop, Over, KeyDue
    <2> QED BY <1>1, <2>1 DEF Present, KeyDue, CertDue
  <1>8. ASSUME NEW how \in {"exited", "signalled", "killed"}, End(p, how) PROVE Present(p)'
    <2>1. status'[p] # "alive" /\ taken'[p] = {} /\ read'[p] = "no"
      BY <1>8 DEF End, SshGone
    <2> QED BY <2>1 DEF Present
  <1>9. ASSUME ReadKey(p) PROVE Present(p)'
    <2>1. /\ pc[p] = "ssh" /\ status[p] = "alive" /\ plan[p].key
          /\ UNCHANGED <<pc, plan, status, caught, taken, disk, old>>
      BY <1>9 DEF ReadKey
    <2>2. read'[p] = "missing" =>
             <<p, "key">> \notin disk \/ (plan[p].cert /\ <<p, "cert">> \notin disk)
      BY <1>9 DEF ReadKey
    <2> QED BY <1>1, <2>1, <2>2 DEF Present, KeyDue, CertDue
  <1>10. ASSUME Ask(p) PROVE Present(p)'
    <2>1. /\ UNCHANGED <<pc, plan, status, caught, taken, old, read>>
          /\ \A k \in {"key", "cert"} : <<p, k>> \in disk => <<p, k>> \in disk'
      BY <1>10 DEF Ask
    <2> QED BY <1>1, <2>1 DEF Present
  <1>11. ASSUME Catch(p) PROVE Present(p)'
    <2>1. /\ UNCHANGED <<pc, plan, status, disk, old, read>>
          /\ caught'[p] = HeldKinds(pc[p])
      BY <1>11 DEF Catch
    <2>2. HeldKinds(pc[p]) # None
      BY ConnectAssumption DEF HeldKinds, Kind
    <2> QED BY <1>1, <2>1, <2>2 DEF Present
  <1>12. ASSUME Wipe(p) PROVE Present(p)'
    <2>1. taken[p] # {} /\ UNCHANGED <<pc, plan, status, caught, old, read>>
      BY <1>12 DEF Wipe
    <2>2. caught[p] # None
      BY <1>1, <2>1 DEF Present
    <2> QED BY <1>1, <2>1, <2>2 DEF Present
  <1> QED
    BY <1>2, <1>3, <1>4, <1>5, <1>6, <1>7, <1>8, <1>9, <1>10, <1>11, <1>12
    DEF Main, Ssh, Signal, Exit, SignalExit, Kill

\* KeyThere: ssh finds the key it is pointed at, and the certificate, unless a signal
\* came or a sweep took them for leftovers, whatever other processes do.
THEOREM ConnectKeyThere == Spec => []KeyThere
  <1>1. Init => PresentInv
    BY InitTyped DEF Init, PresentInv, Present, NoPlan, KeyDue, CertDue
  <1>2. ASSUME PresentInv, [Next]_vars PROVE PresentInv'
    <2>1. TypeInv'
      BY <1>2, TypeKept DEF PresentInv
    <2>2. ASSUME NEW p \in Procs, Main(p) \/ Ssh(p) \/ Signal(p), NEW q \in Procs
          PROVE  Present(q)'
      BY <1>2, <2>2, PresentOwn, OthersSame, PresentSame DEF PresentInv
    <2>3. ASSUME Edit \/ Sweep \/ (\E f \in File : Age(f)) \/ UNCHANGED vars, NEW q \in Procs
          PROVE  Present(q)'
      BY <1>2, <2>3, AroundSame, PresentSame DEF PresentInv
    <2> QED BY <1>2, <2>1, <2>2, <2>3 DEF Next, PresentInv
  <1>3. PresentInv => KeyThere
    BY DEF PresentInv, Present, KeyThere
  <1> QED BY <1>1, <1>2, <1>3, PTL DEF Spec
===============================================================================
