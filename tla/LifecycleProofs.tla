-------------------------- MODULE LifecycleProofs ---------------------------
(* One daemon, its pid in the file, the servers of its command line: for   *)
(* every number of processes and every command line.                       *)
EXTENDS Lifecycle, Induction, TLAPS

\* Throughout, an error is a way to cleanexit(), and starting ends in two ways.
USE DEF log_err_exit, InitOutcomes

(* What a signal does to the processes: to its target it adds itself, or   *)
(* ends it.                                                                *)
LEMMA KillEffect ==
    ASSUME TypeOK, NEW q \in Pids, NEW s \in Signals
    PROVE  /\ kill(q, s) \in [Pids -> Proc]
           /\ \A r \in Pids : r # q => kill(q, s)[r] = proc[r]
           /\ \/ kill(q, s)[q] = NoProc
              \/ kill(q, s)[q] = proc[q]
              \/ kill(q, s)[q] = [proc[q] EXCEPT !.pending = @ \cup {s}]
           /\ ~Serving(q) => kill(q, s)[q] = NoProc \/ proc[q].pc = "none"
<1>1. proc \in [Pids -> Proc] /\ NoProc \in Proc
  BY DEF TypeOK, NoProc, Proc, Places, Starting
<1>2. Ended(q) \in [Pids -> Proc] /\ Ended(q)[q] = NoProc /\ \A r \in Pids : r # q => Ended(q)[r] = proc[r]
  BY <1>1 DEF Ended
<1>3. CASE ~isrunning(q)
  BY <1>1, <1>3 DEF kill, isrunning
<1>4. CASE isrunning(q) /\ proc[q].handling # {} /\ s = "HUP"
  BY <1>1, <1>4 DEF kill, Serving, Armed
<1>5. CASE isrunning(q) /\ ~(proc[q].handling # {} /\ s = "HUP") /\ Armed(q)
  <2> DEFINE k == [proc EXCEPT ![q].pending = @ \cup {s}]
  <2>1. kill(q, s) = k
    BY <1>5 DEF kill
  <2>2. [proc[q] EXCEPT !.pending = @ \cup {s}] \in Proc
    BY <1>1 DEF Proc
  <2>3. k \in [Pids -> Proc] /\ k[q] = [proc[q] EXCEPT !.pending = @ \cup {s}]
        /\ \A r \in Pids : r # q => k[r] = proc[r]
    BY <1>1, <2>2
  <2> QED BY <2>1, <2>3, <1>5 DEF Serving
<1>6. CASE isrunning(q) /\ ~(proc[q].handling # {} /\ s = "HUP") /\ ~Armed(q)
  <2>1. kill(q, s) = Ended(q)
    BY <1>6 DEF kill
  <2> QED BY <2>1, <1>2
<1> QED BY <1>3, <1>4, <1>5, <1>6

---------------------------------------------------------------------------
(* Type correctness of each step.                                          *)

LEMMA TypeKept ==
    ASSUME TypeOK, NEW p \in Pids, NEW v \in Proc, proc' = [proc EXCEPT ![p] = v],
           named' \in Inodes \cup {Nothing}, content' \in Pids \cup {Nothing}, raced' \in {0, 1}
    PROVE  TypeOK'
BY DEF TypeOK

LEMMA StepType == TypeOK /\ [Next]_vars => TypeOK'
<1> SUFFICES ASSUME TypeOK, [Next]_vars PROVE TypeOK'
  OBVIOUS
<1>1. /\ proc \in [Pids -> Proc] /\ NoProc \in Proc
      /\ named \in Inodes \cup {Nothing} /\ content \in Pids \cup {Nothing} /\ raced \in {0, 1}
  BY DEF TypeOK, NoProc, Proc, Places, Starting
<1>2. ASSUME NEW p \in Pids, NEW place \in Places, Goto(p, place),
             named' \in Inodes \cup {Nothing}, content' \in Pids \cup {Nothing}, raced' \in {0, 1}
      PROVE  TypeOK'
  <2>1. [proc[p] EXCEPT !.pc = place] \in Proc
    BY <1>1 DEF Proc
  <2>2. proc' = [proc EXCEPT ![p] = [proc[p] EXCEPT !.pc = place]]
    BY <1>2 DEF Goto
  <2> HIDE DEF Proc
  <2> QED BY <2>1, <2>2, <1>2, TypeKept
<1>3. ASSUME NEW p \in Pids, Exit(p),
             named' \in Inodes \cup {Nothing}, content' \in Pids \cup {Nothing}, raced' \in {0, 1}
      PROVE  TypeOK'
  BY <1>1, <1>3, TypeKept DEF Exit, Ended
<1>4. {"stat", "open", "wait", "unlink", "create", "init", "fork", "write", "none", "other", "parse", "run",
       "select", "maintain", "cleanexit", "closing"} \subseteq Places
  BY DEF Places, Starting
<1>5. ASSUME NEW p \in Pids, KillReturns(p),
             named' \in Inodes \cup {Nothing}, content' \in Pids \cup {Nothing}, raced' \in {0, 1}
      PROVE  TypeOK'
  <2>1. CASE Exit(p)
    BY <2>1, <1>3, <1>5
  <2>2. CASE proc' = [proc EXCEPT ![p].pc = "create", ![p].pid = Nothing]
    <3>1. [proc[p] EXCEPT !.pc = "create", !.pid = Nothing] \in Proc
      BY <1>1, <1>4 DEF Proc
    <3>2. proc' = [proc EXCEPT ![p] = [proc[p] EXCEPT !.pc = "create", !.pid = Nothing]]
      BY <2>2, <1>1
    <3> QED BY <3>1, <3>2, <1>5, TypeKept
  <2> QED BY <2>1, <2>2, <1>5 DEF KillReturns
<1>6. ASSUME NEW p \in Pids, Start(p) PROVE TypeOK'
  <2>1. PICK c \in Commands, u \in Uids :
            proc' = [proc EXCEPT ![p] = [NoProc EXCEPT !.pc = "parse", !.cmd = c, !.uid = u]]
    BY <1>6 DEF Start
  <2>2. [NoProc EXCEPT !.pc = "parse", !.cmd = c, !.uid = u] \in Proc
    BY <1>1, <1>4 DEF Proc
  <2> QED BY <2>1, <2>2, <1>1, <1>6, TypeKept DEF Start
<1>7. ASSUME NEW p \in Pids, OtherProgram(p) \/ Crash(p) \/ Close(p) \/ ParseArgs(p) \/ Run(p) PROVE TypeOK'
  <2>1. (Goto(p, "other") \/ Goto(p, "stat") \/ Goto(p, "select") \/ Exit(p)) /\ UNCHANGED <<named, content, raced>>
    BY <1>7 DEF OtherProgram, Crash, Close, ParseArgs, Run
  <2> QED BY <2>1, <1>1, <1>2, <1>3, <1>4
<1>8. ASSUME NEW p \in Pids, Signal(p) PROVE TypeOK'
  <2>1. PICK s \in Signals : proc' = kill(p, s)
    BY <1>8 DEF Signal
  <2>2. proc' \in [Pids -> Proc]
    BY <2>1, KillEffect
  <2> QED BY <2>2, <1>1, <1>8 DEF Signal, TypeOK
<1>9. ASSUME NEW p \in Pids, StatPidFile(p) PROVE TypeOK'
  <2>1. (KillReturns(p) \/ Goto(p, "open")) /\ named' = named /\ content' = content /\ raced' \in {0, 1}
    BY <1>9, <1>1 DEF StatPidFile
  <2> QED BY <2>1, <1>1, <1>2, <1>4, <1>5
<1>10. ASSUME NEW p \in Pids, KillRunning(p) PROVE TypeOK'
  <2>1. UNCHANGED <<named, content, raced>>
    BY <1>10 DEF KillRunning
  <2>2. CASE Exit(p) \/ Goto(p, "unlink")
    BY <2>1, <2>2, <1>1, <1>2, <1>3, <1>4
  <2>3. CASE ~(Exit(p) \/ Goto(p, "unlink"))
    <3> DEFINE q == content
               may == q \in Pids /\ (proc[p].uid = "root" \/ proc[q].uid = "user")
               killed == IF may THEN kill(q, "TERM") ELSE proc
    <3>1. q \in Pids /\ proc' = [killed EXCEPT ![p].pc = "wait", ![p].pid = q]
      BY <2>3, <1>10, <1>1 DEF KillRunning
    <3>2. killed \in [Pids -> Proc]
      BY <3>1, <1>1, KillEffect DEF Signals, Deadly
    <3> HIDE DEF killed, q
    <3>3. [killed[p] EXCEPT !.pc = "wait", !.pid = q] \in Proc
      BY <3>1, <3>2, <1>4, ZenonT(60) DEF Proc
    <3>4. proc' = [killed EXCEPT ![p] = [killed[p] EXCEPT !.pc = "wait", !.pid = q]]
      BY <3>1, <3>2
    <3>5. proc' \in [Pids -> Proc]
      BY <3>2, <3>3, <3>4
    <3> QED BY <3>5, <2>1, <1>1 DEF TypeOK
  <2> QED BY <2>2, <2>3
<1>11. ASSUME NEW p \in Pids, wait_for_exit(p) PROVE TypeOK'
  <2>1. Goto(p, "unlink") /\ named' = named /\ content' = content /\ raced' \in {0, 1}
    BY <1>11, <1>1 DEF wait_for_exit, GiveUp
  <2> QED BY <2>1, <1>1, <1>2, <1>4
<1>12. ASSUME NEW p \in Pids, Unlink(p) PROVE TypeOK'
  <2>1. KillReturns(p) /\ named' \in Inodes \cup {Nothing} /\ content' \in Pids \cup {Nothing} /\ raced' = raced
    BY <1>12, <1>1 DEF Unlink
  <2> QED BY <2>1, <1>1, <1>5
<1>13. ASSUME NEW p \in Pids, CreatePidFile(p) PROVE TypeOK'
  <2>1. CASE Goto(p, "cleanexit") /\ UNCHANGED <<named, content>>
    BY <2>1, <1>13, <1>1, <1>2, <1>4 DEF CreatePidFile
  <2>2. CASE ~(Goto(p, "cleanexit") /\ UNCHANGED <<named, content>>)
    <3>1. PICK f \in Inodes : named' = f /\ content' = Nothing
                              /\ proc' = [proc EXCEPT ![p].pc = "init", ![p].filep = f]
      BY <2>2, <1>13 DEF CreatePidFile
    <3>2. [proc[p] EXCEPT !.pc = "init", !.filep = f] \in Proc
      BY <1>1, <1>4 DEF Proc
    <3>3. proc' = [proc EXCEPT ![p] = [proc[p] EXCEPT !.pc = "init", !.filep = f]]
      BY <3>1, <1>1
    <3>4. raced' = raced
      BY <1>13 DEF CreatePidFile
    <3> QED BY <3>1, <3>2, <3>3, <3>4, <1>1, TypeKept
  <2> QED BY <2>1, <2>2
<1>14. ASSUME NEW p \in Pids, InitAll(p) PROVE TypeOK'
  <2>1. PICK place \in {"fork", "cleanexit"} : proc' = [proc EXCEPT ![p].pc = place, ![p].dnrd_sem = "free"]
    BY <1>14 DEF InitAll, SemInit
  <2>2. [proc[p] EXCEPT !.pc = place, !.dnrd_sem = "free"] \in Proc
    BY <1>1, <1>4 DEF Proc
  <2>3. proc' = [proc EXCEPT ![p] = [proc[p] EXCEPT !.pc = place, !.dnrd_sem = "free"]]
    BY <2>1, <1>1
  <2> QED BY <2>2, <2>3, <1>14, <1>1, TypeKept DEF InitAll
<1>15. ASSUME NEW p \in Pids, Fork(p) PROVE TypeOK'
  <2>1. UNCHANGED <<named, content, raced>>
    BY <1>15 DEF Fork
  <2>2. CASE Goto(p, "write") \/ Goto(p, "cleanexit")
    BY <2>1, <2>2, <1>1, <1>2, <1>4
  <2>3. CASE ~(Goto(p, "write") \/ Goto(p, "cleanexit"))
    <3>1. PICK q \in Pids : proc' = [proc EXCEPT ![q] = [proc[p] EXCEPT !.pc = "write"], ![p] = NoProc]
      BY <2>3, <1>15 DEF Fork
    <3>2. [proc[p] EXCEPT !.pc = "write"] \in Proc
      BY <1>1, <1>4 DEF Proc
    <3>3. proc' \in [Pids -> Proc]
      BY <3>1, <3>2, <1>1
    <3> QED BY <3>3, <2>1, <1>1 DEF TypeOK
  <2> QED BY <2>2, <2>3
<1>16. ASSUME NEW p \in Pids, WritePid(p) PROVE TypeOK'
  <2>1. [proc[p] EXCEPT !.pc = "run", !.filep = Nothing] \in Proc
    BY <1>1, <1>4 DEF Proc
  <2>2. proc' = [proc EXCEPT ![p] = [proc[p] EXCEPT !.pc = "run", !.filep = Nothing]]
    BY <1>16, <1>1 DEF WritePid
  <2>3. named' = named /\ raced' = raced /\ content' \in Pids \cup {Nothing}
    BY <1>16, <1>1 DEF WritePid, Writer
  <2> QED BY <2>1, <2>2, <2>3, <1>1, TypeKept
<1>17. ASSUME NEW p \in Pids, sig_handler(p) PROVE TypeOK'
  <2>1. UNCHANGED <<named, content, raced>>
    BY <1>17 DEF sig_handler
  <2> DEFINE h == proc[p].pending \cap Deadly
             v1 == [proc[p] EXCEPT !.pc = "cleanexit", !.pending = {}, !.handling = h]
             v2 == [proc[p] EXCEPT !.pc = "maintain", !.pending = {}, !.master_reload = 1]
  <2>2. proc' = [proc EXCEPT ![p] = v1] \/ proc' = [proc EXCEPT ![p] = v2]
    BY <1>17, <1>1 DEF sig_handler
  <2>3. h \in SUBSET Deadly
    OBVIOUS
  <2> HIDE DEF h
  <2>4. v1 \in Proc /\ v2 \in Proc
    BY <2>3, <1>1, <1>4 DEF Proc
  <2> HIDE DEF v1, v2
  <2> QED BY <2>1, <2>2, <2>4, <1>1, TypeKept
<1>18. ASSUME NEW p \in Pids, HandlerAgain(p) PROVE TypeOK'
  <2>1. PICK s \in (proc[p].pending \cap Deadly) \ proc[p].handling :
            proc' = [proc EXCEPT ![p].pending = @ \ {s}, ![p].handling = @ \cup {s}, ![p].pc = "cleanexit"]
    BY <1>18 DEF HandlerAgain
  <2> DEFINE v == [proc[p] EXCEPT !.pending = @ \ {s}, !.handling = @ \cup {s}, !.pc = "cleanexit"]
  <2>2. v \in Proc
    BY <2>1, <1>1, <1>4 DEF Proc
  <2>3. proc' = [proc EXCEPT ![p] = v]
    BY <2>1, <1>1
  <2> HIDE DEF v
  <2> QED BY <2>2, <2>3, <1>18, <1>1, TypeKept DEF HandlerAgain
<1>19. ASSUME NEW p \in Pids, cleanexit(p) PROVE TypeOK'
  <2>1. [proc[p] EXCEPT !.pc = "closing", !.dnrd_sem = "taken"] \in Proc
    BY <1>1, <1>4 DEF Proc
  <2>2. proc' = [proc EXCEPT ![p] = [proc[p] EXCEPT !.pc = "closing", !.dnrd_sem = "taken"]]
    BY <1>19, <1>1 DEF cleanexit
  <2> QED BY <2>1, <2>2, <1>19, <1>1, TypeKept DEF cleanexit
<1>20. ASSUME NEW p \in Pids, Interrupted(p) PROVE TypeOK'
  <2>1. CASE Goto(p, "select")
    BY <2>1, <1>20, <1>1, <1>2, <1>4 DEF Interrupted
  <2>2. CASE ~Goto(p, "select")
    <3>1. proc' = [proc EXCEPT ![p].pc = "select", ![p].master_reload = 0]
      BY <2>2, <1>20 DEF Interrupted
    <3>2. [proc[p] EXCEPT !.pc = "select", !.master_reload = 0] \in Proc
      BY <1>1, <1>4 DEF Proc
    <3>3. proc' = [proc EXCEPT ![p] = [proc[p] EXCEPT !.pc = "select", !.master_reload = 0]]
      BY <3>1, <1>1
    <3> QED BY <3>2, <3>3, <1>20, <1>1, TypeKept DEF Interrupted
  <2> QED BY <2>1, <2>2
<1>21. CASE UNCHANGED vars
  BY <1>21 DEF vars, TypeOK
<1> QED BY <1>6, <1>7, <1>8, <1>9, <1>10, <1>11, <1>12, <1>13, <1>14, <1>15, <1>16, <1>17, <1>18, <1>19, <1>20,
           <1>21 DEF Next, Step
---------------------------------------------------------------------------
(* What the safety of a step depends on, process by process.               *)

\* r is what it was, as far as Safe tells, or less.
NoMore(r) ==
    /\ Serving(r)' => Serving(r) /\ proc'[r].uid = proc[r].uid
    /\ Critical(r)' => /\ Critical(r)
                       /\ proc'[r].pc = proc[r].pc /\ proc'[r].pid = proc[r].pid
                       /\ proc'[r].filep = proc[r].filep
    /\ proc'[r].pc \in {"init", "fork", "write"} =>
            proc'[r].pc = proc[r].pc /\ proc'[r].uid = proc[r].uid /\ proc'[r].filep = proc[r].filep
    /\ proc'[r].handling # {} => proc'[r].pc \in {"cleanexit", "closing"}

LEMMA Unchanged ==
    ASSUME Placed, NEW r \in Pids, proc'[r] = proc[r]
    PROVE  NoMore(r)
BY DEF NoMore, Serving, Armed, Critical, Placed

LEMMA Gone ==
    ASSUME NEW r \in Pids, proc'[r] = NoProc
    PROVE  /\ NoMore(r) /\ ~Serving(r)' /\ ~Critical(r)' /\ proc'[r].pc = "none"
           /\ proc'[r].handling = {}
BY DEF NoMore, Serving, Armed, Critical, NoProc, Starting

(* A step that gives no process more keeps the invariant.                  *)
LEMMA Frame ==
    ASSUME Safe, named' = named, content' = content, raced' = raced \/ raced' = 1,
           \A r \in Pids : NoMore(r)
    PROVE  Safe'
<1>1. Alone'
  BY DEF Safe, Alone, NoMore
<1>2. Recorded'
  BY DEF Safe, Recorded, NoMore
<1>3. WaitsForIt'
  BY DEF Safe, WaitsForIt, NoMore
<1>4. HoldsTheFile'
  BY DEF Safe, HoldsTheFile, NoMore
<1>5. Placed'
  BY DEF Safe, Placed, NoMore
<1> QED BY <1>1, <1>2, <1>3, <1>4, <1>5 DEF Safe

(* The same for a step of one process.                                     *)
LEMMA FrameOne ==
    ASSUME IInv, NEW p \in Pids, NEW v \in Proc, proc' = [proc EXCEPT ![p] = v],
           named' = named, content' = content, raced' = raced \/ raced' = 1, NoMore(p)
    PROVE  Safe'
<1>1. \A r \in Pids : NoMore(r)
  BY Unchanged DEF IInv, Safe, TypeOK
<1> QED BY <1>1, Frame DEF IInv

LEMMA ExitKeeps ==
    ASSUME IInv, NEW p \in Pids, Exit(p), named' = named, content' = content,
           raced' = raced \/ raced' = 1
    PROVE  Safe'
<1>1. proc \in [Pids -> Proc] /\ NoProc \in Proc
  BY DEF IInv, TypeOK, NoProc, Proc, Places, Starting
<1>2. proc' = [proc EXCEPT ![p] = NoProc] /\ proc'[p] = NoProc
  BY <1>1 DEF Exit, Ended
<1> QED BY <1>1, <1>2, Gone, FrameOne

(* A change of place alone.                                                *)
LEMMA GotoEffect ==
    ASSUME TypeOK, NEW p \in Pids, NEW place \in Places, Goto(p, place)
    PROVE  /\ \A r \in Pids : r # p => proc'[r] = proc[r]
           /\ proc'[p] = [proc[p] EXCEPT !.pc = place] /\ proc'[p] \in Proc
           /\ proc' = [proc EXCEPT ![p] = [proc[p] EXCEPT !.pc = place]]
           /\ proc'[p].pc = place /\ proc'[p].uid = proc[p].uid /\ proc'[p].pid = proc[p].pid
           /\ proc'[p].filep = proc[p].filep /\ proc'[p].handling = proc[p].handling
<1>1. proc \in [Pids -> Proc]
  BY DEF TypeOK
<1>2. [proc[p] EXCEPT !.pc = place] \in Proc
  BY <1>1 DEF Proc
<1>3. proc' = [proc EXCEPT ![p] = [proc[p] EXCEPT !.pc = place]]
  BY <1>1 DEF Goto
<1>4. proc'[p] = [proc[p] EXCEPT !.pc = place]
  BY <1>1, <1>3
<1>5. proc[p] \in Proc
  BY <1>1
<1>6. /\ proc'[p].pc = place /\ proc'[p].uid = proc[p].uid /\ proc'[p].pid = proc[p].pid
      /\ proc'[p].filep = proc[p].filep /\ proc'[p].handling = proc[p].handling
  BY <1>4, <1>5 DEF Proc
<1> QED BY <1>1, <1>2, <1>3, <1>4, <1>6

(* Out of the way of the pid file: neither a daemon nor a start that has   *)
(* looked at it.                                                           *)
LEMMA GotoAway ==
    ASSUME IInv, NEW p \in Pids, NEW place \in {"other", "stat", "cleanexit"}, Goto(p, place),
           proc[p].handling = {}, named' = named, content' = content, raced' = raced
    PROVE  Safe'
<1>1. place \in Places
  BY DEF Places, Starting
<1>2. NoMore(p)
  BY <1>1, GotoEffect DEF IInv, NoMore, Serving, Armed, Critical, Starting
<1> DEFINE v == [proc[p] EXCEPT !.pc = place]
<1>3. v \in Proc /\ proc' = [proc EXCEPT ![p] = v]
  BY <1>1, GotoEffect DEF IInv
<1> HIDE DEF v
<1> QED BY <1>2, <1>3, FrameOne

(* A start moves on, and nobody else gains anything.  What it needs where  *)
(* it gets to is that no daemon is left but one it waits for, that no      *)
(* other start is under way, and that the file it opened is still there;   *)
(* and it touches the file only when it is alone.                          *)
LEMMA Moves ==
    ASSUME IInv, NEW p \in Pids, \A r \in Pids : r # p => NoMore(r),
           ~Serving(p)', proc'[p].handling = {},
           proc'[p].pc \in {"init", "fork", "write"} => proc'[p].uid = "root" /\ proc'[p].filep \in Inodes,
           raced' = raced \/ raced' = 1,
           raced' = 0 /\ Critical(p)' =>
                /\ \A q \in Pids : q # p => ~Critical(q)'
                /\ \A d \in Pids : d # p /\ Serving(d)' =>
                        proc'[p].pc = "open" \/ (proc'[p].pc = "wait" /\ proc'[p].pid = d)
                /\ proc'[p].pc \in {"init", "fork", "write"} => named' # Nothing /\ proc'[p].filep = named',
           \/ named' = named /\ content' = content
           \/ raced' = 0 => \A d \in Pids : d # p => ~Serving(d)' /\ ~Critical(d)'
    PROVE  Safe'
<1>1. Alone'
  <2> SUFFICES ASSUME raced' = 0, NEW q \in Pids, NEW r \in Pids, Critical(q)', Critical(r)' PROVE q = r
    BY DEF Alone
  <2>1. CASE q # p /\ r # p
    BY <2>1 DEF IInv, Safe, Alone, NoMore
  <2> QED BY <2>1
<1>2. Recorded'
  <2> SUFFICES ASSUME raced' = 0, NEW d \in Pids, Serving(d)' PROVE named' # Nothing /\ content' = d
    BY DEF Recorded
  <2>1. d # p /\ Serving(d)
    BY DEF NoMore
  <2> QED BY <2>1 DEF IInv, Safe, Recorded
<1>3. WaitsForIt'
  <2> SUFFICES ASSUME raced' = 0, NEW q \in Pids, NEW d \in Pids, Critical(q)', Serving(d)'
               PROVE  proc'[q].pc = "open" \/ (proc'[q].pc = "wait" /\ proc'[q].pid = d)
    BY DEF WaitsForIt
  <2>1. d # p /\ Serving(d)
    BY DEF NoMore
  <2>2. CASE q # p
    BY <2>1, <2>2 DEF IInv, Safe, WaitsForIt, NoMore
  <2> QED BY <2>1, <2>2
<1>4. HoldsTheFile'
  <2> SUFFICES ASSUME raced' = 0, NEW q \in Pids, Critical(q)', proc'[q].pc \in {"init", "fork", "write"}
               PROVE  named' # Nothing /\ proc'[q].filep = named'
    BY DEF HoldsTheFile
  <2>1. CASE q # p
    BY <2>1 DEF IInv, Safe, HoldsTheFile, NoMore
  <2> QED BY <2>1
<1>5. Placed'
  <2> SUFFICES ASSUME NEW r \in Pids
               PROVE  /\ proc'[r].pc \in {"init", "fork", "write"} =>
                            proc'[r].uid = "root" /\ proc'[r].filep \in Inodes
                      /\ Serving(r)' => proc'[r].uid = "root"
                      /\ proc'[r].handling # {} => proc'[r].pc \in {"cleanexit", "closing"}
    BY DEF Placed
  <2>1. CASE r # p
    BY <2>1 DEF IInv, Safe, Placed, NoMore
  <2> QED BY <2>1
<1> QED BY <1>1, <1>2, <1>3, <1>4, <1>5 DEF Safe

(* The others, in a step of p alone.                                       *)
LEMMA Others ==
    ASSUME IInv, NEW p \in Pids, \A r \in Pids : r # p => proc'[r] = proc[r]
    PROVE  /\ \A r \in Pids : r # p => NoMore(r)
           /\ \A r \in Pids : r # p => (Critical(r)' => Critical(r)) /\ (Serving(r)' => Serving(r))
<1>1. \A r \in Pids : r # p => NoMore(r)
  BY Unchanged DEF IInv, Safe
<1> QED BY <1>1 DEF NoMore

LEMMA NotArmed ==
    ASSUME IInv, NEW p \in Pids, proc[p].pc \in Starting \cup {"parse", "none", "other", "run"}
    PROVE  proc[p].handling = {}
BY DEF IInv, Safe, Placed, Starting

---------------------------------------------------------------------------
LEMMA StatKeeps == ASSUME IInv, NEW p \in Pids, StatPidFile(p) PROVE Safe'
<1>1. /\ proc[p].pc = "stat" /\ named' = named /\ content' = content /\ (raced' = raced \/ raced' = 1)
      /\ proc[p].handling = {}
  BY NotArmed DEF StatPidFile, Starting
<1>2. CASE Exit(p)
  BY <1>1, <1>2, ExitKeeps
<1>3. CASE ~Exit(p)
  <2>1. /\ proc'[p].pc \in {"open", "create"} /\ proc'[p].handling = {} /\ proc'[p].uid = proc[p].uid
        /\ proc'[p].pc = "create" => named = Nothing
        /\ \A r \in Pids : r # p => proc'[r] = proc[r]
    <3>1. proc \in [Pids -> Proc] /\ proc[p] \in Proc
      BY DEF IInv, TypeOK
    <3>2. CASE proc' = [proc EXCEPT ![p].pc = "create", ![p].pid = Nothing] /\ named = Nothing
      BY <1>1, <3>1, <3>2 DEF Proc
    <3>3. CASE Goto(p, "open")
      BY <1>1, <3>1, <3>3 DEF Proc, Goto
    <3> QED BY <1>3, <3>2, <3>3 DEF StatPidFile, KillReturns
  <2>2. ~Serving(p)'
    BY <2>1 DEF Serving, Armed
  <2>3. raced' = 0 /\ Critical(p)' => \A q \in Pids : q # p => ~Critical(q)'
    BY <2>1, Others DEF StatPidFile, Critical
  <2>4. raced' = 0 /\ proc'[p].pc = "create" => \A d \in Pids : d # p => ~Serving(d)'
    BY <2>1, <1>1, Others DEF IInv, Safe, Recorded
  <2> QED BY <1>1, <2>1, <2>2, <2>3, <2>4, Others, Moves
<1> QED BY <1>2, <1>3

LEMMA KillKeeps == ASSUME IInv, NEW p \in Pids, KillRunning(p) PROVE Safe'
<1>1. /\ proc[p].pc = "open" /\ named' = named /\ content' = content /\ raced' = raced
      /\ proc[p].handling = {}
  BY NotArmed DEF KillRunning, Starting
<1>2. proc \in [Pids -> Proc] /\ proc[p] \in Proc
  BY DEF IInv, TypeOK
<1>3. CASE Exit(p)
  BY <1>1, <1>3, ExitKeeps
<1>4. CASE named # Nothing /\ content = Nothing /\ Goto(p, "unlink")
  <2>1. /\ proc'[p].pc = "unlink" /\ proc'[p].handling = {} /\ proc'[p].uid = proc[p].uid
        /\ \A r \in Pids : r # p => proc'[r] = proc[r]
    BY <1>1, <1>2, <1>4 DEF Goto, Proc
  <2>2. ~Serving(p)'
    BY <2>1 DEF Serving, Armed
  <2>3. Critical(p)' => Critical(p)
    BY <1>1, <2>1 DEF Critical, Starting
  <2>4. raced' = 0 => \A d \in Pids : d # p => ~Serving(d)'
    BY <1>1, <1>4, <2>1, Others, LifecycleAssumption DEF IInv, Safe, Recorded
  <2>5. raced' = 0 /\ Critical(p)' => \A q \in Pids : q # p => ~Critical(q)'
    BY <1>1, <2>1, <2>3, Others DEF IInv, Safe, Alone
  <2> QED BY <1>1, <2>1, <2>2, <2>4, <2>5, Others, Moves
<1>5. CASE ~Exit(p) /\ ~(named # Nothing /\ content = Nothing /\ Goto(p, "unlink"))
  <2>0. content \in Pids /\ content # p
    BY <1>5 DEF KillRunning, IInv, TypeOK
  <2> PICK q \in Pids : q = content
    BY <2>0
  <2> DEFINE may == q \in Pids /\ (proc[p].uid = "root" \/ proc[q].uid = "user")
             killed == IF may THEN kill(q, "TERM") ELSE proc
  <2>1. q \in Pids /\ q # p /\ proc' = [killed EXCEPT ![p].pc = "wait", ![p].pid = q]
    BY <1>5, <2>0 DEF KillRunning
  <2>2. /\ killed \in [Pids -> Proc]
        /\ \A r \in Pids : r # q => killed[r] = proc[r]
        /\ killed[q] \in {NoProc, proc[q], [proc[q] EXCEPT !.pending = @ \cup {"TERM"}]}
    <3> DEFINE k == kill(q, "TERM")
    <3>1. "TERM" \in Signals /\ TypeOK
      BY DEF Signals, Deadly, IInv
    <3>2. /\ k \in [Pids -> Proc] /\ \A r \in Pids : r # q => k[r] = proc[r]
          /\ k[q] \in {NoProc, proc[q], [proc[q] EXCEPT !.pending = @ \cup {"TERM"}]}
      BY <2>1, <3>1, KillEffect
    <3> HIDE DEF k
    <3>3. killed \in {k, proc}
      BY DEF k
    <3> HIDE DEF killed
    <3> QED BY <3>2, <3>3, <1>2
  <2> HIDE DEF killed
  <2>3. killed[p] = proc[p]
    BY <2>1, <2>2
  <2>4. /\ \A r \in Pids : r # p => proc'[r] = killed[r]
        /\ proc'[p].pc = "wait" /\ proc'[p].pid = q /\ proc'[p].uid = proc[p].uid
        /\ proc'[p].handling = {}
    BY <2>1, <2>2, <2>3, <1>1, <1>2 DEF Proc
  <2>5. NoMore(q)
    <3>1. proc'[q] = killed[q]
      BY <2>1, <2>4
    <3>2. CASE killed[q] = NoProc
      BY <3>1, <3>2, <2>1, Gone
    <3>3. CASE killed[q] = proc[q]
      BY <3>1, <3>3, <2>1, Unchanged DEF IInv, Safe
    <3>4. CASE killed[q] = [proc[q] EXCEPT !.pending = @ \cup {"TERM"}]
      <4>1. proc[q] \in Proc
        BY <2>1, <1>2
      <4>2. /\ proc'[q].pc = proc[q].pc /\ proc'[q].uid = proc[q].uid /\ proc'[q].pid = proc[q].pid
            /\ proc'[q].filep = proc[q].filep /\ proc'[q].handling = proc[q].handling
        BY <3>1, <3>4, <4>1 DEF Proc
      <4>3. proc[q].handling # {} => proc[q].pc \in {"cleanexit", "closing"}
        BY <2>1 DEF IInv, Safe, Placed
      <4>4. (Serving(q)' <=> Serving(q)) /\ (Critical(q)' <=> Critical(q))
        BY <4>2 DEF Serving, Armed, Critical
      <4>5. Serving(q)' => Serving(q)
        BY <4>4
      <4>6. Critical(q)' => Critical(q)
        BY <4>4
      <4> QED BY <4>2, <4>3, <4>5, <4>6 DEF NoMore
    <3> QED BY <2>2, <3>2, <3>3, <3>4
  <2>6. \A r \in Pids : r # p => NoMore(r)
    <3> SUFFICES ASSUME NEW r \in Pids, r # p, r # q PROVE NoMore(r)
      BY <2>5
    <3>1. proc'[r] = proc[r]
      BY <2>2, <2>4
    <3> QED BY <3>1, Unchanged DEF IInv, Safe
  <2>7. ~Serving(p)'
    BY <2>4 DEF Serving, Armed
  <2>8. Critical(p)' => Critical(p)
    BY <1>1, <2>4 DEF Critical, Starting
  <2>9. raced' = 0 => \A d \in Pids : d # p /\ Serving(d)' => d = q
    BY <1>1, <2>6 DEF IInv, Safe, Recorded, NoMore
  <2>10. raced' = 0 /\ Critical(p)' => \A r \in Pids : r # p => ~Critical(r)'
    BY <1>1, <2>6, <2>8 DEF IInv, Safe, Alone, NoMore
  <2> QED BY <1>1, <2>4, <2>6, <2>7, <2>9, <2>10, Moves
<1> QED BY <1>3, <1>4, <1>5

LEMMA WaitKeeps == ASSUME IInv, NEW p \in Pids, wait_for_exit(p) PROVE Safe'
<1>1. /\ proc[p].pc = "wait" /\ named' = named /\ content' = content /\ (raced' = raced \/ raced' = 1)
      /\ proc[p].handling = {} /\ Goto(p, "unlink")
  BY NotArmed DEF wait_for_exit, GiveUp, Starting
<1>2. /\ proc'[p].pc = "unlink" /\ proc'[p].handling = {} /\ proc'[p].uid = proc[p].uid
      /\ \A r \in Pids : r # p => proc'[r] = proc[r]
  BY <1>1, GotoEffect DEF IInv, Places, Starting
<1>3. ~Serving(p)'
  BY <1>2 DEF Serving, Armed
<1>4. Critical(p)' => Critical(p) /\ proc[p].uid = "root"
  BY <1>1, <1>2 DEF Critical, Starting
<1>5. raced' = 0 /\ Critical(p)' => \A d \in Pids : d # p => ~Serving(d)'
  <2> SUFFICES ASSUME raced' = 0, Critical(p)', NEW d \in Pids, d # p, Serving(d)' PROVE FALSE
    OBVIOUS
  <2>1. Serving(d) /\ raced = 0
    BY <1>1, <1>2, Others
  <2>2. proc[p].pid = d
    BY <1>1, <1>4, <2>1 DEF IInv, Safe, WaitsForIt
  <2>3. isrunning(d)
    BY <2>1 DEF isrunning, Serving, Armed, IInv, Safe, Placed
  <2> QED BY <2>1, <2>2, <2>3, <1>4 DEF wait_for_exit, GiveUp
<1>6. raced' = 0 /\ Critical(p)' => \A q \in Pids : q # p => ~Critical(q)'
  BY <1>1, <1>2, <1>4, Others DEF IInv, Safe, Alone
<1> QED BY <1>1, <1>2, <1>3, <1>5, <1>6, Others, Moves

(* From "unlink" on a start of root is alone.                              *)
LEMMA AloneAfterWait ==
    ASSUME IInv, NEW p \in Pids, Critical(p), proc[p].pc \notin {"open", "wait"}, raced = 0
    PROVE  \A r \in Pids : ~Serving(r) /\ (r # p => ~Critical(r))
BY DEF IInv, Safe, Alone, WaitsForIt

LEMMA UnlinkKeeps == ASSUME IInv, NEW p \in Pids, Unlink(p) PROVE Safe'
<1>1. /\ proc[p].pc = "unlink" /\ raced' = raced /\ proc[p].handling = {}
  BY NotArmed DEF Unlink, Starting
<1>2. proc \in [Pids -> Proc] /\ proc[p] \in Proc
  BY DEF IInv, TypeOK
<1>3. /\ proc'[p].pc \in {"create", "none"} /\ proc'[p].handling = {}
      /\ proc'[p].uid = proc[p].uid \/ proc'[p].pc = "none"
      /\ \A r \in Pids : r # p => proc'[r] = proc[r]
  <2>1. CASE Exit(p)
    BY <2>1, <1>2 DEF Exit, Ended, NoProc
  <2>2. CASE proc' = [proc EXCEPT ![p].pc = "create", ![p].pid = Nothing]
    BY <2>2, <1>1, <1>2 DEF Proc
  <2> QED BY <2>1, <2>2 DEF Unlink, KillReturns
<1>4. ~Serving(p)'
  BY <1>3 DEF Serving, Armed
<1>5. Critical(p)' => Critical(p)
  BY <1>1, <1>3 DEF Critical, Starting
<1>6. Critical(p) <=> proc[p].uid = "root"
  BY <1>1 DEF Critical, Starting
<1>7. raced' = 0 /\ proc[p].uid = "root" => \A r \in Pids : r # p => ~Serving(r)' /\ ~Critical(r)'
  BY <1>1, <1>3, <1>6, AloneAfterWait, Others
<1>8. (named' = named /\ content' = content) \/ proc[p].uid = "root"
  BY DEF Unlink
<1> QED BY <1>1, <1>3, <1>4, <1>5, <1>6, <1>7, <1>8, Others, Moves

LEMMA CreateKeeps == ASSUME IInv, NEW p \in Pids, CreatePidFile(p) PROVE Safe'
<1>1. /\ proc[p].pc = "create" /\ raced' = raced /\ proc[p].handling = {}
  BY NotArmed DEF CreatePidFile, Starting
<1>2. CASE Goto(p, "cleanexit") /\ UNCHANGED <<named, content>>
  BY <1>1, <1>2, GotoAway
<1>3. CASE ~(Goto(p, "cleanexit") /\ UNCHANGED <<named, content>>)
  <2>1. PICK f \in Inodes : /\ named' = f /\ proc[p].uid = "root"
                            /\ proc' = [proc EXCEPT ![p].pc = "init", ![p].filep = f]
    BY <1>3 DEF CreatePidFile
  <2>2. /\ proc'[p].pc = "init" /\ proc'[p].handling = {} /\ proc'[p].uid = "root" /\ proc'[p].filep = f
        /\ \A r \in Pids : r # p => proc'[r] = proc[r]
    BY <2>1, <1>1 DEF IInv, TypeOK, Proc
  <2>3. ~Serving(p)'
    BY <2>2 DEF Serving, Armed
  <2>4. Critical(p)
    BY <1>1, <2>1 DEF Critical, Starting
  <2>5. raced' = 0 => \A r \in Pids : r # p => ~Serving(r)' /\ ~Critical(r)'
    BY <1>1, <2>2, <2>4, AloneAfterWait, Others
  <2>6. named' # Nothing
    BY <2>1, LifecycleAssumption
  <2> QED BY <1>1, <2>1, <2>2, <2>3, <2>5, <2>6, Others, Moves
<1> QED BY <1>2, <1>3

LEMMA InitKeeps == ASSUME IInv, NEW p \in Pids, InitAll(p) PROVE Safe'
<1>1. /\ proc[p].pc = "init" /\ UNCHANGED <<named, content, raced>> /\ proc[p].handling = {}
  BY NotArmed DEF InitAll, Starting
<1>2. /\ proc'[p].pc \in {"fork", "cleanexit"} /\ proc'[p].handling = {} /\ proc'[p].uid = proc[p].uid
      /\ proc'[p].filep = proc[p].filep
      /\ \A r \in Pids : r # p => proc'[r] = proc[r]
  BY <1>1 DEF InitAll, IInv, TypeOK, Proc
<1>3. ~Serving(p)'
  BY <1>2 DEF Serving, Armed
<1>4. Critical(p) /\ proc[p].uid = "root" /\ proc[p].filep \in Inodes
  BY <1>1 DEF Critical, Starting, IInv, Safe, Placed
<1>5. raced' = 0 => \A r \in Pids : r # p => ~Serving(r)' /\ ~Critical(r)'
  BY <1>1, <1>2, <1>4, AloneAfterWait, Others
<1>6. raced' = 0 => named # Nothing /\ proc[p].filep = named
  BY <1>1, <1>4 DEF IInv, Safe, HoldsTheFile
<1> QED BY <1>1, <1>2, <1>3, <1>4, <1>5, <1>6, Others, Moves

LEMMA ForkKeeps == ASSUME IInv, NEW p \in Pids, Fork(p) PROVE Safe'
<1>1. /\ proc[p].pc = "fork" /\ UNCHANGED <<named, content, raced>> /\ proc[p].handling = {}
  BY NotArmed DEF Fork, Starting
<1>2. proc \in [Pids -> Proc] /\ proc[p] \in Proc
  BY DEF IInv, TypeOK
<1>3. Critical(p) /\ proc[p].uid = "root" /\ proc[p].filep \in Inodes
  BY <1>1 DEF Critical, Starting, IInv, Safe, Placed
<1>4. raced = 0 => \A r \in Pids : ~Serving(r) /\ (r # p => ~Critical(r))
  BY <1>1, <1>3, AloneAfterWait
<1>5. raced = 0 => named # Nothing /\ proc[p].filep = named
  BY <1>1, <1>3 DEF IInv, Safe, HoldsTheFile
<1>6. CASE Goto(p, "cleanexit")
  BY <1>1, <1>6, GotoAway
<1>7. CASE Goto(p, "write")
  <2>1. /\ proc'[p].pc = "write" /\ proc'[p].handling = {} /\ proc'[p].uid = proc[p].uid
        /\ proc'[p].filep = proc[p].filep
        /\ \A r \in Pids : r # p => proc'[r] = proc[r]
    BY <1>1, <1>7, GotoEffect DEF IInv, Places, Starting
  <2>2. ~Serving(p)'
    BY <2>1 DEF Serving, Armed
  <2>3. raced' = 0 => \A r \in Pids : r # p => ~Serving(r)' /\ ~Critical(r)'
    BY <1>1, <1>4, <2>1, Others
  <2> QED BY <1>1, <1>3, <1>5, <2>1, <2>2, <2>3, Others, Moves
<1>8. CASE ~Goto(p, "cleanexit") /\ ~Goto(p, "write")
  <2>1. PICK q \in Pids : /\ proc[q].pc = "none"
                          /\ proc' = [proc EXCEPT ![q] = [proc[p] EXCEPT !.pc = "write"], ![p] = NoProc]
    BY <1>8 DEF Fork
  <2>2. q # p
    BY <1>1, <2>1
  <2>3. /\ proc'[q] = [proc[p] EXCEPT !.pc = "write"] /\ proc'[p] = NoProc
        /\ \A r \in Pids : r \notin {p, q} => proc'[r] = proc[r]
    BY <2>1, <2>2, <1>2
  <2>4. /\ proc'[q].pc = "write" /\ proc'[q].handling = {} /\ proc'[q].uid = proc[p].uid
        /\ proc'[q].filep = proc[p].filep
    BY <2>3, <1>1, <1>2 DEF Proc
  <2>5. \A r \in Pids : r # q => NoMore(r)
    BY <2>3, Gone, Unchanged DEF IInv, Safe
  <2>6. ~Serving(q)'
    BY <2>4 DEF Serving, Armed
  <2>7. ~Serving(p)' /\ ~Critical(p)'
    BY <2>3, Gone
  <2>8. raced' = 0 => \A r \in Pids : r # q => ~Serving(r)' /\ ~Critical(r)'
    BY <1>1, <1>4, <2>5, <2>7 DEF NoMore
  <2> QED BY <1>1, <1>3, <1>5, <2>4, <2>5, <2>6, <2>8, Moves
<1> QED BY <1>6, <1>7, <1>8

LEMMA WriteKeeps == ASSUME IInv, NEW p \in Pids, WritePid(p) PROVE Safe'
<1>1. /\ proc[p].pc = "write" /\ named' = named /\ raced' = raced /\ proc[p].handling = {}
      /\ content' = IF proc[p].filep = named THEN p ELSE content
  BY NotArmed DEF WritePid, Writer, Starting
<1>2. /\ proc'[p].pc = "run" /\ proc'[p].handling = {} /\ proc'[p].uid = proc[p].uid
      /\ \A r \in Pids : r # p => proc'[r] = proc[r]
  BY <1>1 DEF WritePid, IInv, TypeOK, Proc
<1>3. Critical(p) /\ proc[p].uid = "root"
  BY <1>1 DEF Critical, Starting, IInv, Safe, Placed
<1>4. \A r \in Pids : r # p => NoMore(r)
  BY <1>2, Others
<1>5. ~Critical(p)'
  BY <1>2 DEF Critical, Starting
<1>6. raced' = 0 => \A r \in Pids : r # p => ~Serving(r)' /\ ~Critical(r)'
  BY <1>1, <1>2, <1>3, AloneAfterWait, Others
<1>7. raced' = 0 => named' # Nothing /\ content' = p
  BY <1>1, <1>3 DEF IInv, Safe, HoldsTheFile
<1>8. Alone' /\ WaitsForIt' /\ HoldsTheFile'
  BY <1>5, <1>6 DEF Alone, WaitsForIt, HoldsTheFile
<1>9. Recorded'
  BY <1>6, <1>7 DEF Recorded
<1>10. Placed'
  <2> SUFFICES ASSUME NEW r \in Pids
               PROVE  /\ proc'[r].pc \in {"init", "fork", "write"} =>
                            proc'[r].uid = "root" /\ proc'[r].filep \in Inodes
                      /\ Serving(r)' => proc'[r].uid = "root"
                      /\ proc'[r].handling # {} => proc'[r].pc \in {"cleanexit", "closing"}
    BY DEF Placed
  <2>1. CASE r # p
    BY <2>1, <1>4 DEF IInv, Safe, Placed, NoMore
  <2>2. CASE r = p
    BY <2>2, <1>2, <1>3
  <2> QED BY <2>1, <2>2
<1> QED BY <1>8, <1>9, <1>10 DEF Safe

(* Signals and the end: a daemon stays one until it is gone.               *)
LEMMA DaemonKeeps ==
    ASSUME IInv, NEW p \in Pids, Run(p) \/ sig_handler(p) \/ HandlerAgain(p) \/ Interrupted(p) \/ cleanexit(p)
    PROVE  Safe'
<1>1. proc \in [Pids -> Proc] /\ proc[p] \in Proc
  BY DEF IInv, TypeOK
<1>2. named' = named /\ content' = content /\ raced' = raced
  BY DEF Run, sig_handler, HandlerAgain, Interrupted, cleanexit
<1>3. /\ \A r \in Pids : r # p => proc'[r] = proc[r]
      /\ proc'[p].uid = proc[p].uid
      /\ proc'[p].pc \in {"select", "maintain", "cleanexit", "closing"}
  <2>1. CASE Run(p) \/ cleanexit(p)
    BY <2>1, <1>1 DEF Run, cleanexit, Goto, Proc
  <2>2. CASE Interrupted(p)
    BY <2>2, <1>1 DEF Interrupted, Goto, Proc
  <2>3. CASE sig_handler(p)
    <3> DEFINE h == proc[p].pending \cap Deadly
    <3>1. \/ proc' = [proc EXCEPT ![p].pc = "cleanexit", ![p].pending = {}, ![p].handling = h]
          \/ proc' = [proc EXCEPT ![p].pc = "maintain", ![p].pending = {}, ![p].master_reload = 1]
      BY <2>3 DEF sig_handler
    <3> HIDE DEF h
    <3> QED BY <3>1, <1>1 DEF Proc
  <2>4. CASE HandlerAgain(p)
    <3>1. PICK s : proc' = [proc EXCEPT ![p].pending = @ \ {s}, ![p].handling = @ \cup {s}, ![p].pc = "cleanexit"]
      BY <2>4 DEF HandlerAgain
    <3> QED BY <3>1, <1>1 DEF Proc
  <2> QED BY <2>1, <2>2, <2>3, <2>4
<1>4. proc'[p].handling # {} => proc'[p].pc \in {"cleanexit", "closing"}
  <2>1. CASE Run(p) \/ Interrupted(p)
    <3>1. proc'[p].handling = proc[p].handling /\ proc[p].pc \in {"run", "maintain"}
      BY <2>1, <1>1 DEF Run, Interrupted, Goto, Proc
    <3> QED BY <3>1 DEF IInv, Safe, Placed
  <2>2. CASE HandlerAgain(p) \/ cleanexit(p)
    BY <2>2, <1>1, ZenonT(60) DEF HandlerAgain, cleanexit, Proc
  <2>3. CASE sig_handler(p)
    <3>1. proc[p].pc = "select" /\ proc[p].handling = {}
      BY <2>3 DEF sig_handler, IInv, Safe, Placed
    <3> QED BY <2>3, <3>1, <1>1 DEF sig_handler, Proc
  <2> QED BY <2>1, <2>2, <2>3
<1>5. Serving(p)' => Serving(p)
  <2>1. CASE Run(p) \/ Interrupted(p) \/ sig_handler(p)
    BY <2>1 DEF Run, Interrupted, sig_handler, Serving, Armed
  <2>2. CASE HandlerAgain(p)
    BY <2>2 DEF HandlerAgain, Serving, Armed
  <2>3. CASE cleanexit(p)
    <3>1. proc'[p].handling = proc[p].handling /\ proc'[p].pc = "closing"
      BY <2>3, <1>1 DEF cleanexit, Proc
    <3> QED BY <3>1 DEF Serving, Armed
  <2> QED BY <2>1, <2>2, <2>3
<1>6. NoMore(p)
  BY <1>3, <1>4, <1>5 DEF NoMore, Critical, Starting
<1>7. \A r \in Pids : NoMore(r)
  BY <1>3, <1>6, Others
<1> QED BY <1>2, <1>7, Frame DEF IInv

(* The surroundings.                                                       *)
LEMMA AroundKeeps ==
    ASSUME IInv, NEW p \in Pids, Start(p) \/ OtherProgram(p) \/ Crash(p) \/ Signal(p) \/ ParseArgs(p) \/ Close(p)
    PROVE  Safe'
<1>1. proc \in [Pids -> Proc] /\ proc[p] \in Proc
  BY DEF IInv, TypeOK
<1>2. named' = named /\ content' = content /\ raced' = raced
  BY DEF Start, OtherProgram, Crash, Signal, ParseArgs, Close
<1>3. CASE Exit(p)
  BY <1>2, <1>3, ExitKeeps
<1>4. CASE Goto(p, "other") /\ proc[p].pc = "none"
  BY <1>2, <1>4, NotArmed, GotoAway
<1>5. CASE Goto(p, "stat") /\ proc[p].pc = "parse"
  BY <1>2, <1>5, NotArmed, GotoAway
<1>6. CASE Start(p)
  <2>1. /\ proc'[p].pc = "parse" /\ proc'[p].handling = {}
        /\ \A r \in Pids : r # p => proc'[r] = proc[r]
    BY <1>6, <1>1 DEF Start, NoProc
  <2>2. NoMore(p)
    BY <2>1 DEF NoMore, Serving, Armed, Critical, Starting
  <2>3. \A r \in Pids : NoMore(r)
    BY <2>1, <2>2, Others
  <2> QED BY <1>2, <2>3, Frame DEF IInv
<1>7. CASE Signal(p)
  <2>1. PICK s \in Signals : proc' = kill(p, s)
    BY <1>7 DEF Signal
  <2>2. /\ \A r \in Pids : r # p => proc'[r] = proc[r]
        /\ proc'[p] \in {NoProc, proc[p], [proc[p] EXCEPT !.pending = @ \cup {s}]}
    BY <2>1, KillEffect, ZenonT(60) DEF IInv
  <2>3. NoMore(p)
    <3>1. CASE proc'[p] = NoProc
      BY <3>1, Gone
    <3>2. CASE proc'[p] = proc[p]
      BY <3>2, Unchanged DEF IInv, Safe
    <3>3. CASE proc'[p] = [proc[p] EXCEPT !.pending = @ \cup {s}]
      <4>1. /\ proc'[p].pc = proc[p].pc /\ proc'[p].uid = proc[p].uid /\ proc'[p].pid = proc[p].pid
            /\ proc'[p].filep = proc[p].filep /\ proc'[p].handling = proc[p].handling
        BY <3>3, <1>1 DEF Proc
      <4>2. proc[p].handling # {} => proc[p].pc \in {"cleanexit", "closing"}
        BY DEF IInv, Safe, Placed
      <4>3. (Serving(p)' => Serving(p)) /\ (Critical(p)' => Critical(p))
        BY <4>1 DEF Serving, Armed, Critical
      <4> QED BY <4>1, <4>2, <4>3 DEF NoMore
    <3> QED BY <2>2, <3>1, <3>2, <3>3
  <2>4. \A r \in Pids : NoMore(r)
    BY <2>2, <2>3, Others
  <2> QED BY <1>2, <2>4, Frame DEF IInv
<1> QED BY <1>3, <1>4, <1>5, <1>6, <1>7 DEF OtherProgram, Crash, ParseArgs, Close

---------------------------------------------------------------------------
THEOREM InitInv == Init => IInv
<1> SUFFICES ASSUME Init PROVE IInv
  OBVIOUS
<1>1. proc = [p \in Pids |-> NoProc] /\ named = Nothing /\ content = Nothing /\ raced = 0
  BY DEF Init
<1>2. TypeOK
  BY <1>1 DEF TypeOK, NoProc, Proc, Places, Starting
<1>3. \A p \in Pids : proc[p].pc = "none" /\ proc[p].handling = {}
  BY <1>1 DEF NoProc
<1>4. \A p \in Pids : ~Serving(p) /\ ~Critical(p)
  BY <1>3 DEF Serving, Armed, Critical, Starting
<1>5. Safe
  BY <1>3, <1>4 DEF Safe, Alone, Recorded, WaitsForIt, HoldsTheFile, Placed
<1> QED BY <1>2, <1>5 DEF IInv

LEMMA StepInv == IInv /\ [Next]_vars => IInv'
<1> SUFFICES ASSUME IInv, [Next]_vars PROVE IInv'
  OBVIOUS
<1>1. TypeOK'
  BY StepType DEF IInv
<1>2. Safe'
  <2>1. CASE UNCHANGED vars
    <3>1. named' = named /\ content' = content /\ raced' = raced /\ proc' = proc
      BY <2>1 DEF vars
    <3>2. \A r \in Pids : NoMore(r)
      BY <3>1, Unchanged DEF IInv, Safe
    <3> QED BY <3>1, <3>2, Frame DEF IInv
  <2>2. ASSUME NEW p \in Pids, Step(p) \/ Start(p) \/ OtherProgram(p) \/ Crash(p) \/ Signal(p) PROVE Safe'
    BY <2>2, StatKeeps, KillKeeps, WaitKeeps, UnlinkKeeps, CreateKeeps, InitKeeps, ForkKeeps, WriteKeeps,
       DaemonKeeps, AroundKeeps DEF Step
  <2> QED BY <2>1, <2>2 DEF Next
<1> QED BY <1>1, <1>2 DEF IInv

(* The inductive invariant: who is at the pid file, and what is in it.     *)
THEOREM Invariance == Spec => []IInv
<1> QED BY InitInv, StepInv, PTL DEF Spec

(* As long as no two starts of root overlap and none gives up waiting, the *)
(* file holds the pid of whatever daemon runs,                             *)
THEOREM DaemonRecorded == Spec => []Recorded
<1>1. IInv => Recorded
  BY DEF IInv, Safe
<1> QED BY <1>1, Invariance, PTL

(* and there is never more than one: starting dnrd replaces it.            *)
THEOREM AtMostOneDaemon == Spec => []OneDaemon
<1>1. IInv => OneDaemon
  BY DEF IInv, Safe, Recorded, OneDaemon
<1> QED BY <1>1, Invariance, PTL

---------------------------------------------------------------------------
(* The semaphore.  One process changes its own record.                     *)
LEMMA SemOf ==
    ASSUME TypeOK, SemaphoreInv, NEW p \in Pids, NEW v \in Proc, SemHeld(v),
           proc' = [proc EXCEPT ![p] = v]
    PROVE  SemaphoreInv'
<1>1. proc'[p] = v /\ \A r \in Pids : r # p => proc'[r] = proc[r]
  BY DEF TypeOK
<1> QED BY <1>1 DEF SemaphoreInv

(* A change that leaves alone what SemHeld is about.                       *)
LEMMA SemSame ==
    ASSUME NEW v, NEW w, SemHeld(v), w.pc = v.pc, w.dnrd_sem = v.dnrd_sem, w.handling = v.handling
    PROVE  SemHeld(w)
BY DEF SemHeld

LEMMA SemGoto ==
    ASSUME TypeOK, SemaphoreInv, NEW p \in Pids, NEW place \in Places, Goto(p, place),
           \/ place \in (Starting \ {"fork", "write"}) \cup {"none", "other"}
              /\ proc[p].pc \in {"none", "other", "parse"} \cup (Starting \ {"fork", "write"})
           \/ place = "cleanexit" /\ proc[p].pc \in Starting
           \/ place \in {"write", "run", "select", "maintain"}
              /\ proc[p].pc \in {"fork", "write", "run", "select", "maintain"}
    PROVE  SemaphoreInv'
<1> DEFINE v == [proc[p] EXCEPT !.pc = place]
<1>1. proc[p] \in Proc /\ v \in Proc /\ proc' = [proc EXCEPT ![p] = v]
  BY GotoEffect DEF TypeOK, Proc
<1>2. v.pc = place /\ v.dnrd_sem = proc[p].dnrd_sem /\ v.handling = proc[p].handling
  BY <1>1 DEF Proc
<1>3. SemHeld(proc[p])
  BY DEF SemaphoreInv
<1> HIDE DEF v
<1>4. SemHeld(v)
  BY <1>2, <1>3 DEF SemHeld, Starting
<1> QED BY <1>1, <1>4, SemOf

LEMMA SemExit ==
    ASSUME TypeOK, SemaphoreInv, NEW p \in Pids, Exit(p)
    PROVE  SemaphoreInv'
<1>1. NoProc \in Proc /\ SemHeld(NoProc)
  BY DEF NoProc, Proc, Places, Starting, SemHeld
<1>2. proc' = [proc EXCEPT ![p] = NoProc]
  BY DEF Exit, Ended
<1> QED BY <1>1, <1>2, SemOf

(* A signal that is sent changes nothing of it.                            *)
LEMMA SemKill ==
    ASSUME TypeOK, SemaphoreInv, NEW q \in Pids, NEW s \in Signals, NEW r \in Pids
    PROVE  SemHeld(kill(q, s)[r])
<1> DEFINE k == kill(q, s)
<1>1. /\ \A t \in Pids : t # q => k[t] = proc[t]
      /\ k[q] = NoProc \/ k[q] = proc[q] \/ k[q] = [proc[q] EXCEPT !.pending = @ \cup {s}]
  BY KillEffect
<1> HIDE DEF k
<1>2. SemHeld(NoProc) /\ SemHeld(proc[q]) /\ SemHeld(proc[r])
  BY DEF NoProc, Starting, SemHeld, SemaphoreInv
<1>3. proc[q] \in Proc
  BY DEF TypeOK
<1> DEFINE w == [proc[q] EXCEPT !.pending = @ \cup {s}]
<1>4. w.pc = proc[q].pc /\ w.dnrd_sem = proc[q].dnrd_sem /\ w.handling = proc[q].handling
  BY <1>3 DEF Proc
<1>5. SemHeld(w)
  BY <1>2, <1>4, SemSame
<1>6. SemHeld(k[r])
  BY <1>1, <1>2, <1>5
<1> QED BY <1>6 DEF k

LEMMA SemStarts ==
    ASSUME TypeOK, SemaphoreInv, NEW p \in Pids,
           StatPidFile(p) \/ KillRunning(p) \/ wait_for_exit(p) \/ Unlink(p) \/ CreatePidFile(p)
    PROVE  SemaphoreInv'
<1>1. proc \in [Pids -> Proc] /\ proc[p] \in Proc /\ SemHeld(proc[p])
  BY DEF TypeOK, SemaphoreInv
<1>2. ASSUME KillReturns(p), proc[p].pc \in {"stat", "unlink"}
      PROVE  SemaphoreInv'
  <2>1. CASE Exit(p)
    BY <2>1, SemExit
  <2>2. CASE ~Exit(p)
    <3> DEFINE v == [proc[p] EXCEPT !.pc = "create", !.pid = Nothing]
    <3>1. proc' = [proc EXCEPT ![p].pc = "create", ![p].pid = Nothing]
      BY <1>2, <2>2 DEF KillReturns
    <3>2. proc' = [proc EXCEPT ![p] = v]
      BY <3>1, <1>1
    <3>3. v \in Proc /\ v.pc = "create" /\ v.dnrd_sem = proc[p].dnrd_sem /\ v.handling = proc[p].handling
      BY <1>1 DEF Proc, Places, Starting
    <3> HIDE DEF v
    <3>4. SemHeld(v)
      BY <1>1, <1>2, <3>3 DEF SemHeld, Starting
    <3> QED BY <3>2, <3>3, <3>4, SemOf
  <2> QED BY <2>1, <2>2
<1>3. CASE StatPidFile(p)
  <2>1. proc[p].pc = "stat" /\ (KillReturns(p) \/ Goto(p, "open"))
    BY <1>3 DEF StatPidFile
  <2> QED BY <2>1, <1>2, SemGoto DEF Places, Starting
<1>4. CASE wait_for_exit(p)
  <2>1. proc[p].pc = "wait" /\ Goto(p, "unlink")
    BY <1>4 DEF wait_for_exit
  <2> QED BY <2>1, SemGoto DEF Places, Starting
<1>5. CASE Unlink(p)
  BY <1>5, <1>2 DEF Unlink
<1>6. CASE CreatePidFile(p)
  <2>1. CASE Goto(p, "cleanexit")
    BY <2>1, <1>6, SemGoto DEF CreatePidFile, Places, Starting
  <2>2. CASE ~Goto(p, "cleanexit")
    <3>1. PICK f \in Inodes : proc' = [proc EXCEPT ![p].pc = "init", ![p].filep = f]
      BY <1>6, <2>2 DEF CreatePidFile
    <3> DEFINE v == [proc[p] EXCEPT !.pc = "init", !.filep = f]
    <3>2. proc' = [proc EXCEPT ![p] = v]
      BY <3>1, <1>1
    <3>3. v \in Proc /\ v.pc = "init" /\ v.dnrd_sem = proc[p].dnrd_sem /\ v.handling = proc[p].handling
      BY <1>1 DEF Proc, Places, Starting
    <3>4. proc[p].pc = "create"
      BY <1>6 DEF CreatePidFile
    <3> HIDE DEF v
    <3>5. SemHeld(v)
      BY <1>1, <3>3, <3>4 DEF SemHeld, Starting
    <3> QED BY <3>2, <3>3, <3>5, SemOf
  <2> QED BY <2>1, <2>2
<1>7. CASE KillRunning(p)
  <2>0. proc[p].pc = "open"
    BY <1>7 DEF KillRunning
  <2>1. CASE Exit(p)
    BY <2>1, SemExit
  <2>2. CASE Goto(p, "unlink")
    BY <2>0, <2>2, SemGoto DEF Places, Starting
  <2>3. CASE ~Exit(p) /\ ~Goto(p, "unlink")
    <3>0. content \in Pids /\ content # p
      BY <1>7, <2>3 DEF KillRunning, TypeOK
    <3> PICK q \in Pids : q = content
      BY <3>0
    <3>1. \/ proc' = [kill(q, "TERM") EXCEPT ![p].pc = "wait", ![p].pid = q]
          \/ proc' = [proc EXCEPT ![p].pc = "wait", ![p].pid = q]
      BY <1>7, <2>3 DEF KillRunning
    <3>2. PICK k \in [Pids -> Proc] : /\ proc' = [k EXCEPT ![p].pc = "wait", ![p].pid = q]
                                      /\ k[p] = proc[p] /\ \A r \in Pids : SemHeld(k[r])
      <4>1. "TERM" \in Signals
        BY DEF Signals, Deadly
      <4>2. kill(q, "TERM") \in [Pids -> Proc]
        BY <4>1, KillEffect
      <4>0. \A r \in Pids : r # q => kill(q, "TERM")[r] = proc[r]
        BY <4>1, KillEffect
      <4>3. \A r \in Pids : SemHeld(kill(q, "TERM")[r])
        BY <4>1, SemKill
      <4>4. kill(q, "TERM")[p] = proc[p]
        BY <4>0, <3>0
      <4> QED BY <3>1, <4>2, <4>3, <4>4, <1>1 DEF SemaphoreInv
    <3> DEFINE v == [k[p] EXCEPT !.pc = "wait", !.pid = q]
    <3>3. proc'[p] = v /\ \A r \in Pids : r # p => proc'[r] = k[r]
      BY <3>2
    <3>4. v.pc = "wait" /\ v.dnrd_sem = proc[p].dnrd_sem /\ v.handling = proc[p].handling
      BY <3>2, <1>1 DEF Proc
    <3> HIDE DEF v
    <3>5. SemHeld(v)
      BY <1>1, <2>0, <3>4 DEF SemHeld, Starting
    <3> QED BY <3>2, <3>3, <3>5 DEF SemaphoreInv
  <2> QED BY <2>1, <2>2, <2>3
<1> QED BY <1>3, <1>4, <1>5, <1>6, <1>7

LEMMA SemRest ==
    ASSUME TypeOK, SemaphoreInv, NEW p \in Pids,
           InitAll(p) \/ Fork(p) \/ WritePid(p) \/ Run(p)
    PROVE  SemaphoreInv'
<1>1. proc \in [Pids -> Proc] /\ proc[p] \in Proc /\ SemHeld(proc[p])
  BY DEF TypeOK, SemaphoreInv
<1>2. CASE InitAll(p)
  <2>1. PICK place \in {"fork", "cleanexit"} : proc' = [proc EXCEPT ![p].pc = place, ![p].dnrd_sem = "free"]
    BY <1>2 DEF InitAll, SemInit
  <2> DEFINE v == [proc[p] EXCEPT !.pc = place, !.dnrd_sem = "free"]
  <2>2. proc' = [proc EXCEPT ![p] = v]
    BY <2>1, <1>1
  <2>3. v \in Proc /\ v.pc = place /\ v.dnrd_sem = "free" /\ v.handling = proc[p].handling
    BY <1>1 DEF Proc, Places, Starting
  <2>4. proc[p].pc = "init"
    BY <1>2 DEF InitAll
  <2> HIDE DEF v
  <2>5. SemHeld(v)
    BY <1>1, <2>3, <2>4 DEF SemHeld, Starting
  <2> QED BY <2>2, <2>3, <2>5, SemOf
<1>3. CASE Fork(p)
  <2>1. proc[p].pc = "fork"
    BY <1>3 DEF Fork
  <2>2. CASE Goto(p, "write")
    BY <2>1, <2>2, SemGoto DEF Places, Starting
  <2>3. CASE Goto(p, "cleanexit")
    BY <2>1, <2>3, SemGoto DEF Places, Starting
  <2>4. CASE ~Goto(p, "write") /\ ~Goto(p, "cleanexit")
    <3>1. PICK q \in Pids : proc' = [proc EXCEPT ![q] = [proc[p] EXCEPT !.pc = "write"], ![p] = NoProc]
      BY <1>3, <2>4 DEF Fork
    <3> DEFINE v == [proc[p] EXCEPT !.pc = "write"]
    <3>2. \A r \in Pids : proc'[r] = NoProc \/ proc'[r] = v \/ proc'[r] = proc[r]
      BY <3>1, <1>1
    <3>3. v.pc = "write" /\ v.dnrd_sem = proc[p].dnrd_sem /\ v.handling = proc[p].handling
      BY <1>1 DEF Proc
    <3> HIDE DEF v
    <3>4. SemHeld(v)
      BY <1>1, <2>1, <3>3 DEF SemHeld, Starting
    <3>5. SemHeld(NoProc)
      BY DEF NoProc, SemHeld, Starting
    <3> QED BY <3>2, <3>4, <3>5 DEF SemaphoreInv
  <2> QED BY <2>2, <2>3, <2>4
<1>4. CASE WritePid(p)
  <2> DEFINE v == [proc[p] EXCEPT !.pc = "run", !.filep = Nothing]
  <2>1. proc[p].pc = "write" /\ proc' = [proc EXCEPT ![p].pc = "run", ![p].filep = Nothing]
    BY <1>4 DEF WritePid
  <2>2. proc' = [proc EXCEPT ![p] = v]
    BY <2>1, <1>1
  <2>3. v \in Proc /\ v.pc = "run" /\ v.dnrd_sem = proc[p].dnrd_sem /\ v.handling = proc[p].handling
    BY <1>1 DEF Proc, Places, Starting
  <2> HIDE DEF v
  <2>4. SemHeld(v)
    BY <1>1, <2>1, <2>3 DEF SemHeld, Starting
  <2> QED BY <2>2, <2>3, <2>4, SemOf
<1>5. CASE Run(p)
  <2>1. proc[p].pc = "run" /\ Goto(p, "select")
    BY <1>5 DEF Run
  <2> QED BY <2>1, SemGoto DEF Places, Starting
<1> QED BY <1>2, <1>3, <1>4, <1>5

(* The handler of a deadly signal is entered with the semaphore free.  The *)
(* second one, within it, may find it taken; then both have begun.         *)
LEMMA SemEnds ==
    ASSUME TypeOK, SemaphoreInv, NEW p \in Pids,
           sig_handler(p) \/ HandlerAgain(p) \/ cleanexit(p) \/ Close(p) \/ Interrupted(p)
    PROVE  SemaphoreInv'
<1>1. proc \in [Pids -> Proc] /\ proc[p] \in Proc /\ SemHeld(proc[p])
  BY DEF TypeOK, SemaphoreInv
<1>2. CASE sig_handler(p)
  <2>0. proc[p].pc = "select" /\ proc[p].dnrd_sem = "free" /\ proc[p].handling = {}
    BY <1>1, <1>2 DEF sig_handler, SemHeld
  <2>1. CASE proc' = [proc EXCEPT ![p].pc = "cleanexit", ![p].pending = {},
                        ![p].handling = proc[p].pending \cap Deadly]
    <3> DEFINE v == [proc[p] EXCEPT !.pc = "cleanexit", !.pending = {},
                        !.handling = proc[p].pending \cap Deadly]
    <3>1. proc' = [proc EXCEPT ![p] = v]
      BY <2>1, <1>1
    <3>2. v \in Proc /\ v.pc = "cleanexit" /\ v.dnrd_sem = "free"
      BY <1>1, <2>0 DEF Proc, Places, Starting
    <3> HIDE DEF v
    <3>3. SemHeld(v)
      BY <3>2 DEF SemHeld, Starting
    <3> QED BY <3>1, <3>2, <3>3, SemOf
  <2>2. CASE proc' = [proc EXCEPT ![p].pc = "maintain", ![p].pending = {}, ![p].master_reload = 1]
    <3> DEFINE v == [proc[p] EXCEPT !.pc = "maintain", !.pending = {}, !.master_reload = 1]
    <3>1. proc' = [proc EXCEPT ![p] = v]
      BY <2>2, <1>1
    <3>2. v \in Proc /\ v.pc = "maintain" /\ v.dnrd_sem = "free" /\ v.handling = {}
      BY <1>1, <2>0 DEF Proc, Places, Starting
    <3> HIDE DEF v
    <3>3. SemHeld(v)
      BY <3>2 DEF SemHeld, Starting
    <3> QED BY <3>1, <3>2, <3>3, SemOf
  <2> QED BY <1>2, <2>1, <2>2 DEF sig_handler
<1>3. CASE HandlerAgain(p)
  <2>1. PICK s \in (proc[p].pending \cap Deadly) \ proc[p].handling :
            proc' = [proc EXCEPT ![p].pending = @ \ {s}, ![p].handling = @ \cup {s}, ![p].pc = "cleanexit"]
    BY <1>3 DEF HandlerAgain
  <2>2. proc[p].pc \in {"cleanexit", "closing"} /\ proc[p].handling # {} /\ proc[p].handling \subseteq Deadly
    BY <1>1, <1>3 DEF HandlerAgain, Proc
  <2> DEFINE v == [proc[p] EXCEPT !.pending = @ \ {s}, !.handling = @ \cup {s}, !.pc = "cleanexit"]
  <2>3. proc' = [proc EXCEPT ![p] = v]
    BY <2>1, <1>1
  <2>4. v \in Proc /\ v.pc = "cleanexit" /\ v.dnrd_sem = proc[p].dnrd_sem /\ v.handling = proc[p].handling \cup {s}
    BY <1>1, <2>1 DEF Proc, Places, Starting
  <2>5. proc[p].handling \cup {s} = Deadly
    BY <2>1, <2>2 DEF Deadly
  <2>6. proc[p].handling # Deadly
    BY <2>1
  <2> HIDE DEF v
  <2>7. SemHeld(v)
    BY <1>1, <2>2, <2>4, <2>5, <2>6 DEF SemHeld, Starting
  <2> QED BY <2>3, <2>4, <2>7, SemOf
<1>4. CASE cleanexit(p)
  <2> DEFINE v == [proc[p] EXCEPT !.pc = "closing", !.dnrd_sem = "taken"]
  <2>1. proc' = [proc EXCEPT ![p] = v]
    BY <1>1, <1>4 DEF cleanexit
  <2>2. v \in Proc /\ v.pc = "closing" /\ v.dnrd_sem = "taken"
    BY <1>1 DEF Proc, Places, Starting
  <2> HIDE DEF v
  <2>3. SemHeld(v)
    BY <2>2 DEF SemHeld, Starting
  <2> QED BY <2>1, <2>2, <2>3, SemOf
<1>5. CASE Close(p)
  BY <1>5, SemExit DEF Close
<1>6. CASE Interrupted(p)
  <2>0. proc[p].pc = "maintain"
    BY <1>6 DEF Interrupted
  <2>1. CASE Goto(p, "select")
    BY <2>0, <2>1, SemGoto DEF Places, Starting
  <2>2. CASE proc' = [proc EXCEPT ![p].pc = "select", ![p].master_reload = 0]
    <3> DEFINE v == [proc[p] EXCEPT !.pc = "select", !.master_reload = 0]
    <3>1. proc' = [proc EXCEPT ![p] = v]
      BY <2>2, <1>1
    <3>2. v \in Proc /\ v.pc = "select" /\ v.dnrd_sem = proc[p].dnrd_sem /\ v.handling = proc[p].handling
      BY <1>1 DEF Proc, Places, Starting
    <3> HIDE DEF v
    <3>3. SemHeld(v)
      BY <1>1, <2>0, <3>2 DEF SemHeld, Starting
    <3> QED BY <3>1, <3>2, <3>3, SemOf
  <2> QED BY <1>6, <2>1, <2>2 DEF Interrupted
<1> QED BY <1>2, <1>3, <1>4, <1>5, <1>6

LEMMA SemAround ==
    ASSUME TypeOK, SemaphoreInv, NEW p \in Pids,
           Start(p) \/ OtherProgram(p) \/ Crash(p) \/ Signal(p) \/ ParseArgs(p)
    PROVE  SemaphoreInv'
<1>1. proc \in [Pids -> Proc] /\ SemHeld(NoProc) /\ NoProc \in Proc
  BY DEF TypeOK, NoProc, SemHeld, Starting, Proc, Places
<1>2. CASE Start(p)
  <2>1. PICK c \in Commands, u \in Uids :
            proc' = [proc EXCEPT ![p] = [NoProc EXCEPT !.pc = "parse", !.cmd = c, !.uid = u]]
    BY <1>2 DEF Start
  <2> DEFINE v == [NoProc EXCEPT !.pc = "parse", !.cmd = c, !.uid = u]
  <2>2. v \in Proc /\ v.pc = "parse" /\ v.dnrd_sem = "unset" /\ v.handling = {}
    BY DEF NoProc, Proc, Places, Starting
  <2> HIDE DEF v
  <2>3. SemHeld(v)
    BY <2>2 DEF SemHeld, Starting
  <2> QED BY <2>1, <2>2, <2>3, SemOf DEF v
<1>3. CASE OtherProgram(p)
  <2>1. CASE Exit(p)
    BY <2>1, SemExit
  <2>2. CASE proc[p].pc = "none" /\ Goto(p, "other")
    BY <2>2, SemGoto DEF Places, Starting
  <2> QED BY <1>3, <2>1, <2>2 DEF OtherProgram
<1>4. CASE Crash(p)
  BY <1>4, SemExit DEF Crash
<1>5. CASE Signal(p)
  <2>1. PICK s \in Signals : proc' = kill(p, s)
    BY <1>5 DEF Signal
  <2>2. \A r \in Pids : SemHeld(kill(p, s)[r])
    BY SemKill
  <2> QED BY <2>1, <2>2 DEF SemaphoreInv
<1>6. CASE ParseArgs(p)
  <2>1. CASE Exit(p)
    BY <2>1, SemExit
  <2>2. CASE proc[p].pc = "parse" /\ Goto(p, "stat")
    BY <2>2, SemGoto DEF Places, Starting
  <2> QED BY <1>6, <2>1, <2>2 DEF ParseArgs
<1> QED BY <1>2, <1>3, <1>4, <1>5, <1>6

(* A process hangs in cleanexit() for one of two reasons only.             *)
THEOREM StuckOnlyForTwoReasons == Spec => []StuckExplained
<1>1. Init => TypeOK /\ SemaphoreInv
  <2>1. SemHeld(NoProc)
    BY DEF NoProc, SemHeld, Starting
  <2> QED BY <2>1, InitInv DEF Init, IInv, SemaphoreInv
<1>2. TypeOK /\ SemaphoreInv /\ [Next]_vars => SemaphoreInv'
  <2> SUFFICES ASSUME TypeOK, SemaphoreInv, [Next]_vars PROVE SemaphoreInv'
    OBVIOUS
  <2>1. CASE UNCHANGED vars
    BY <2>1 DEF vars, SemaphoreInv
  <2>2. CASE Next
    <3> PICK p \in Pids : Step(p) \/ Start(p) \/ OtherProgram(p) \/ Crash(p) \/ Signal(p)
      BY <2>2 DEF Next
    <3> QED BY SemStarts, SemRest, SemEnds, SemAround DEF Step
  <2> QED BY <2>1, <2>2
<1>3. SemaphoreInv => StuckExplained
  BY DEF SemaphoreInv, SemHeld, StuckExplained
<1> QED BY <1>1, <1>2, <1>3, StepType, PTL DEF Spec
---------------------------------------------------------------------------
(* What parse_args() makes of a command line.                              *)

InfNode == [inf : STRING, srvlist : Seq(Int)]
GlobalValues == [verdict : {"start", "refuse", "kill", "quit"}, inf_list : Seq(InfNode),
                 opt_debug : Int, gotterminal : Int, reactivate_interval : Int]

(* The option behind the others is at the place after theirs.              *)
LEMMA MentionsAppended ==
    ASSUME NEW s \in Seq(Option), NEW o \in Option, NEW inf
    PROVE  /\ Mentions(s, inf) \subseteq 1 .. Len(s)
           /\ o.opt = "s" /\ o.inf = inf =>
                Mentions(Append(s, o), inf) = Mentions(s, inf) \cup {Len(s) + 1}
           /\ ~(o.opt = "s" /\ o.inf = inf) => Mentions(Append(s, o), inf) = Mentions(s, inf)
<1> DEFINE t == Append(s, o)
           N == Len(s)
<1>1. /\ N \in Nat /\ DOMAIN s = 1 .. N /\ DOMAIN t = 1 .. N + 1
      /\ \A k \in 1 .. N : t[k] = s[k]
      /\ t[N + 1] = o
  OBVIOUS
<1>2. \A k : k \in 1 .. N + 1 <=> k \in 1 .. N \/ k = N + 1
  BY <1>1
<1> HIDE DEF t, N
<1>3. \A k : k \in Mentions(s, inf) <=> k \in 1 .. N /\ s[k].opt = "s" /\ s[k].inf = inf
  BY <1>1 DEF Mentions
<1>4. \A k : k \in Mentions(t, inf) <=> (k \in Mentions(s, inf) \/ (k = N + 1 /\ o.opt = "s" /\ o.inf = inf))
  <2>1. \A k : k \in Mentions(t, inf) <=> k \in 1 .. N + 1 /\ t[k].opt = "s" /\ t[k].inf = inf
    BY <1>1 DEF Mentions
  <2>2. N + 1 \notin 1 .. N
    BY <1>1
  <2> QED BY <2>1, <2>2, <1>1, <1>2, <1>3
<1> QED BY <1>3, <1>4 DEF t, N

(* An option that is no -s, or a server for another interface, does not    *)
(* change which servers an interface has.                                  *)
LEMMA InOrderKept ==
    ASSUME NEW s \in Seq(Option), NEW o \in Option, NEW inf, NEW list \in Seq(Int),
           InOrder(list, s, inf), ~(o.opt = "s" /\ o.inf = inf)
    PROVE  InOrder(list, Append(s, o), inf)
<1>1. PICK at \in [DOMAIN list -> Mentions(s, inf)] :
        /\ \A k \in Mentions(s, inf) : \E n \in DOMAIN list : at[n] = k
        /\ \A n, m \in DOMAIN list : n < m => at[n] < at[m]
        /\ \A n \in DOMAIN list : list[n] = s[at[n]].arg
  BY DEF InOrder
<1>2. Mentions(Append(s, o), inf) = Mentions(s, inf) /\ Mentions(s, inf) \subseteq 1 .. Len(s)
  BY MentionsAppended
<1>3. \A k \in 1 .. Len(s) : Append(s, o)[k] = s[k]
  OBVIOUS
<1>4. \A n \in DOMAIN list : list[n] = Append(s, o)[at[n]].arg
  BY <1>1, <1>2, <1>3
<1> QED BY <1>1, <1>2, <1>4 DEF InOrder

(* add_srv() puts the server of a -s where its place is.                   *)
LEMMA InOrderAdded ==
    ASSUME NEW s \in Seq(Option), NEW o \in Option, NEW list \in Seq(Int),
           InOrder(list, s, o.inf), o.opt = "s"
    PROVE  InOrder(add_srv(list, o.arg), Append(s, o), o.inf)
<1> DEFINE L == Len(list)
           N == Len(s)
           M == Mentions(s, o.inf)
           t == Append(s, o)
           new == Append(list, o.arg)
<1>1. PICK at \in [DOMAIN list -> M] :
        /\ \A k \in M : \E n \in DOMAIN list : at[n] = k
        /\ \A n, m \in DOMAIN list : n < m => at[n] < at[m]
        /\ \A n \in DOMAIN list : list[n] = s[at[n]].arg
  BY DEF InOrder
<1>2. Mentions(t, o.inf) = M \cup {N + 1} /\ M \subseteq 1 .. N
  BY MentionsAppended
<1>3. /\ N \in Nat /\ L \in Nat /\ DOMAIN list = 1 .. L /\ DOMAIN new = 1 .. L + 1
      /\ \A k \in 1 .. N : t[k] = s[k]
      /\ \A n \in 1 .. L : new[n] = list[n]
      /\ t[N + 1] = o /\ new[L + 1] = o.arg
  BY DEF Option
<1>4. \A n : n \in 1 .. L + 1 <=> n \in 1 .. L \/ n = L + 1
  BY <1>3
<1>5. L + 1 \notin 1 .. L
  BY <1>3
<1> HIDE DEF L, N, M, t, new
<1> DEFINE b == [n \in 1 .. L + 1 |-> IF n = L + 1 THEN N + 1 ELSE at[n]]
<1>6. b \in [DOMAIN new -> Mentions(t, o.inf)]
  BY <1>1, <1>2, <1>3, <1>4
<1>7. b[L + 1] = N + 1 /\ \A n \in 1 .. L : b[n] = at[n]
  BY <1>3, <1>4, <1>5
<1> HIDE DEF b
<1>8. \A k \in Mentions(t, o.inf) : \E n \in DOMAIN new : b[n] = k
  <2> TAKE k \in Mentions(t, o.inf)
  <2>1. CASE k = N + 1
    BY <2>1, <1>3, <1>4, <1>7
  <2>2. CASE k \in M
    <3>1. PICK n \in 1 .. L : at[n] = k
      BY <2>2, <1>1, <1>3
    <3> QED BY <3>1, <1>3, <1>4, <1>7
  <2> QED BY <2>1, <2>2, <1>2
<1>9. \A n, m \in DOMAIN new : n < m => b[n] < b[m]
  <2> SUFFICES ASSUME NEW n \in 1 .. L + 1, NEW m \in 1 .. L + 1, n < m PROVE b[n] < b[m]
    BY <1>3
  <2>1. n \in 1 .. L /\ b[n] = at[n] /\ at[n] \in 1 .. N
    <3>1. n \in 1 .. L
      BY <1>3
    <3> QED BY <3>1, <1>1, <1>2, <1>3, <1>7
  <2>2. CASE m = L + 1
    BY <2>1, <2>2, <1>3, <1>7
  <2>3. CASE m \in 1 .. L
    <3>1. at[n] < at[m]
      BY <2>1, <2>3, <1>1, <1>3
    <3> QED BY <2>1, <2>3, <3>1, <1>7
  <2> QED BY <2>2, <2>3, <1>4
<1>10. \A n \in DOMAIN new : new[n] = t[b[n]].arg
  <2> TAKE n \in DOMAIN new
  <2>1. CASE n = L + 1
    BY <2>1, <1>3, <1>7
  <2>2. CASE n \in 1 .. L
    <3>1. at[n] \in 1 .. N /\ list[n] = s[at[n]].arg
      BY <2>2, <1>1, <1>2, <1>3
    <3> QED BY <3>1, <2>2, <1>3, <1>7
  <2> QED BY <2>1, <2>2, <1>3, <1>4
<1>11. InOrder(new, t, o.inf)
  BY <1>6, <1>8, <1>9, <1>10 DEF InOrder
<1> QED BY <1>11 DEF new, t, add_srv

(* What holds of the list once it has the interface of a -s, before its    *)
(* server is added.                                                        *)
Ready(list, s, inf) ==
    /\ list \in Seq(InfNode)
    /\ search_infnode(list, inf)
    /\ \A k \in DOMAIN s : s[k].opt = "s" => search_infnode(list, s[k].inf)
    /\ \A n \in DOMAIN list : list[n].inf # inf => Mentions(s, list[n].inf) # {}
    /\ \A n \in DOMAIN list : InOrder(list[n].srvlist, s, list[n].inf)
    /\ \A n, m \in DOMAIN list : n < m =>
            \E k \in Mentions(s, list[m].inf) : \A l \in Mentions(s, list[n].inf) : k < l

LEMMA KnownReady ==
    ASSUME NEW list \in Seq(InfNode), NEW s \in Seq(Option), ListsTheServers(list, s),
           NEW inf \in STRING, search_infnode(list, inf)
    PROVE  Ready(list, s, inf)
BY DEF Ready, ListsTheServers

(* A new interface is not named before, and stands before those that are.  *)
LEMMA NewReady ==
    ASSUME NEW list \in Seq(InfNode), NEW s \in Seq(Option), ListsTheServers(list, s),
           NEW inf \in STRING, ~search_infnode(list, inf)
    PROVE  Ready(add_interface(list, inf), s, inf)
<1> DEFINE e == [inf |-> inf, srvlist |-> << >>]
           L == Len(list)
           new == <<e>> \o list
<1>1. e \in InfNode /\ e.inf = inf /\ e.srvlist = << >>
  BY DEF InfNode
<1>2. /\ L \in Nat /\ DOMAIN list = 1 .. L /\ new \in Seq(InfNode) /\ DOMAIN new = 1 .. L + 1
      /\ new[1] = e /\ \A n \in 1 .. L : new[n + 1] = list[n]
  BY <1>1
<1>3. \A n \in 1 .. L + 1 : n = 1 \/ (n - 1 \in 1 .. L /\ new[n] = list[n - 1])
  <2> TAKE n \in 1 .. L + 1
  <2>1. n # 1 => n - 1 \in 1 .. L /\ n - 1 + 1 = n
    BY <1>2
  <2> QED BY <2>1, <1>2
<1>4. Mentions(s, inf) = {}
  BY DEF Mentions, ListsTheServers
<1> HIDE DEF e, L, new
<1>5. search_infnode(new, inf)
  BY <1>1, <1>2, SMTT(30) DEF search_infnode
<1>6. ASSUME NEW k \in DOMAIN s, s[k].opt = "s" PROVE search_infnode(new, s[k].inf)
  <2>0. search_infnode(list, s[k].inf)
    BY <1>6 DEF ListsTheServers
  <2>1. PICK n \in 1 .. L : list[n].inf = s[k].inf
    BY <2>0, <1>2 DEF search_infnode
  <2>2. n + 1 \in DOMAIN new /\ new[n + 1].inf = s[k].inf
    BY <2>1, <1>2
  <2> QED BY <2>2 DEF search_infnode
<1>7. ASSUME NEW n \in DOMAIN new, new[n].inf # inf PROVE Mentions(s, new[n].inf) # {}
  <2>1. n - 1 \in DOMAIN list /\ new[n] = list[n - 1]
    BY <1>1, <1>2, <1>3, <1>7
  <2> QED BY <2>1 DEF ListsTheServers
<1>8. ASSUME NEW n \in DOMAIN new PROVE InOrder(new[n].srvlist, s, new[n].inf)
  <2>1. CASE n = 1
    <3>1. DOMAIN (<< >>) = {}
      OBVIOUS
    <3>2. [x \in {} |-> x] \in [{} -> Mentions(s, inf)]
      OBVIOUS
    <3>3. InOrder(<< >>, s, inf)
      BY <3>1, <3>2, <1>4 DEF InOrder
    <3> QED BY <2>1, <3>3, <1>1, <1>2
  <2>2. CASE n # 1
    <3>1. n - 1 \in DOMAIN list /\ new[n] = list[n - 1]
      BY <1>2, <1>3, <2>2
    <3> QED BY <3>1 DEF ListsTheServers
  <2> QED BY <2>1, <2>2
<1>9. ASSUME NEW n \in DOMAIN new, NEW m \in DOMAIN new, n < m
      PROVE  \E k \in Mentions(s, new[m].inf) : \A l \in Mentions(s, new[n].inf) : k < l
  <2>1. m - 1 \in DOMAIN list /\ new[m] = list[m - 1] /\ n \in 1 .. L + 1 /\ m \in 1 .. L + 1
    <3>1. n \in 1 .. L + 1 /\ m \in 1 .. L + 1 /\ m # 1
      BY <1>2, <1>9
    <3> QED BY <3>1, <1>2, <1>3
  <2>2. CASE n = 1
    <3>1. Mentions(s, new[m].inf) # {}
      BY <2>1 DEF ListsTheServers
    <3> QED BY <3>1, <2>2, <1>1, <1>2, <1>4
  <2>3. CASE n # 1
    <3>1. n - 1 \in DOMAIN list /\ new[n] = list[n - 1] /\ n - 1 < m - 1
      BY <2>1, <2>3, <1>2, <1>3, <1>9
    <3> QED BY <2>1, <3>1 DEF ListsTheServers
  <2> QED BY <2>2, <2>3
<1>10. Ready(new, s, inf)
  BY <1>2, <1>5, <1>6, <1>7, <1>8, <1>9 DEF Ready
<1> QED BY <1>10 DEF new, e, add_interface

(* What a -s does to the list, interface by interface.                     *)
Known(list, inf) == IF search_infnode(list, inf) THEN list ELSE add_interface(list, inf)

LEMMA ServerPut ==
    ASSUME NEW list \in Seq(InfNode), NEW o \in Option
    PROVE  /\ Known(list, o.inf) \in Seq(InfNode)
           /\ ServerOption(list, o) \in Seq(InfNode)
           /\ DOMAIN ServerOption(list, o) = DOMAIN Known(list, o.inf)
           /\ \A n \in DOMAIN Known(list, o.inf) :
                /\ ServerOption(list, o)[n].inf = Known(list, o.inf)[n].inf
                /\ ServerOption(list, o)[n].srvlist =
                        IF Known(list, o.inf)[n].inf = o.inf
                        THEN add_srv(Known(list, o.inf)[n].srvlist, o.arg)
                        ELSE Known(list, o.inf)[n].srvlist
<1> DEFINE known == Known(list, o.inf)
           Served(node) == [node EXCEPT !.srvlist = add_srv(@, o.arg)]
           after == [n \in DOMAIN known |-> IF known[n].inf = o.inf THEN Served(known[n]) ELSE known[n]]
<1>1. o.inf \in STRING /\ o.arg \in Int
  BY DEF Option
<1>2. known \in Seq(InfNode)
  <2>1. [inf |-> o.inf, srvlist |-> << >>] \in InfNode
    BY <1>1 DEF InfNode
  <2> QED BY <2>1 DEF Known, add_interface
<1>3. ServerOption(list, o) = after
  BY DEF ServerOption, Known
<1> HIDE DEF known
<1>4. Len(known) \in Nat /\ DOMAIN known = 1 .. Len(known)
  BY <1>2
<1>5. ASSUME NEW node \in InfNode
      PROVE  /\ Served(node) \in InfNode /\ Served(node).inf = node.inf
             /\ Served(node).srvlist = add_srv(node.srvlist, o.arg)
  <2> DEFINE to == add_srv(node.srvlist, o.arg)
  <2>1. node.srvlist \in Seq(Int)
    BY DEF InfNode
  <2>2. to \in Seq(Int)
    BY <2>1, <1>1 DEF add_srv
  <2>3. Served(node) = [node EXCEPT !.srvlist = to]
    OBVIOUS
  <2> HIDE DEF to, Served
  <2>4. [node EXCEPT !.srvlist = to] \in InfNode /\ [node EXCEPT !.srvlist = to].inf = node.inf
        /\ [node EXCEPT !.srvlist = to].srvlist = to
    BY <2>2 DEF InfNode
  <2> QED BY <2>3, <2>4 DEF to
<1> HIDE DEF Served
<1>6. \A n \in DOMAIN known : known[n] \in InfNode
  BY <1>2, <1>4
<1>7. after \in Seq(InfNode)
  BY <1>4, <1>5, <1>6
<1>8. /\ DOMAIN after = DOMAIN known
      /\ \A n \in DOMAIN known :
            /\ after[n].inf = known[n].inf
            /\ after[n].srvlist = IF known[n].inf = o.inf THEN add_srv(known[n].srvlist, o.arg)
                                  ELSE known[n].srvlist
  BY <1>5, <1>6
<1> HIDE DEF after
<1> QED BY <1>2, <1>3, <1>7, <1>8 DEF known

(* One -s more.                                                            *)
LEMMA ServerAdded ==
    ASSUME NEW list \in Seq(InfNode), NEW s \in Seq(Option), ListsTheServers(list, s),
           NEW o \in Option, o.opt = "s"
    PROVE  ListsTheServers(ServerOption(list, o), Append(s, o))
<1> DEFINE known == Known(list, o.inf)
           t == Append(s, o)
           after == ServerOption(list, o)
<1>1. o.inf \in STRING /\ o.arg \in Int
  BY DEF Option
<1>2. Ready(known, s, o.inf)
  BY <1>1, KnownReady, NewReady DEF Known
<1>6. \A n \in DOMAIN known : known[n] \in InfNode
  BY <1>2 DEF Ready
<1>7. /\ DOMAIN after = DOMAIN known
      /\ \A n \in DOMAIN known :
            /\ after[n].inf = known[n].inf
            /\ after[n].srvlist = IF known[n].inf = o.inf THEN add_srv(known[n].srvlist, o.arg)
                                  ELSE known[n].srvlist
  BY ServerPut
<1> HIDE DEF known, after
<1>9. \A inf : /\ Mentions(s, inf) \subseteq 1 .. Len(s)
               /\ inf = o.inf => Mentions(t, inf) = Mentions(s, inf) \cup {Len(s) + 1}
               /\ inf # o.inf => Mentions(t, inf) = Mentions(s, inf)
  BY MentionsAppended
<1>10. /\ Len(s) \in Nat /\ DOMAIN s = 1 .. Len(s) /\ DOMAIN t = 1 .. Len(s) + 1
       /\ \A k \in 1 .. Len(s) : t[k] = s[k]
       /\ t[Len(s) + 1] = o
       /\ \A k \in 1 .. Len(s) + 1 : k \in 1 .. Len(s) \/ k = Len(s) + 1
  OBVIOUS
<1> HIDE DEF t
<1>11. ASSUME NEW k \in DOMAIN t, t[k].opt = "s" PROVE search_infnode(after, t[k].inf)
  <2>1. search_infnode(known, t[k].inf)
    BY <1>2, <1>10, <1>11 DEF Ready
  <2> QED BY <2>1, <1>7 DEF search_infnode
<1>12. ASSUME NEW n \in DOMAIN after PROVE Mentions(t, after[n].inf) # {}
  <2>1. n \in DOMAIN known /\ after[n].inf = known[n].inf
    BY <1>7
  <2>2. CASE known[n].inf = o.inf
    BY <2>1, <2>2, <1>9
  <2>3. CASE known[n].inf # o.inf
    <3>1. Mentions(s, known[n].inf) # {}
      BY <2>1, <2>3, <1>2 DEF Ready
    <3> QED BY <2>1, <2>3, <3>1, <1>9
  <2> QED BY <2>2, <2>3
<1>13. ASSUME NEW n \in DOMAIN after PROVE InOrder(after[n].srvlist, t, after[n].inf)
  <2>1. known[n] \in InfNode /\ known[n].srvlist \in Seq(Int) /\ InOrder(known[n].srvlist, s, known[n].inf)
    BY <1>2, <1>6, <1>7 DEF Ready, InfNode
  <2>2. CASE known[n].inf = o.inf
    <3>1. InOrder(add_srv(known[n].srvlist, o.arg), t, o.inf)
      BY <2>1, <2>2, InOrderAdded DEF t
    <3> QED BY <3>1, <2>2, <1>7
  <2>3. CASE known[n].inf # o.inf
    <3>1. InOrder(known[n].srvlist, t, known[n].inf)
      BY <2>1, <2>3, InOrderKept DEF t
    <3> QED BY <3>1, <2>3, <1>7
  <2> QED BY <2>2, <2>3
<1>14. ASSUME NEW n \in DOMAIN after, NEW m \in DOMAIN after, n < m
       PROVE  \E k \in Mentions(t, after[m].inf) : \A l \in Mentions(t, after[n].inf) : k < l
  <2>1. PICK k \in Mentions(s, known[m].inf) : \A l \in Mentions(s, known[n].inf) : k < l
    BY <1>2, <1>7, <1>14 DEF Ready
  <2>2. k \in Mentions(t, after[m].inf) /\ k \in 1 .. Len(s)
    BY <1>7, <1>9
  <2>3. \A l \in Mentions(t, after[n].inf) : l \in Mentions(s, known[n].inf) \/ l = Len(s) + 1
    BY <1>7, <1>9
  <2> QED BY <2>1, <2>2, <2>3, <1>10
<1>15. ListsTheServers(after, t)
  BY <1>11, <1>12, <1>13, <1>14 DEF ListsTheServers
<1> QED BY <1>15 DEF t, after

(* Another option.                                                         *)
LEMMA OtherAdded ==
    ASSUME NEW list \in Seq(InfNode), NEW s \in Seq(Option), ListsTheServers(list, s),
           NEW o \in Option, o.opt # "s"
    PROVE  ListsTheServers(list, Append(s, o))
<1> DEFINE t == Append(s, o)
<1>1. \A inf : Mentions(t, inf) = Mentions(s, inf)
  BY MentionsAppended
<1>2. ASSUME NEW n \in DOMAIN list PROVE InOrder(list[n].srvlist, t, list[n].inf)
  <2>1. list[n] \in InfNode
    OBVIOUS
  <2>2. list[n].srvlist \in Seq(Int)
    BY <2>1 DEF InfNode
  <2>3. InOrder(list[n].srvlist, s, list[n].inf)
    BY DEF ListsTheServers
  <2> QED BY <2>2, <2>3, InOrderKept
<1>3. /\ Len(s) \in Nat /\ DOMAIN s = 1 .. Len(s) /\ DOMAIN t = 1 .. Len(s) + 1
      /\ \A k \in 1 .. Len(s) : t[k] = s[k]
      /\ t[Len(s) + 1] = o
      /\ \A k \in 1 .. Len(s) + 1 : k \in 1 .. Len(s) \/ k = Len(s) + 1
  OBVIOUS
<1> HIDE DEF t
<1>4. ASSUME NEW k \in DOMAIN t, t[k].opt = "s" PROVE search_infnode(list, t[k].inf)
  BY <1>3, <1>4 DEF ListsTheServers
<1>5. ListsTheServers(list, t)
  BY <1>1, <1>2, <1>4 DEF ListsTheServers
<1> QED BY <1>5 DEF t

(* After n turns of the loop: the list has the servers of the options so   *)
(* far, none of which was refused; or a -k was met before any that was.    *)
Sound(g, argv, n) ==
    /\ g \in GlobalValues
    /\ g.verdict = "start" =>
            /\ ListsTheServers(g.inf_list, SubSeq(argv, 1, n))
            /\ \A m \in 1 .. n : ~Refused(argv[m])
    /\ g.verdict = "kill" =>
            \E k \in 0 .. n - 1 : argv[k + 1].opt = "k" /\ \A m \in 1 .. k : ~Refused(argv[m])

LEMMA GlobalsTyped == Globals \in GlobalValues
<1>1. << >> \in Seq(InfNode)
  OBVIOUS
<1> QED BY <1>1 DEF Globals, GlobalValues

LEMMA TurnTyped ==
    ASSUME NEW g \in GlobalValues, NEW o \in Option
    PROVE  ParseOption(o, g) \in GlobalValues
<1>1. o.arg \in Int /\ g.inf_list \in Seq(InfNode)
  BY DEF Option, GlobalValues
<1>2. ServerOption(g.inf_list, o) \in Seq(InfNode)
  BY <1>1, ServerPut
<1> DEFINE list == ServerOption(g.inf_list, o)
<1>3. [g EXCEPT !.inf_list = list] \in GlobalValues
  <2> HIDE DEF list
  <2>1. list \in Seq(InfNode)
    BY <1>2 DEF list
  <2> QED BY <2>1 DEF GlobalValues
<1>4. /\ \A v \in {"refuse", "kill", "quit"} : [g EXCEPT !.verdict = v] \in GlobalValues
      /\ [g EXCEPT !.opt_debug = o.arg] \in GlobalValues
      /\ [g EXCEPT !.gotterminal = 0] \in GlobalValues
      /\ [g EXCEPT !.reactivate_interval = o.arg] \in GlobalValues
  BY <1>1 DEF GlobalValues
<1>5. \/ ParseOption(o, g) = g
      \/ \E v \in {"refuse", "kill", "quit"} : ParseOption(o, g) = [g EXCEPT !.verdict = v]
      \/ ParseOption(o, g) = [g EXCEPT !.inf_list = list]
      \/ ParseOption(o, g) = [g EXCEPT !.opt_debug = o.arg]
      \/ ParseOption(o, g) = [g EXCEPT !.gotterminal = 0]
      \/ ParseOption(o, g) = [g EXCEPT !.reactivate_interval = o.arg]
  BY DEF ParseOption
<1> HIDE DEF list
<1> QED BY <1>3, <1>4, <1>5

(* One turn of the loop.                                                   *)
LEMMA TurnSound ==
    ASSUME NEW argv \in Seq(Option), NEW n \in 1 .. Len(argv), NEW g, Sound(g, argv, n - 1)
    PROVE  Sound(ParseOption(argv[n], g), argv, n)
<1> DEFINE o == argv[n]
           s == SubSeq(argv, 1, n - 1)
           new == ParseOption(o, g)
<1>1. o \in Option /\ s \in Seq(Option) /\ SubSeq(argv, 1, n) = Append(s, o)
  OBVIOUS
<1>2. g \in GlobalValues /\ new \in GlobalValues
  BY <1>1, TurnTyped DEF Sound
<1>3. Len(argv) \in Nat /\ n \in Nat /\ n - 1 \in Nat
  OBVIOUS
<1>4. \A m \in 1 .. n : m \in 1 .. n - 1 \/ m = n
  BY <1>3
<1>5. \A k \in 0 .. n - 1 - 1 : k \in 0 .. n - 1
  BY <1>3
<1>6. g.inf_list \in Seq(InfNode)
  BY <1>2 DEF GlobalValues
<1> SUFFICES Sound(new, argv, n)
  OBVIOUS
<1> HIDE DEF o, s
<1>7. CASE g.verdict # "start"
  <2>1. new = g
    BY <1>7 DEF ParseOption
  <2> HIDE DEF new
  <2> QED BY <2>1, <1>2, <1>5, <1>7 DEF Sound
<1>8. CASE g.verdict = "start" /\ Refused(o)
  <2>1. new = [g EXCEPT !.verdict = "refuse"]
    BY <1>8 DEF ParseOption
  <2>2. new.verdict = "refuse"
    BY <2>1, <1>2 DEF GlobalValues
  <2> HIDE DEF new
  <2> QED BY <2>2, <1>2 DEF Sound
<1>9. CASE g.verdict = "start" /\ ~Refused(o)
  <2>1. ListsTheServers(g.inf_list, s) /\ \A m \in 1 .. n : ~Refused(argv[m])
    BY <1>4, <1>9 DEF Sound, s, o
  <2>2. CASE o.opt \in {"k", "h", "v"}
    <3>1. new.verdict = IF o.opt = "k" THEN "kill" ELSE "quit"
      BY <1>2, <1>9, <2>2 DEF ParseOption, GlobalValues
    <3>2. n - 1 + 1 = n /\ n - 1 \in 0 .. n - 1 /\ \A m \in 1 .. n - 1 : m \in 1 .. n
      BY <1>3
    <3> HIDE DEF new
    <3> QED BY <1>2, <2>1, <2>2, <3>1, <3>2 DEF Sound, o
  <2>3. CASE o.opt = "s"
    <3>1. new = [g EXCEPT !.inf_list = ServerOption(g.inf_list, o)]
      BY <1>9, <2>3 DEF ParseOption
    <3>2. new.inf_list = ServerOption(g.inf_list, o) /\ new.verdict = "start"
      BY <3>1, <1>2, <1>9 DEF GlobalValues
    <3>3. ListsTheServers(new.inf_list, SubSeq(argv, 1, n))
      BY <3>2, <1>1, <1>6, <2>1, <2>3, ServerAdded
    <3> HIDE DEF new
    <3> QED BY <1>2, <2>1, <3>2, <3>3 DEF Sound, o
  <2>4. CASE o.opt \notin {"k", "h", "v", "s"}
    <3>1. \/ new = g
          \/ new = [g EXCEPT !.opt_debug = o.arg]
          \/ new = [g EXCEPT !.gotterminal = 0]
          \/ new = [g EXCEPT !.reactivate_interval = o.arg]
      BY <1>9, <2>4 DEF ParseOption
    <3>2. new.inf_list = g.inf_list /\ new.verdict = "start"
      BY <3>1, <1>2, <1>9 DEF GlobalValues
    <3>3. ListsTheServers(new.inf_list, SubSeq(argv, 1, n))
      BY <3>2, <1>1, <1>6, <2>1, <2>4, OtherAdded
    <3> HIDE DEF new
    <3> QED BY <1>2, <2>1, <3>2, <3>3 DEF Sound, o
  <2> QED BY <2>2, <2>3, <2>4
<1> QED BY <1>7, <1>8, <1>9

(* What after of parse_args() has to be, and that there is one.            *)
IsAfter(f, argv) ==
    f = [n \in 0 .. Len(argv) |-> IF n = 0 THEN Globals ELSE ParseOption(argv[n], f[n - 1])]

LEMMA AfterExists ==
    ASSUME NEW argv \in Seq(Option)
    PROVE  \E f : IsAfter(f, argv)
<1> DEFINE N == Len(argv)
           turn == [n \in 1 .. N |-> [g \in GlobalValues |-> ParseOption(argv[n], g)]]
<1>1. N \in Nat /\ Globals \in GlobalValues
  BY GlobalsTyped
<1>2. \A n \in 1 .. N : argv[n] \in Option
  OBVIOUS
<1>3. turn \in [1 .. N -> [GlobalValues -> GlobalValues]]
  BY <1>2, TurnTyped
<1>4. PICK f \in [0 .. N -> GlobalValues] : IsHistory(f, N, Globals, turn)
  <2> HIDE DEF N, turn
  <2> QED BY <1>1, <1>3, HistoryExists
<1>5. f[0] = Globals /\ \A n \in 1 .. N : f[n] = turn[n][f[n - 1]]
  BY <1>4 DEF IsHistory
<1>6. ASSUME NEW n \in 0 .. N
      PROVE  f[n] = IF n = 0 THEN Globals ELSE ParseOption(argv[n], f[n - 1])
  <2>1. CASE n = 0
    BY <2>1, <1>5
  <2>2. CASE n # 0
    <3>1. n \in 1 .. N /\ n - 1 \in 0 .. N
      BY <2>2, <1>1
    <3>2. f[n - 1] \in GlobalValues
      BY <3>1, <1>4
    <3> QED BY <2>2, <3>1, <3>2, <1>5
  <2> QED BY <2>1, <2>2
<1>7. DOMAIN f = 0 .. N /\ f = [n \in 0 .. N |-> f[n]]
  BY <1>4
<1> HIDE DEF turn
<1>8. IsAfter(f, argv)
  BY <1>6, <1>7 DEF IsAfter
<1> QED BY <1>8

LEMMA LoopSound ==
    ASSUME NEW argv \in Seq(Option), NEW f, IsAfter(f, argv)
    PROVE  Sound(f[Len(argv)], argv, Len(argv))
<1> DEFINE N == Len(argv)
           S == {n \in 0 .. N : Sound(f[n], argv, n)}
<1>1. N \in Nat /\ f[0] = Globals
  BY DEF IsAfter
<1>2. 0 \in S
  <2>1. Globals \in GlobalValues /\ Globals.verdict = "start" /\ Globals.inf_list = << >>
    BY GlobalsTyped DEF Globals
  <2>2. SubSeq(argv, 1, 0) = << >>
    OBVIOUS
  <2>3. ListsTheServers(<< >>, << >>)
    BY DEF ListsTheServers
  <2>4. 1 .. 0 = {}
    OBVIOUS
  <2>5. Sound(Globals, argv, 0)
    BY <2>1, <2>2, <2>3, <2>4 DEF Sound
  <2> QED BY <1>1, <2>5
<1>3. ASSUME NEW n \in 1 .. N, n - 1 \in S PROVE n \in S
  <2>1. n \in 0 .. N /\ n # 0
    BY <1>1
  <2>2. f[n] = ParseOption(argv[n], f[n - 1])
    BY <2>1 DEF IsAfter
  <2>3. Sound(f[n], argv, n)
    BY <1>3, <2>2, TurnSound
  <2> QED BY <2>1, <2>3
<1>4. \A n \in 0 .. N : n \in S
  <2> HIDE DEF N, S
  <2> QED BY <1>1, <1>2, <1>3, BoundedInduction
<1>5. N \in 0 .. N
  BY <1>1
<1> QED BY <1>4, <1>5

(* What parse_args() leaves, for every command line: a start has all the   *)
(* servers in their order, and what comes to the pid file was not refused. *)
LEMMA ParseArgsSound ==
    ASSUME NEW argv \in Seq(Option)
    PROVE  /\ parse_args(argv).verdict = "start" => ListsTheServers(parse_args(argv).inf_list, argv)
           /\ parse_args(argv).verdict \in {"start", "kill"} =>
                \E n \in 0 .. Len(argv) :
                    /\ \A m \in 1 .. n : ~Refused(argv[m])
                    /\ n = Len(argv) \/ argv[n + 1].opt = "k"
<1> DEFINE f == CHOOSE f : IsAfter(f, argv)
           g == f[Len(argv)]
           p == parse_args(argv)
<1>1. IsAfter(f, argv)
  BY AfterExists
<1>2. Sound(g, argv, Len(argv)) /\ Len(argv) \in Nat
  <2> HIDE DEF f
  <2> QED BY <1>1, LoopSound
<1>3. p = IF g.verdict = "start" /\ \E n \in DOMAIN argv : argv[n].opt = "word"
          THEN [g EXCEPT !.verdict = "refuse"] ELSE g
  BY DEF parse_args, IsAfter
<1> HIDE DEF f, g, p
<1>4. p = g \/ p.verdict = "refuse"
  BY <1>2, <1>3 DEF Sound, GlobalValues
<1>5. SubSeq(argv, 1, Len(argv)) = argv
  OBVIOUS
<1>6. p.verdict = "start" => ListsTheServers(p.inf_list, argv) /\ \A m \in 1 .. Len(argv) : ~Refused(argv[m])
  BY <1>2, <1>4, <1>5 DEF Sound
<1>7. ASSUME p.verdict = "kill"
      PROVE  \E n \in 0 .. Len(argv) : argv[n + 1].opt = "k" /\ \A m \in 1 .. n : ~Refused(argv[m])
  <2>1. PICK k \in 0 .. Len(argv) - 1 : argv[k + 1].opt = "k" /\ \A m \in 1 .. k : ~Refused(argv[m])
    BY <1>2, <1>4, <1>7 DEF Sound
  <2>2. k \in 0 .. Len(argv)
    BY <1>2
  <2> QED BY <2>1, <2>2
<1> QED BY <1>2, <1>6, <1>7 DEF p
---------------------------------------------------------------------------
(* Who gets how far with which command line.                               *)

LEMMA AdmittedOf ==
    ASSUME TypeOK, CommandsInv, NEW p \in Pids, NEW v, Admitted(v), proc' = [proc EXCEPT ![p] = v]
    PROVE  CommandsInv'
<1>1. proc'[p] = v /\ \A r \in Pids : r # p => proc'[r] = proc[r]
  BY DEF TypeOK
<1>2. \A r \in Pids : Admitted(proc'[r])
  BY <1>1 DEF CommandsInv
<1> QED BY <1>2 DEF CommandsInv

LEMMA NoneAdmitted == Admitted(NoProc)
BY DEF Admitted, NoProc, Starting

(* With a command line that starts the program a process may be anywhere.  *)
LEMMA StartAdmitted ==
    ASSUME NEW v, NEW w, Admitted(v), w.cmd = v.cmd,
           \/ v.pc \in {"create", "init", "fork", "write", "run", "select", "maintain"}
           \/ v.handling # {}
    PROVE  Admitted(w)
BY DEF Admitted

(* Moves within kill_current(), and ways out.                              *)
LEMMA AdmittedSame ==
    ASSUME NEW v, NEW w, Admitted(v), w.cmd = v.cmd, w.handling = v.handling,
           \/ w.pc = v.pc
           \/ w.pc \in {"other", "cleanexit", "closing"}
           \/ w.pc \in {"open", "wait", "unlink"} /\ v.pc \in {"stat", "open", "wait"}
    PROVE  Admitted(w)
BY DEF Admitted, Starting

LEMMA AdmittedGoto ==
    ASSUME TypeOK, CommandsInv, NEW p \in Pids, NEW place \in Places, Goto(p, place),
           \/ place \in {"other", "cleanexit", "closing"}
           \/ place \in {"open", "wait", "unlink"} /\ proc[p].pc \in {"stat", "open", "wait"}
           \/ proc[p].pc \in {"create", "init", "fork", "write", "run", "select", "maintain"}
    PROVE  CommandsInv'
<1> DEFINE v == [proc[p] EXCEPT !.pc = place]
<1>1. proc[p] \in Proc /\ proc' = [proc EXCEPT ![p] = v]
  BY GotoEffect DEF TypeOK
<1>2. v.pc = place /\ v.cmd = proc[p].cmd /\ v.handling = proc[p].handling
  BY <1>1 DEF Proc
<1>3. Admitted(proc[p])
  BY DEF CommandsInv
<1> HIDE DEF v
<1>4. Admitted(v)
  BY <1>2, <1>3, StartAdmitted, AdmittedSame
<1> QED BY <1>1, <1>4, AdmittedOf

LEMMA AdmittedExit ==
    ASSUME TypeOK, CommandsInv, NEW p \in Pids, Exit(p)
    PROVE  CommandsInv'
<1>1. proc' = [proc EXCEPT ![p] = NoProc]
  BY DEF Exit, Ended
<1> QED BY <1>1, NoneAdmitted, AdmittedOf

LEMMA AdmittedKill ==
    ASSUME TypeOK, CommandsInv, NEW q \in Pids, NEW s \in Signals, NEW r \in Pids
    PROVE  Admitted(kill(q, s)[r])
<1> DEFINE k == kill(q, s)
           w == [proc[q] EXCEPT !.pending = @ \cup {s}]
<1>1. /\ \A t \in Pids : t # q => k[t] = proc[t]
      /\ k[q] = NoProc \/ k[q] = proc[q] \/ k[q] = w
  BY KillEffect
<1>2. Admitted(proc[q]) /\ Admitted(proc[r]) /\ proc[q] \in Proc
  BY DEF CommandsInv, TypeOK
<1>3. w.pc = proc[q].pc /\ w.cmd = proc[q].cmd /\ w.handling = proc[q].handling
  BY <1>2 DEF Proc
<1> HIDE DEF k, w
<1>4. Admitted(w)
  BY <1>2, <1>3, AdmittedSame
<1>5. Admitted(k[r])
  BY <1>1, <1>2, <1>4, NoneAdmitted
<1> QED BY <1>5 DEF k

(* The end of kill_current(): with -k it is the end of the process.        *)
LEMMA AdmittedReturn ==
    ASSUME TypeOK, CommandsInv, NEW p \in Pids, proc[p].pc \in Starting, KillReturns(p)
    PROVE  CommandsInv'
<1> DEFINE v == [proc[p] EXCEPT !.pc = "create", !.pid = Nothing]
<1>1. proc[p] \in Proc /\ Admitted(proc[p])
  BY DEF TypeOK, CommandsInv
<1>2. CASE Exit(p)
  BY <1>2, AdmittedExit
<1>3. CASE ~Exit(p)
  <2>1. Global(p).verdict # "kill" /\ proc' = [proc EXCEPT ![p].pc = "create", ![p].pid = Nothing]
    BY <1>3 DEF KillReturns
  <2>2. proc' = [proc EXCEPT ![p] = v]
    BY <2>1, <1>1 DEF TypeOK
  <2>3. v.pc = "create" /\ v.cmd = proc[p].cmd
    BY <1>1 DEF Proc
  <2>4. v.cmd \in Commands /\ Parsed[v.cmd].verdict = "start"
    BY <2>1, <2>3, <1>1 DEF Global, Admitted
  <2> HIDE DEF v
  <2>5. Admitted(v)
    BY <2>3, <2>4 DEF Admitted
  <2> QED BY <2>2, <2>5, AdmittedOf
<1> QED BY <1>2, <1>3

LEMMA CommandsStarts ==
    ASSUME TypeOK, CommandsInv, NEW p \in Pids,
           StatPidFile(p) \/ KillRunning(p) \/ wait_for_exit(p) \/ Unlink(p) \/ CreatePidFile(p)
    PROVE  CommandsInv'
<1>1. proc \in [Pids -> Proc] /\ proc[p] \in Proc /\ Admitted(proc[p])
  BY DEF TypeOK, CommandsInv
<1>2. CASE StatPidFile(p)
  <2>1. proc[p].pc = "stat" /\ (KillReturns(p) \/ Goto(p, "open"))
    BY <1>2 DEF StatPidFile
  <2> QED BY <2>1, AdmittedReturn, AdmittedGoto DEF Places, Starting
<1>3. CASE wait_for_exit(p)
  <2>1. proc[p].pc = "wait" /\ Goto(p, "unlink")
    BY <1>3 DEF wait_for_exit
  <2> QED BY <2>1, AdmittedGoto DEF Places, Starting
<1>4. CASE Unlink(p)
  <2>1. proc[p].pc = "unlink" /\ KillReturns(p)
    BY <1>4 DEF Unlink
  <2> QED BY <2>1, AdmittedReturn DEF Starting
<1>5. CASE CreatePidFile(p)
  <2>0. proc[p].pc = "create"
    BY <1>5 DEF CreatePidFile
  <2>1. CASE Goto(p, "cleanexit")
    BY <2>1, AdmittedGoto DEF Places
  <2>2. CASE ~Goto(p, "cleanexit")
    <3>1. PICK f \in Inodes : proc' = [proc EXCEPT ![p].pc = "init", ![p].filep = f]
      BY <1>5, <2>2 DEF CreatePidFile
    <3> DEFINE v == [proc[p] EXCEPT !.pc = "init", !.filep = f]
    <3>2. proc' = [proc EXCEPT ![p] = v] /\ v.cmd = proc[p].cmd
      BY <3>1, <1>1 DEF Proc
    <3> HIDE DEF v
    <3>3. Admitted(v)
      BY <3>2, <2>0, <1>1, StartAdmitted
    <3> QED BY <3>2, <3>3, AdmittedOf
  <2> QED BY <2>1, <2>2
<1>6. CASE KillRunning(p)
  <2>0. proc[p].pc = "open"
    BY <1>6 DEF KillRunning
  <2>1. CASE Exit(p)
    BY <2>1, AdmittedExit
  <2>2. CASE Goto(p, "unlink")
    BY <2>0, <2>2, AdmittedGoto DEF Places, Starting
  <2>3. CASE ~Exit(p) /\ ~Goto(p, "unlink")
    <3>0. content \in Pids /\ content # p
      BY <1>6, <2>3 DEF KillRunning, TypeOK
    <3> PICK q \in Pids : q = content
      BY <3>0
    <3>1. \/ proc' = [kill(q, "TERM") EXCEPT ![p].pc = "wait", ![p].pid = q]
          \/ proc' = [proc EXCEPT ![p].pc = "wait", ![p].pid = q]
      BY <1>6, <2>3 DEF KillRunning
    <3>2. PICK k \in [Pids -> Proc] : /\ proc' = [k EXCEPT ![p].pc = "wait", ![p].pid = q]
                                      /\ k[p] = proc[p] /\ \A r \in Pids : Admitted(k[r])
      <4>1. "TERM" \in Signals
        BY DEF Signals, Deadly
      <4>2. kill(q, "TERM") \in [Pids -> Proc] /\ \A r \in Pids : r # q => kill(q, "TERM")[r] = proc[r]
        BY <4>1, KillEffect
      <4>3. \A r \in Pids : Admitted(kill(q, "TERM")[r])
        BY <4>1, AdmittedKill
      <4>4. kill(q, "TERM")[p] = proc[p]
        BY <4>2, <3>0
      <4> QED BY <3>1, <4>2, <4>3, <4>4, <1>1 DEF CommandsInv
    <3> DEFINE v == [k[p] EXCEPT !.pc = "wait", !.pid = q]
    <3>3. proc'[p] = v /\ \A r \in Pids : r # p => proc'[r] = k[r]
      BY <3>2
    <3>4. v.pc = "wait" /\ v.cmd = proc[p].cmd /\ v.handling = proc[p].handling
      BY <3>2, <1>1 DEF Proc
    <3> HIDE DEF v
    <3>5. Admitted(v)
      BY <1>1, <2>0, <3>4, AdmittedSame
    <3> QED BY <3>2, <3>3, <3>5 DEF CommandsInv
  <2> QED BY <2>1, <2>2, <2>3
<1> QED BY <1>2, <1>3, <1>4, <1>5, <1>6

(* From sem_init() to the end nothing asks for the command line again.     *)
LEMMA CommandsRest ==
    ASSUME TypeOK, CommandsInv, NEW p \in Pids,
           \/ InitAll(p) \/ Fork(p) \/ WritePid(p) \/ Run(p)
           \/ sig_handler(p) \/ HandlerAgain(p) \/ cleanexit(p) \/ Interrupted(p)
    PROVE  CommandsInv'
<1>1. proc \in [Pids -> Proc] /\ proc[p] \in Proc /\ Admitted(proc[p])
  BY DEF TypeOK, CommandsInv
<1>2. ASSUME NEW v, proc' = [proc EXCEPT ![p] = v], v.cmd = proc[p].cmd,
             \/ proc[p].pc \in {"create", "init", "fork", "write", "run", "select", "maintain"}
             \/ proc[p].handling # {}
             \/ v.handling = proc[p].handling /\ v.pc = "closing"
      PROVE  CommandsInv'
  <2>1. Admitted(v)
    BY <1>1, <1>2, StartAdmitted, AdmittedSame
  <2> QED BY <1>2, <2>1, AdmittedOf
<1>3. CASE InitAll(p)
  <2>1. PICK place \in Places : proc' = [proc EXCEPT ![p].pc = place, ![p].dnrd_sem = "free"]
    BY <1>3 DEF InitAll, SemInit, Places, Starting
  <2> DEFINE v == [proc[p] EXCEPT !.pc = place, !.dnrd_sem = "free"]
  <2>2. proc[p].pc = "init" /\ proc' = [proc EXCEPT ![p] = v] /\ v.cmd = proc[p].cmd
    BY <1>1, <1>3, <2>1 DEF Proc, InitAll
  <2> HIDE DEF v
  <2> QED BY <2>2, <1>2
<1>4. CASE Fork(p)
  <2>1. proc[p].pc = "fork"
    BY <1>4 DEF Fork
  <2>2. CASE Goto(p, "write") \/ Goto(p, "cleanexit")
    BY <2>1, <2>2, AdmittedGoto DEF Places, Starting
  <2>3. CASE ~Goto(p, "write") /\ ~Goto(p, "cleanexit")
    <3>1. PICK q \in Pids : proc' = [proc EXCEPT ![q] = [proc[p] EXCEPT !.pc = "write"], ![p] = NoProc]
      BY <1>4, <2>3 DEF Fork
    <3> DEFINE v == [proc[p] EXCEPT !.pc = "write"]
    <3>2. \A r \in Pids : proc'[r] = NoProc \/ proc'[r] = v \/ proc'[r] = proc[r]
      BY <3>1, <1>1
    <3>3. v.cmd = proc[p].cmd
      BY <1>1 DEF Proc
    <3> HIDE DEF v
    <3>4. Admitted(v)
      BY <1>1, <2>1, <3>3, StartAdmitted
    <3> QED BY <3>2, <3>4, NoneAdmitted DEF CommandsInv
  <2> QED BY <2>2, <2>3
<1>5. CASE WritePid(p)
  <2> DEFINE v == [proc[p] EXCEPT !.pc = "run", !.filep = Nothing]
  <2>1. proc[p].pc = "write" /\ proc' = [proc EXCEPT ![p] = v] /\ v.cmd = proc[p].cmd
    BY <1>1, <1>5 DEF Proc, WritePid
  <2> HIDE DEF v
  <2> QED BY <2>1, <1>2
<1>6. CASE Run(p)
  <2>1. proc[p].pc = "run" /\ Goto(p, "select")
    BY <1>6 DEF Run
  <2> QED BY <2>1, AdmittedGoto DEF Places
<1>7. CASE sig_handler(p)
  <2> DEFINE h == proc[p].pending \cap Deadly
             v == [proc[p] EXCEPT !.pc = "cleanexit", !.pending = {}, !.handling = h]
             w == [proc[p] EXCEPT !.pc = "maintain", !.pending = {}, !.master_reload = 1]
  <2>1. proc[p].pc = "select" /\ (proc' = [proc EXCEPT ![p] = v] \/ proc' = [proc EXCEPT ![p] = w])
    BY <1>1, <1>7 DEF sig_handler
  <2>2. v.cmd = proc[p].cmd /\ w.cmd = proc[p].cmd
    BY <1>1 DEF Proc
  <2> HIDE DEF v, w
  <2> QED BY <2>1, <2>2, <1>2
<1>8. CASE HandlerAgain(p)
  <2>1. PICK s \in (proc[p].pending \cap Deadly) \ proc[p].handling :
            proc' = [proc EXCEPT ![p].pending = @ \ {s}, ![p].handling = @ \cup {s}, ![p].pc = "cleanexit"]
    BY <1>8 DEF HandlerAgain
  <2> DEFINE v == [proc[p] EXCEPT !.pending = @ \ {s}, !.handling = @ \cup {s}, !.pc = "cleanexit"]
  <2>2. proc[p].handling # {} /\ proc' = [proc EXCEPT ![p] = v] /\ v.cmd = proc[p].cmd
    BY <1>1, <1>8, <2>1 DEF Proc, HandlerAgain
  <2> HIDE DEF v
  <2> QED BY <2>2, <1>2
<1>9. CASE cleanexit(p)
  <2> DEFINE v == [proc[p] EXCEPT !.pc = "closing", !.dnrd_sem = "taken"]
  <2>1. proc' = [proc EXCEPT ![p] = v]
    BY <1>1, <1>9 DEF cleanexit
  <2>2. v.cmd = proc[p].cmd /\ v.handling = proc[p].handling /\ v.pc = "closing"
    BY <1>1 DEF Proc
  <2> HIDE DEF v
  <2> QED BY <2>1, <2>2, <1>2
<1>10. CASE Interrupted(p)
  <2>0. proc[p].pc = "maintain"
    BY <1>10 DEF Interrupted
  <2>1. CASE Goto(p, "select")
    BY <2>0, <2>1, AdmittedGoto DEF Places
  <2>2. CASE proc' = [proc EXCEPT ![p].pc = "select", ![p].master_reload = 0]
    <3> DEFINE v == [proc[p] EXCEPT !.pc = "select", !.master_reload = 0]
    <3>1. proc' = [proc EXCEPT ![p] = v] /\ v.cmd = proc[p].cmd
      BY <2>2, <1>1 DEF Proc
    <3> HIDE DEF v
    <3> QED BY <3>1, <2>0, <1>2
  <2> QED BY <1>10, <2>1, <2>2 DEF Interrupted
<1> QED BY <1>3, <1>4, <1>5, <1>6, <1>7, <1>8, <1>9, <1>10

LEMMA CommandsAround ==
    ASSUME TypeOK, CommandsInv, NEW p \in Pids,
           Start(p) \/ OtherProgram(p) \/ Crash(p) \/ Close(p) \/ Signal(p) \/ ParseArgs(p)
    PROVE  CommandsInv'
<1>1. proc \in [Pids -> Proc] /\ proc[p] \in Proc /\ Admitted(proc[p])
  BY DEF TypeOK, CommandsInv
<1>2. CASE Start(p)
  <2>1. PICK c \in Commands, u \in Uids :
            proc' = [proc EXCEPT ![p] = [NoProc EXCEPT !.pc = "parse", !.cmd = c, !.uid = u]]
    BY <1>2 DEF Start
  <2> DEFINE v == [NoProc EXCEPT !.pc = "parse", !.cmd = c, !.uid = u]
  <2>2. v.pc = "parse" /\ v.cmd = c /\ v.handling = {}
    BY DEF NoProc
  <2> HIDE DEF v
  <2>3. Admitted(v)
    BY <2>2 DEF Admitted, Starting
  <2> QED BY <2>1, <2>3, AdmittedOf DEF v
<1>3. CASE OtherProgram(p)
  BY <1>3, AdmittedExit, AdmittedGoto DEF OtherProgram, Places
<1>4. CASE Crash(p) \/ Close(p)
  BY <1>4, AdmittedExit DEF Crash, Close
<1>5. CASE Signal(p)
  <2>1. PICK s \in Signals : proc' = kill(p, s)
    BY <1>5 DEF Signal
  <2>2. \A r \in Pids : Admitted(kill(p, s)[r])
    BY AdmittedKill
  <2> QED BY <2>1, <2>2 DEF CommandsInv
<1>6. CASE ParseArgs(p)
  <2>1. CASE Exit(p)
    BY <2>1, AdmittedExit
  <2>2. CASE ~Exit(p)
    <3> DEFINE v == [proc[p] EXCEPT !.pc = "stat"]
    <3>1. proc[p].pc = "parse" /\ Global(p).verdict \in {"start", "kill"} /\ Goto(p, "stat")
      BY <1>6, <2>2 DEF ParseArgs
    <3>2. proc' = [proc EXCEPT ![p] = v]
      BY <3>1, GotoEffect DEF Places, Starting
    <3>3. v.pc = "stat" /\ v.cmd = proc[p].cmd /\ v.handling = proc[p].handling
      BY <1>1 DEF Proc
    <3>4. v.cmd \in Commands /\ Parsed[v.cmd].verdict \in {"start", "kill"}
      BY <3>1, <3>3, <1>1 DEF Global, Admitted
    <3> HIDE DEF v
    <3>5. Admitted(v)
      BY <3>1, <3>3, <3>4, <1>1 DEF Admitted, Starting
    <3> QED BY <3>2, <3>5, AdmittedOf
  <2> QED BY <2>1, <2>2
<1> QED BY <1>2, <1>3, <1>4, <1>5, <1>6

\* A daemon has the servers of its command line, in the order in which next_active()
\* tries them, whatever the command line; nobody gets to the pid file with one that
\* parse_args() refuses before a -k.
THEOREM ServersOfTheCommandLine == Spec => []ServersInOrder
<1>1. Init => TypeOK /\ CommandsInv
  BY InitInv, NoneAdmitted DEF Init, IInv, CommandsInv
<1>2. TypeOK /\ CommandsInv /\ [Next]_vars => CommandsInv'
  <2> SUFFICES ASSUME TypeOK, CommandsInv, [Next]_vars PROVE CommandsInv'
    OBVIOUS
  <2>1. CASE UNCHANGED vars
    BY <2>1 DEF vars, CommandsInv
  <2>2. CASE Next
    <3> PICK p \in Pids : Step(p) \/ Start(p) \/ OtherProgram(p) \/ Crash(p) \/ Signal(p)
      BY <2>2 DEF Next
    <3> QED BY CommandsStarts, CommandsRest, CommandsAround DEF Step
  <2> QED BY <2>1, <2>2
<1>3. CommandsInv => ServersInOrder
  <2> SUFFICES ASSUME CommandsInv, NEW p \in Pids
               PROVE  /\ proc[p].pc \in {"create", "init", "fork", "write"} \/ Serving(p) =>
                            /\ Global(p).verdict = "start"
                            /\ ListsTheServers(Global(p).inf_list, proc[p].cmd)
                      /\ proc[p].pc \in Starting =>
                            \E n \in 0 .. Len(proc[p].cmd) :
                                /\ \A m \in 1 .. n : ~Refused(proc[p].cmd[m])
                                /\ n = Len(proc[p].cmd) \/ proc[p].cmd[n + 1].opt = "k"
    BY DEF ServersInOrder
  <2>1. Admitted(proc[p])
    BY DEF CommandsInv
  <2>2. ASSUME proc[p].cmd \in Commands
        PROVE  proc[p].cmd \in Seq(Option) /\ Global(p) = parse_args(proc[p].cmd)
                /\ Parsed[proc[p].cmd] = parse_args(proc[p].cmd)
    BY <2>2, LifecycleAssumption DEF LifecycleAssumption, Global, Parsed
  <2>3. ASSUME proc[p].pc \in {"create", "init", "fork", "write"} \/ Serving(p)
        PROVE  Global(p).verdict = "start" /\ ListsTheServers(Global(p).inf_list, proc[p].cmd)
    <3>1. proc[p].cmd \in Commands /\ Parsed[proc[p].cmd].verdict = "start"
      BY <2>1, <2>3 DEF Admitted, Serving, Armed
    <3> QED BY <3>1, <2>2, ParseArgsSound
  <2>4. ASSUME proc[p].pc \in Starting
        PROVE  \E n \in 0 .. Len(proc[p].cmd) :
                    /\ \A m \in 1 .. n : ~Refused(proc[p].cmd[m])
                    /\ n = Len(proc[p].cmd) \/ proc[p].cmd[n + 1].opt = "k"
    <3>1. proc[p].cmd \in Commands /\ Parsed[proc[p].cmd].verdict \in {"start", "kill"}
      BY <2>1, <2>4 DEF Admitted
    <3> QED BY <3>1, <2>2, ParseArgsSound
  <2> QED BY <2>3, <2>4
<1> QED BY <1>1, <1>2, <1>3, StepType, PTL DEF Spec

---------------------------------------------------------------------------
(* The end of a process that was told to.  How many steps it has left: a   *)
(* deadly signal of the other kind makes it begin again, but only once.    *)
StepsToEnd(v) ==
    (IF v.handling = Deadly THEN 0 ELSE 2) + (IF v.pc = "cleanexit" THEN 2 ELSE 1)

\* It takes a step to its end, or is only signalled.
TowardsEnd(p) ==
    \/ proc'[p] = NoProc
    \/ proc'[p].handling # {} /\ StepsToEnd(proc'[p]) < StepsToEnd(proc[p])
    \/ ~Step(p) /\ \E s \in SUBSET Signals : proc'[p] = [proc[p] EXCEPT !.pending = s]

LEMMA OnlySignalled ==
    ASSUME TypeOK, NEW p \in Pids, NEW s \in Signals,
           proc'[p] \in {proc[p], [proc[p] EXCEPT !.pending = @ \cup {s}]}
    PROVE  \E t \in SUBSET Signals : proc'[p] = [proc[p] EXCEPT !.pending = t]
<1>1. proc[p] \in Proc
  BY DEF TypeOK
<1>2. CASE proc'[p] = proc[p]
  <2>1. proc[p] = [proc[p] EXCEPT !.pending = proc[p].pending] /\ proc[p].pending \in SUBSET Signals
    BY <1>1 DEF Proc
  <2> QED BY <1>2, <2>1
<1>3. CASE proc'[p] = [proc[p] EXCEPT !.pending = @ \cup {s}]
  <2>1. proc[p].pending \cup {s} \in SUBSET Signals
    BY <1>1 DEF Proc
  <2> QED BY <1>3, <2>1
<1> QED BY <1>2, <1>3

(* Its own steps: the handler again, the semaphore, the end.               *)
LEMMA OwnStepTowards ==
    ASSUME IInv, NEW p \in Pids, proc[p].handling # {}, Step(p)
    PROVE  TowardsEnd(p)
<1>1. /\ proc \in [Pids -> Proc] /\ proc[p] \in Proc /\ proc[p].handling \in SUBSET Deadly
      /\ proc[p].pc \in {"cleanexit", "closing"}
  BY DEF IInv, TypeOK, Safe, Placed, Proc
<1>2. HandlerAgain(p) \/ cleanexit(p) \/ Close(p)
  BY <1>1 DEF Step, ParseArgs, StatPidFile, KillRunning, wait_for_exit, Unlink, CreatePidFile,
              InitAll, Fork, WritePid, Run, sig_handler, Interrupted
<1>3. CASE Close(p)
  BY <1>1, <1>3 DEF Close, Exit, Ended, TowardsEnd
<1>4. CASE cleanexit(p)
  <2>1. /\ proc[p].pc = "cleanexit" /\ proc'[p].pc = "closing"
        /\ proc'[p].handling = proc[p].handling
    BY <1>1, <1>4 DEF cleanexit, Proc
  <2>2. StepsToEnd(proc'[p]) < StepsToEnd(proc[p])
    <3>1. CASE proc[p].handling = Deadly
      BY <2>1, <3>1 DEF StepsToEnd
    <3>2. CASE proc[p].handling # Deadly
      BY <2>1, <3>2 DEF StepsToEnd
    <3> QED BY <3>1, <3>2
  <2> QED BY <2>1, <2>2 DEF TowardsEnd
<1>5. CASE HandlerAgain(p)
  <2>1. PICK s \in (proc[p].pending \cap Deadly) \ proc[p].handling :
            proc' = [proc EXCEPT ![p].pending = @ \ {s}, ![p].handling = @ \cup {s}, ![p].pc = "cleanexit"]
    BY <1>5 DEF HandlerAgain
  <2>2. proc'[p].handling = proc[p].handling \cup {s} /\ proc'[p].pc = "cleanexit"
    BY <2>1, <1>1 DEF Proc
  <2>3. proc[p].handling # Deadly /\ proc'[p].handling = Deadly
    BY <1>1, <2>1, <2>2 DEF Deadly
  <2>4. StepsToEnd(proc'[p]) = 2 /\ StepsToEnd(proc[p]) > 2
    BY <2>2, <2>3 DEF StepsToEnd
  <2>5. proc'[p].handling # {} /\ StepsToEnd(proc'[p]) < StepsToEnd(proc[p])
    BY <2>3, <2>4 DEF Deadly
  <2> QED BY <2>5 DEF TowardsEnd
<1> QED BY <1>2, <1>3, <1>4, <1>5

(* The others can only signal it: it is not one to fork to.                *)
LEMMA OtherStepTowards ==
    ASSUME IInv, NEW p \in Pids, proc[p].handling # {}, NEW q \in Pids, q # p, Step(q)
    PROVE  \/ proc'[p] = NoProc
           \/ \E s \in SUBSET Signals : proc'[p] = [proc[p] EXCEPT !.pending = s]
<1>1. /\ proc \in [Pids -> Proc] /\ proc[p] \in Proc /\ proc[p].pc \in {"cleanexit", "closing"}
  BY DEF IInv, TypeOK, Safe, Placed, Proc
<1>2. "TERM" \in Signals /\ TypeOK
  BY DEF Signals, Deadly, IInv
<1>3. ASSUME proc'[p] = proc[p]
      PROVE  \E s \in SUBSET Signals : proc'[p] = [proc[p] EXCEPT !.pending = s]
  BY <1>2, <1>3, OnlySignalled
<1>4. CASE ParseArgs(q) \/ StatPidFile(q) \/ wait_for_exit(q) \/ Unlink(q)
  BY <1>1, <1>3, <1>4 DEF ParseArgs, StatPidFile, wait_for_exit, Unlink, KillReturns, Goto, Exit, Ended
<1>5. CASE CreatePidFile(q) \/ InitAll(q)
  BY <1>1, <1>3, <1>5 DEF CreatePidFile, InitAll, Goto
<1>6. CASE WritePid(q) \/ Run(q) \/ sig_handler(q) \/ HandlerAgain(q) \/ cleanexit(q) \/ Close(q) \/ Interrupted(q)
  BY <1>1, <1>3, <1>6 DEF WritePid, Run, sig_handler, HandlerAgain, cleanexit, Close, Interrupted, Goto, Exit, Ended
<1>7. CASE Fork(q)
  <2>1. CASE \E r \in Pids : /\ proc[r].pc = "none"
                             /\ proc' = [proc EXCEPT ![r] = [proc[q] EXCEPT !.pc = "write"], ![q] = NoProc]
    BY <1>1, <1>3, <2>1
  <2>2. CASE Goto(q, "write") \/ Goto(q, "cleanexit")
    BY <1>1, <1>3, <2>2 DEF Goto
  <2> QED BY <1>7, <2>1, <2>2 DEF Fork
<1>8. CASE KillRunning(q)
  <2>1. CASE Exit(q) \/ Goto(q, "unlink")
    BY <1>1, <1>3, <2>1 DEF Exit, Ended, Goto
  <2>2. CASE ~(Exit(q) \/ Goto(q, "unlink"))
    <3> DEFINE t == content
               may == t \in Pids /\ (proc[q].uid = "root" \/ proc[t].uid = "user")
               k == kill(t, "TERM")
               killed == IF may THEN k ELSE proc
    <3>1. t \in Pids /\ proc' = [killed EXCEPT ![q].pc = "wait", ![q].pid = t]
      BY <1>8, <2>2 DEF KillRunning, IInv, TypeOK
    <3>2. /\ k \in [Pids -> Proc] /\ \A r \in Pids : r # t => k[r] = proc[r]
          /\ k[t] \in {NoProc, proc[t], [proc[t] EXCEPT !.pending = @ \cup {"TERM"}]}
      BY <1>2, <3>1, KillEffect
    <3> HIDE DEF k
    <3>3. killed \in {k, proc}
      BY DEF k
    <3> HIDE DEF killed
    <3>4. killed \in [Pids -> Proc]
      BY <3>2, <3>3, <1>1
    <3>5. proc'[p] = killed[p]
      BY <3>1, <3>4
    <3>6. killed[p] \in {NoProc, proc[p], [proc[p] EXCEPT !.pending = @ \cup {"TERM"}]}
      BY <3>2, <3>3
    <3> HIDE DEF t
    <3>7. proc'[p] = NoProc \/ proc'[p] \in {proc[p], [proc[p] EXCEPT !.pending = @ \cup {"TERM"}]}
      BY <3>5, <3>6
    <3> QED BY <1>2, <3>7, OnlySignalled
  <2> QED BY <2>1, <2>2
<1> QED BY <1>4, <1>5, <1>6, <1>7, <1>8 DEF Step

(* What else happens to it: a crash, a signal.                             *)
LEMMA AroundTowards ==
    ASSUME IInv, NEW p \in Pids, proc[p].handling # {}, NEW q \in Pids,
           Start(q) \/ OtherProgram(q) \/ Crash(q) \/ Signal(q)
    PROVE  \/ proc'[p] = NoProc
           \/ \E s \in SUBSET Signals : proc'[p] = [proc[p] EXCEPT !.pending = s]
<1>1. /\ proc \in [Pids -> Proc] /\ proc[p] \in Proc /\ proc[p].pc \in {"cleanexit", "closing"} /\ TypeOK
  BY DEF IInv, TypeOK, Safe, Placed, Proc
<1>2. "TERM" \in Signals
  BY DEF Signals, Deadly
<1>3. ASSUME proc'[p] = proc[p]
      PROVE  \E s \in SUBSET Signals : proc'[p] = [proc[p] EXCEPT !.pending = s]
  BY <1>1, <1>2, <1>3, OnlySignalled
<1>4. CASE Start(q)
  <2>1. q # p
    BY <1>1, <1>4 DEF Start
  <2>2. PICK v : proc' = [proc EXCEPT ![q] = v]
    BY <1>4 DEF Start
  <2> QED BY <1>1, <1>3, <2>1, <2>2
<1>5. CASE OtherProgram(q)
  BY <1>1, <1>3, <1>5 DEF OtherProgram, Goto, Exit, Ended
<1>6. CASE Crash(q)
  <2>1. proc' = [proc EXCEPT ![q] = NoProc]
    BY <1>6 DEF Crash, Exit, Ended
  <2>2. CASE q = p
    BY <1>1, <2>1, <2>2
  <2>3. CASE q # p
    BY <1>1, <1>3, <2>1, <2>3
  <2> QED BY <2>2, <2>3
<1>7. CASE Signal(q)
  <2>1. PICK s \in Signals : proc' = kill(q, s)
    BY <1>7 DEF Signal
  <2>2. /\ \A r \in Pids : r # q => proc'[r] = proc[r]
        /\ proc'[q] \in {NoProc, proc[q], [proc[q] EXCEPT !.pending = @ \cup {s}]}
    BY <1>1, <2>1, KillEffect, ZenonT(60)
  <2>3. proc'[p] = NoProc \/ proc'[p] \in {proc[p], [proc[p] EXCEPT !.pending = @ \cup {s}]}
    BY <2>2
  <2> QED BY <1>1, <2>3, OnlySignalled
<1> QED BY <1>4, <1>5, <1>6, <1>7

LEMMA StepTowards ==
    ASSUME IInv, [Next]_vars, NEW p \in Pids, proc[p].handling # {}
    PROVE  TowardsEnd(p)
<1>1. CASE Step(p)
  BY <1>1, OwnStepTowards
<1>2. CASE ~Step(p)
  <2>1. ASSUME NEW q \in Pids, Step(q)
        PROVE  TowardsEnd(p)
    BY <1>2, <2>1, OtherStepTowards DEF TowardsEnd
  <2>2. ASSUME NEW q \in Pids, Start(q) \/ OtherProgram(q) \/ Crash(q) \/ Signal(q)
        PROVE  TowardsEnd(p)
    BY <1>2, <2>2, AroundTowards DEF TowardsEnd
  <2>3. CASE UNCHANGED vars
    <3>1. proc'[p] = proc[p] /\ TypeOK /\ "TERM" \in Signals
      BY <2>3 DEF vars, IInv, Signals, Deadly
    <3> QED BY <1>2, <3>1, OnlySignalled DEF TowardsEnd
  <2> QED BY <2>1, <2>2, <2>3 DEF Next
<1> QED BY <1>1, <1>2

(* sig_handler() and cleanexit(): once it handles a deadly signal a        *)
(* process takes at most four steps, whoever signals it how often: each    *)
(* step of its own ends it or leaves it fewer, and nobody gives it more.   *)
(* That it takes them, or hangs, is for the scheduler (StopsWhenTold).     *)
THEOREM EndsInFewSteps ==
    Spec => [][\A p \in Pids : proc[p].handling # {} =>
                    StepsToEnd(proc[p]) \in 1 .. 4 /\ TowardsEnd(p)]_vars
<1>1. IInv /\ [Next]_vars =>
        [\A p \in Pids : proc[p].handling # {} => StepsToEnd(proc[p]) \in 1 .. 4 /\ TowardsEnd(p)]_vars
  <2>1. \A p \in Pids : StepsToEnd(proc[p]) \in 1 .. 4
    BY DEF StepsToEnd
  <2> QED BY <2>1, StepTowards
<1> QED BY <1>1, Invariance, PTL DEF Spec
=============================================================================
