-------------------------- MODULE StopSourceProofs --------------------------
(***************************************************************************)
(* The safety of in_place_stop_source for any number of threads and        *)
(* callbacks.  The inductive invariant has four parts: who holds the spin  *)
(* lock and what the state word then is (LockInv), which callback each     *)
(* thread is constructing or destroying (OwnerInv), how far each callback  *)
(* has got (ExecInv) and the shape of the intrusive list (ListInv).        *)
(***************************************************************************)
EXTENDS StopSource, TLAPS

Stopping == {"loop", "popped", "body", "signal", "relock"}

\* t's request_stop() frame is working on callback c.
Active(t, c) == rs[t] \in {"popped", "body", "signal"} /\ cur[t] = c

LockInv ==
    /\ MutualExclusion
    /\ \A t \in Threads :
        /\ rs[t] \in Stopping => stopping = t
        /\ rs[t] = "loop" => state = {"locked", "stopped"}
        /\ op[t] = "link" => state = {"locked"}
        /\ op[t] = "unlink" => /\ state = saved[t] \cup {"locked"}
                               /\ "locked" \notin saved[t]
        /\ op[t] # "none" => rs[t] \in {"out", "body"}
        /\ t \in granted => stopping = t /\ rs[t] = "out"
        /\ t \in refused => "stopped" \in state
    /\ "stopped" \in state <=> stopping # NULL

Constructing == {"register", "link", "setsrc", "inline"}
Destroying   == {"unregister", "unlink", "selfremove", "wait"}

OwnerInv ==
    \A t \in Threads :
        /\ op[t] \in Constructing =>
              tgt[t] \in Callbacks /\ life[tgt[t]] = "constructing"
        /\ op[t] \in Destroying =>
              tgt[t] \in Callbacks /\ life[tgt[t]] = "destroying" /\ src[tgt[t]]
        /\ rs[t] \in {"popped", "body", "signal"} => cur[t] \in Callbacks
        /\ \A u \in Threads :
              op[t] # "none" /\ op[u] # "none" /\ tgt[t] = tgt[u] => t = u

\* Nothing has happened to c yet, beyond its construction having begun.
Fresh(c) ==
    /\ prev[c] = NULL /\ runs[c] = 0 /\ ~src[c] /\ ~execDone[c]
    /\ didRemove[c] = NULL
    /\ \A t \in Threads : ~Active(t, c)

\* The constructor ran c's body instead of registering it.
RanInline(c) ==
    /\ prev[c] = NULL /\ runs[c] = 1 /\ didRemove[c] = NULL /\ ~execDone[c]
    /\ \A t \in Threads : ~Active(t, c)

ExecInv ==
    /\ \A c \in Callbacks :
        /\ runs[c] \in {0, 1}
        /\ life[c] = "none" => Fresh(c)
        /\ Linked(c) => /\ runs[c] = 0 /\ ~execDone[c] /\ didRemove[c] = NULL
                        /\ \A t \in Threads : ~Active(t, c)
        /\ life[c] = "alive" /\ ~src[c] => RanInline(c)
        /\ life[c] # "dead" /\ didRemove[c] # NULL =>
              rs[didRemove[c]] = "body" /\ cur[didRemove[c]] = c
        /\ life[c] \in {"alive", "destroying"} =>
              Linked(c) \/ runs[c] = 1 \/ \E t \in Threads : Active(t, c)
    /\ \A t \in Threads :
        /\ op[t] \in {"register", "link"} => Fresh(tgt[t])
        /\ op[t] = "setsrc" =>
              Linked(tgt[t]) \/ runs[tgt[t]] = 1 \/ \E u \in Threads : Active(u, tgt[t])
        /\ op[t] = "inline" => RanInline(tgt[t]) /\ ~src[tgt[t]]
        /\ op[t] \in {"selfremove", "wait"} => prev[tgt[t]] = NULL
        /\ op[t] = "selfremove" => stopping = t
        /\ rs[t] = "popped" =>
              /\ runs[cur[t]] = 0 /\ life[cur[t]] # "dead" /\ prev[cur[t]] = NULL
              /\ ~execDone[cur[t]] /\ didRemove[cur[t]] = NULL
        /\ rs[t] = "body" =>
              /\ runs[cur[t]] = 1 /\ prev[cur[t]] = NULL
              /\ removed[t] => life[cur[t]] = "dead" /\ killer[cur[t]] = t
              /\ ~removed[t] => /\ life[cur[t]] # "dead" /\ ~execDone[cur[t]]
                                /\ didRemove[cur[t]] = t
        /\ rs[t] = "signal" =>
              /\ runs[cur[t]] = 1 /\ life[cur[t]] # "dead" /\ prev[cur[t]] = NULL
              /\ ~execDone[cur[t]] /\ didRemove[cur[t]] = NULL

\* No cycles, said without following pointers: of any set of linked callbacks,
\* some member's predecessor is outside the set.
Acyclic ==
    \A S \in SUBSET Callbacks :
        S # {} /\ (\A c \in S : Linked(c)) => \E w \in S : prev[w] \notin S

\* request_stop() returns true only with the list empty, and it stays empty.
Emptied == granted # {} => head = NULL

ListInv == ListPointers /\ Acyclic /\ Emptied

IInv == TypeOK /\ LockInv /\ OwnerInv /\ ExecInv /\ ListInv

-----------------------------------------------------------------------------
\* Types are preserved; the destructor's pointer surgery needs OwnerInv for
\* that: tgt is a callback.
LEMMA TypeStep == IInv /\ [Next]_vars => TypeOK'
<1> SUFFICES ASSUME IInv, [Next]_vars PROVE TypeOK' OBVIOUS
<1> USE StopConstants DEF IInv
<1>1. CASE UNCHANGED vars
    BY <1>1 DEF vars, srcVars, cbVars, rsVars, opVars, histVars, TypeOK, Bits,
       Lifetimes, RsPcs, OpPcs
<1>2. ASSUME NEW t \in Threads, CallRequestStop(t) PROVE TypeOK'
    BY <1>2 DEF CallRequestStop, srcVars, cbVars, opVars, histVars, TypeOK,
       Bits, Lifetimes, RsPcs, OpPcs
<1>3. ASSUME NEW t \in Threads, RequestStopRefused(t) PROVE TypeOK'
    BY <1>3 DEF RequestStopRefused, AlreadyStopped, srcVars, cbVars, opVars,
       TypeOK, Bits, Lifetimes, RsPcs, OpPcs
<1>4. ASSUME NEW t \in Threads, BeginStop(t) PROVE TypeOK'
    BY <1>4 DEF BeginStop, TryLockUnlessStopped, cbVars, opVars, histVars,
       TypeOK, Bits, Lifetimes, RsPcs, OpPcs
<1>5. ASSUME NEW t \in Threads, PopCallback(t) PROVE TypeOK'
    BY <1>5 DEF PopCallback, PopHead, opVars, histVars, TypeOK, Bits,
       Lifetimes, RsPcs, OpPcs
<1>6. ASSUME NEW t \in Threads, BeginExecute(t) PROVE TypeOK'
    BY <1>6 DEF BeginExecute, srcVars, opVars, TypeOK, Bits, Lifetimes, RsPcs,
       OpPcs, OwnerInv, Constructing, Destroying
<1>7. ASSUME NEW t \in Threads, EndExecute(t) PROVE TypeOK'
    BY <1>7 DEF EndExecute, AfterBody, srcVars, opVars, histVars, TypeOK, Bits,
       Lifetimes, RsPcs, OpPcs
<1>8. ASSUME NEW t \in Threads, SignalDone(t) PROVE TypeOK'
    BY <1>8 DEF SignalDone, StoreDone, srcVars, opVars, histVars, TypeOK, Bits,
       Lifetimes, RsPcs, OpPcs
<1>9. ASSUME NEW t \in Threads, Relock(t) PROVE TypeOK'
    BY <1>9 DEF Relock, Lock, cbVars, opVars, histVars, TypeOK, Bits,
       Lifetimes, RsPcs, OpPcs
<1>10. ASSUME NEW t \in Threads, EndStop(t) PROVE TypeOK'
    BY <1>10 DEF EndStop, Drained, cbVars, opVars, TypeOK, Bits, Lifetimes,
       RsPcs, OpPcs
<1>11. ASSUME NEW t \in Threads, LockToRegister(t) PROVE TypeOK'
    BY <1>11 DEF LockToRegister, TryLockUnlessStopped, cbVars, rsVars,
       histVars, TypeOK, Bits, Lifetimes, RsPcs, OpPcs
<1>12. ASSUME NEW t \in Threads, LinkCallback(t) PROVE TypeOK'
    BY <1>12 DEF LinkCallback, rsVars, histVars, TypeOK, Bits, Lifetimes,
       RsPcs, OpPcs
<1>13. ASSUME NEW t \in Threads, SetSource(t) PROVE TypeOK'
    BY <1>13 DEF SetSource, srcVars, rsVars, histVars, TypeOK, Bits, Lifetimes,
       RsPcs, OpPcs
<1>14. ASSUME NEW t \in Threads, BeginInline(t) PROVE TypeOK'
    BY <1>14 DEF BeginInline, AlreadyStopped, srcVars, cbVars, rsVars, TypeOK,
       Bits, Lifetimes, RsPcs, OpPcs, OwnerInv, Constructing, Destroying
<1>15. ASSUME NEW t \in Threads, EndInline(t) PROVE TypeOK'
    BY <1>15 DEF EndInline, srcVars, rsVars, histVars, TypeOK, Bits, Lifetimes,
       RsPcs, OpPcs
<1>16. ASSUME NEW t \in Threads, LockToUnregister(t) PROVE TypeOK'
    BY <1>16 DEF LockToUnregister, Lock, cbVars, rsVars, histVars, TypeOK,
       Bits, Lifetimes, RsPcs, OpPcs
<1>17. ASSUME NEW t \in Threads, UnlinkCallback(t) PROVE TypeOK'
    BY <1>17 DEF UnlinkCallback, Die, Splice, Restore, rsVars, TypeOK, Bits,
       Lifetimes, RsPcs, OpPcs, OwnerInv, Constructing, Destroying
<1>18. ASSUME NEW t \in Threads, FoundUnlinked(t) PROVE TypeOK'
    BY <1>18 DEF FoundUnlinked, Restore, IsStopper, cbVars, rsVars, histVars,
       TypeOK, Bits, Lifetimes, RsPcs, OpPcs
<1>19. ASSUME NEW t \in Threads, SelfRemove(t) PROVE TypeOK'
    BY <1>19 DEF SelfRemove, Die, srcVars, TypeOK, Bits, Lifetimes, RsPcs,
       OpPcs
<1>20. ASSUME NEW t \in Threads, WaitExecuted(t) PROVE TypeOK'
    BY <1>20 DEF WaitExecuted, Die, srcVars, rsVars, TypeOK, Bits, Lifetimes,
       RsPcs, OpPcs
<1>21. ASSUME NEW t \in Threads, NEW c \in Callbacks, Construct(t, c) PROVE TypeOK'
    BY <1>21 DEF Construct, InUserCode, srcVars, rsVars, histVars, TypeOK,
       Bits, Lifetimes, RsPcs, OpPcs
<1>22. ASSUME NEW t \in Threads, NEW c \in Callbacks, Destroy(t, c) PROVE TypeOK'
  <2>1. CASE src[c]
    BY <1>22, <2>1 DEF Destroy, srcVars, rsVars, TypeOK, Lifetimes, OpPcs
  <2>2. CASE ~src[c]
    BY <1>22, <2>2 DEF Destroy, Die, srcVars, rsVars, TypeOK, Lifetimes
  <2> QED BY <2>1, <2>2
<1> QED
  BY <1>1, <1>2, <1>3, <1>4, <1>5, <1>6, <1>7, <1>8, <1>9, <1>10, <1>11, <1>12,
     <1>13, <1>14, <1>15, <1>16, <1>17, <1>18, <1>19, <1>20, <1>21, <1>22
  DEF Next, LibraryStep, BodyReturns, UserStep

\* A critical section is entered only when the locked bit is clear and left by
\* restoring a word without it.
LEMMA LockStep == IInv /\ [Next]_vars => LockInv'
<1> SUFFICES ASSUME IInv, [Next]_vars PROVE LockInv' OBVIOUS
<1> USE StopConstants DEF IInv
<1>1. CASE UNCHANGED vars
    BY <1>1 DEF vars, srcVars, rsVars, opVars, histVars, LockInv,
       MutualExclusion, HoldsLock, Stopping
<1>2. ASSUME NEW t \in Threads, CallRequestStop(t) PROVE LockInv'
    BY <1>2 DEF CallRequestStop, srcVars, opVars, histVars, LockInv,
       MutualExclusion, HoldsLock, Stopping
<1>3. ASSUME NEW t \in Threads, RequestStopRefused(t) PROVE LockInv'
    BY <1>3 DEF RequestStopRefused, AlreadyStopped, srcVars, opVars, LockInv,
       MutualExclusion, HoldsLock, Stopping
<1>4. ASSUME NEW t \in Threads, BeginStop(t) PROVE LockInv'
    BY <1>4 DEF BeginStop, TryLockUnlessStopped, opVars, histVars, TypeOK,
       Bits, Lifetimes, RsPcs, OpPcs, LockInv, MutualExclusion, HoldsLock,
       Stopping
<1>5. ASSUME NEW t \in Threads, PopCallback(t) PROVE LockInv'
    BY <1>5 DEF PopCallback, PopHead, opVars, histVars, TypeOK, Bits,
       Lifetimes, RsPcs, OpPcs, LockInv, MutualExclusion, HoldsLock, Stopping
<1>6. ASSUME NEW t \in Threads, BeginExecute(t) PROVE LockInv'
    BY <1>6 DEF BeginExecute, srcVars, opVars, LockInv, MutualExclusion,
       HoldsLock, Stopping
<1>7. ASSUME NEW t \in Threads, EndExecute(t) PROVE LockInv'
    BY <1>7 DEF EndExecute, AfterBody, srcVars, opVars, histVars, TypeOK, Bits,
       Lifetimes, RsPcs, OpPcs, LockInv, MutualExclusion, HoldsLock, Stopping
<1>8. ASSUME NEW t \in Threads, SignalDone(t) PROVE LockInv'
    BY <1>8 DEF SignalDone, StoreDone, srcVars, opVars, histVars, LockInv,
       MutualExclusion, HoldsLock, Stopping
<1>9. ASSUME NEW t \in Threads, Relock(t) PROVE LockInv'
  <2>0. "stopped" \in state /\ "locked" \notin state
    BY <1>9 DEF Relock, Lock, LockInv, Stopping
  <2>1. state = {"stopped"} /\ \A u \in Threads : ~HoldsLock(u)
    <3>1. state = {"stopped"}
      BY <2>0 DEF TypeOK, Bits
    <3> QED BY <2>0, <3>1 DEF LockInv, MutualExclusion
  <2>2. /\ state' = {"locked", "stopped"}
        /\ rs' = [rs EXCEPT ![t] = "loop"]
        /\ UNCHANGED <<stopping, op, saved, granted, refused>>
    BY <1>9, <2>1 DEF Relock, Lock, opVars, histVars
  <2>3. MutualExclusion'
    BY <2>1, <2>2 DEF TypeOK, MutualExclusion, HoldsLock
  <2>4. \A u \in Threads : op[u] \notin {"link", "unlink"} /\ u \notin granted
    BY <1>9, <2>1 DEF Relock, HoldsLock, LockInv, Stopping
  <2> QED
    BY <1>9, <2>1, <2>2, <2>3, <2>4 DEF Relock, TypeOK, LockInv, Stopping
<1>10. ASSUME NEW t \in Threads, EndStop(t) PROVE LockInv'
    BY <1>10 DEF EndStop, Drained, opVars, TypeOK, Bits, Lifetimes, RsPcs,
       OpPcs, LockInv, MutualExclusion, HoldsLock, Stopping
<1>11. ASSUME NEW t \in Threads, LockToRegister(t) PROVE LockInv'
    BY <1>11 DEF LockToRegister, TryLockUnlessStopped, rsVars, histVars,
       TypeOK, Bits, Lifetimes, RsPcs, OpPcs, LockInv, MutualExclusion,
       HoldsLock, Stopping
<1>12. ASSUME NEW t \in Threads, LinkCallback(t) PROVE LockInv'
    BY <1>12 DEF LinkCallback, rsVars, histVars, TypeOK, Bits, Lifetimes,
       RsPcs, OpPcs, LockInv, MutualExclusion, HoldsLock, Stopping
<1>13. ASSUME NEW t \in Threads, SetSource(t) PROVE LockInv'
    BY <1>13 DEF SetSource, srcVars, rsVars, histVars, LockInv,
       MutualExclusion, HoldsLock, Stopping
<1>14. ASSUME NEW t \in Threads, BeginInline(t) PROVE LockInv'
    BY <1>14 DEF BeginInline, AlreadyStopped, srcVars, rsVars, LockInv,
       MutualExclusion, HoldsLock, Stopping
<1>15. ASSUME NEW t \in Threads, EndInline(t) PROVE LockInv'
    BY <1>15 DEF EndInline, srcVars, rsVars, histVars, LockInv,
       MutualExclusion, HoldsLock, Stopping
<1>16. ASSUME NEW t \in Threads, LockToUnregister(t) PROVE LockInv'
    BY <1>16 DEF LockToUnregister, Lock, rsVars, histVars, TypeOK, Bits,
       Lifetimes, RsPcs, OpPcs, LockInv, MutualExclusion, HoldsLock, Stopping
<1>17. ASSUME NEW t \in Threads, UnlinkCallback(t) PROVE LockInv'
    BY <1>17 DEF UnlinkCallback, Die, Splice, Restore, rsVars, TypeOK, Bits,
       Lifetimes, RsPcs, OpPcs, LockInv, MutualExclusion, HoldsLock, Stopping
<1>18. ASSUME NEW t \in Threads, FoundUnlinked(t) PROVE LockInv'
    BY <1>18 DEF FoundUnlinked, Restore, IsStopper, rsVars, histVars, TypeOK,
       Bits, Lifetimes, RsPcs, OpPcs, LockInv, MutualExclusion, HoldsLock,
       Stopping
<1>19. ASSUME NEW t \in Threads, SelfRemove(t) PROVE LockInv'
    BY <1>19 DEF SelfRemove, Die, srcVars, LockInv, MutualExclusion, HoldsLock,
       Stopping
<1>20. ASSUME NEW t \in Threads, WaitExecuted(t) PROVE LockInv'
    BY <1>20 DEF WaitExecuted, Die, srcVars, rsVars, LockInv, MutualExclusion,
       HoldsLock, Stopping
<1>21. ASSUME NEW t \in Threads, NEW c \in Callbacks, Construct(t, c) PROVE LockInv'
    BY <1>21 DEF Construct, InUserCode, srcVars, rsVars, histVars, LockInv,
       MutualExclusion, HoldsLock, Stopping
<1>22. ASSUME NEW t \in Threads, NEW c \in Callbacks, Destroy(t, c) PROVE LockInv'
    BY <1>22 DEF Destroy, InUserCode, Die, srcVars, rsVars, TypeOK, Bits,
       Lifetimes, RsPcs, OpPcs, LockInv, MutualExclusion, HoldsLock, Stopping
<1> QED
  BY <1>1, <1>2, <1>3, <1>4, <1>5, <1>6, <1>7, <1>8, <1>9, <1>10, <1>11, <1>12,
     <1>13, <1>14, <1>15, <1>16, <1>17, <1>18, <1>19, <1>20, <1>21, <1>22
  DEF Next, LibraryStep, BodyReturns, UserStep

\* No two threads construct or destroy the same callback.
LEMMA OwnerStep == IInv /\ [Next]_vars => OwnerInv'
<1> SUFFICES ASSUME IInv, [Next]_vars PROVE OwnerInv' OBVIOUS
<1> USE StopConstants DEF IInv
<1>1. CASE UNCHANGED vars
    BY <1>1 DEF vars, cbVars, rsVars, opVars, OwnerInv, Constructing,
       Destroying
<1>2. ASSUME NEW t \in Threads, CallRequestStop(t) PROVE OwnerInv'
    BY <1>2 DEF CallRequestStop, cbVars, opVars, OwnerInv, Constructing,
       Destroying
<1>3. ASSUME NEW t \in Threads, RequestStopRefused(t) PROVE OwnerInv'
    BY <1>3 DEF RequestStopRefused, AlreadyStopped, cbVars, opVars, OwnerInv,
       Constructing, Destroying
<1>4. ASSUME NEW t \in Threads, BeginStop(t) PROVE OwnerInv'
    BY <1>4 DEF BeginStop, TryLockUnlessStopped, cbVars, opVars, OwnerInv,
       Constructing, Destroying
<1>5. ASSUME NEW t \in Threads, PopCallback(t) PROVE OwnerInv'
    BY <1>5 DEF PopCallback, PopHead, opVars, TypeOK, Bits, Lifetimes, RsPcs,
       OpPcs, OwnerInv, Constructing, Destroying
<1>6. ASSUME NEW t \in Threads, BeginExecute(t) PROVE OwnerInv'
    BY <1>6 DEF BeginExecute, opVars, OwnerInv, Constructing, Destroying
<1>7. ASSUME NEW t \in Threads, EndExecute(t) PROVE OwnerInv'
    BY <1>7 DEF EndExecute, AfterBody, opVars, TypeOK, Bits, Lifetimes, RsPcs,
       OpPcs, OwnerInv, Constructing, Destroying
<1>8. ASSUME NEW t \in Threads, SignalDone(t) PROVE OwnerInv'
    BY <1>8 DEF SignalDone, StoreDone, opVars, OwnerInv, Constructing,
       Destroying
<1>9. ASSUME NEW t \in Threads, Relock(t) PROVE OwnerInv'
    BY <1>9 DEF Relock, Lock, cbVars, opVars, OwnerInv, Constructing,
       Destroying
<1>10. ASSUME NEW t \in Threads, EndStop(t) PROVE OwnerInv'
    BY <1>10 DEF EndStop, Drained, cbVars, opVars, OwnerInv, Constructing,
       Destroying
<1>11. ASSUME NEW t \in Threads, LockToRegister(t) PROVE OwnerInv'
    BY <1>11 DEF LockToRegister, TryLockUnlessStopped, cbVars, rsVars,
       OwnerInv, Constructing, Destroying
<1>12. ASSUME NEW t \in Threads, LinkCallback(t) PROVE OwnerInv'
    BY <1>12 DEF LinkCallback, rsVars, OwnerInv, Constructing, Destroying
<1>13. ASSUME NEW t \in Threads, SetSource(t) PROVE OwnerInv'
    BY <1>13 DEF SetSource, rsVars, TypeOK, Bits, Lifetimes, RsPcs, OpPcs,
       OwnerInv, Constructing, Destroying
<1>14. ASSUME NEW t \in Threads, BeginInline(t) PROVE OwnerInv'
    BY <1>14 DEF BeginInline, AlreadyStopped, cbVars, rsVars, OwnerInv,
       Constructing, Destroying
<1>15. ASSUME NEW t \in Threads, EndInline(t) PROVE OwnerInv'
    BY <1>15 DEF EndInline, rsVars, TypeOK, Bits, Lifetimes, RsPcs, OpPcs,
       OwnerInv, Constructing, Destroying
<1>16. ASSUME NEW t \in Threads, LockToUnregister(t) PROVE OwnerInv'
    BY <1>16 DEF LockToUnregister, Lock, cbVars, rsVars, OwnerInv,
       Constructing, Destroying
<1>17. ASSUME NEW t \in Threads, UnlinkCallback(t) PROVE OwnerInv'
    BY <1>17 DEF UnlinkCallback, Die, Splice, Restore, rsVars, TypeOK, Bits,
       Lifetimes, RsPcs, OpPcs, OwnerInv, Constructing, Destroying
<1>18. ASSUME NEW t \in Threads, FoundUnlinked(t) PROVE OwnerInv'
    BY <1>18 DEF FoundUnlinked, Restore, IsStopper, cbVars, rsVars, OwnerInv,
       Constructing, Destroying
<1>19. ASSUME NEW t \in Threads, SelfRemove(t) PROVE OwnerInv'
    BY <1>19 DEF SelfRemove, Die, TypeOK, Bits, Lifetimes, RsPcs, OpPcs,
       OwnerInv, Constructing, Destroying
<1>20. ASSUME NEW t \in Threads, WaitExecuted(t) PROVE OwnerInv'
    BY <1>20 DEF WaitExecuted, Die, rsVars, TypeOK, Bits, Lifetimes, RsPcs,
       OpPcs, OwnerInv, Constructing, Destroying
<1>21. ASSUME NEW t \in Threads, NEW c \in Callbacks, Construct(t, c) PROVE OwnerInv'
    BY <1>21 DEF Construct, InUserCode, rsVars, TypeOK, Bits, Lifetimes, RsPcs,
       OpPcs, OwnerInv, Constructing, Destroying
<1>22. ASSUME NEW t \in Threads, NEW c \in Callbacks, Destroy(t, c) PROVE OwnerInv'
    BY <1>22 DEF Destroy, InUserCode, Die, srcVars, rsVars, TypeOK, Bits,
       Lifetimes, RsPcs, OpPcs, OwnerInv, Constructing, Destroying
<1> QED
  BY <1>1, <1>2, <1>3, <1>4, <1>5, <1>6, <1>7, <1>8, <1>9, <1>10, <1>11, <1>12,
     <1>13, <1>14, <1>15, <1>16, <1>17, <1>18, <1>19, <1>20, <1>21, <1>22
  DEF Next, LibraryStep, BodyReturns, UserStep

\* A callback is in the list, or being executed, or done with, never two of
\* these.
LEMMA ExecStep == IInv /\ [Next]_vars => ExecInv'
<1> SUFFICES ASSUME IInv, [Next]_vars PROVE ExecInv' OBVIOUS
<1> USE StopConstants DEF IInv
<1>1. CASE UNCHANGED vars
    BY <1>1 DEF vars, srcVars, cbVars, rsVars, opVars, histVars, ExecInv,
       Fresh, RanInline, Active, Linked
<1>2. ASSUME NEW t \in Threads, CallRequestStop(t) PROVE ExecInv'
    BY <1>2 DEF CallRequestStop, srcVars, cbVars, opVars, histVars, ExecInv,
       Fresh, RanInline, Active, Linked
<1>3. ASSUME NEW t \in Threads, RequestStopRefused(t) PROVE ExecInv'
    BY <1>3 DEF RequestStopRefused, AlreadyStopped, srcVars, cbVars, opVars,
       ExecInv, Fresh, RanInline, Active, Linked
<1>4. ASSUME NEW t \in Threads, BeginStop(t) PROVE ExecInv'
    BY <1>4 DEF BeginStop, TryLockUnlessStopped, cbVars, opVars, histVars,
       LockInv, Stopping, ExecInv, Fresh, RanInline, Active, Linked
<1>5. ASSUME NEW t \in Threads, PopCallback(t) PROVE ExecInv'
    BY <1>5 DEF PopCallback, PopHead, opVars, histVars, TypeOK, Bits,
       Lifetimes, RsPcs, OpPcs, OwnerInv, Constructing, Destroying, ExecInv,
       Fresh, RanInline, Active, Linked, ListInv, ListPointers
<1>6. ASSUME NEW t \in Threads, BeginExecute(t) PROVE ExecInv'
    BY <1>6 DEF BeginExecute, opVars, TypeOK, Bits, Lifetimes, RsPcs, OpPcs,
       LockInv, OwnerInv, Constructing, Destroying, Stopping, ExecInv, Fresh,
       RanInline, Active, Linked
<1>7. ASSUME NEW t \in Threads, EndExecute(t) PROVE ExecInv'
    BY <1>7 DEF EndExecute, AfterBody, srcVars, opVars, histVars, TypeOK, Bits,
       Lifetimes, RsPcs, OpPcs, OwnerInv, Constructing, Destroying, ExecInv,
       Fresh, RanInline, Active, Linked
<1>8. ASSUME NEW t \in Threads, SignalDone(t) PROVE ExecInv'
    BY <1>8 DEF SignalDone, StoreDone, opVars, histVars, TypeOK, Bits,
       Lifetimes, RsPcs, OpPcs, LockInv, Stopping, ExecInv, Fresh, RanInline,
       Active, Linked
<1>9. ASSUME NEW t \in Threads, Relock(t) PROVE ExecInv'
    BY <1>9 DEF Relock, Lock, cbVars, opVars, histVars, ExecInv, Fresh,
       RanInline, Active, Linked
<1>10. ASSUME NEW t \in Threads, EndStop(t) PROVE ExecInv'
    BY <1>10 DEF EndStop, Drained, cbVars, opVars, ExecInv, Fresh, RanInline,
       Active, Linked
<1>11. ASSUME NEW t \in Threads, LockToRegister(t) PROVE ExecInv'
    BY <1>11 DEF LockToRegister, TryLockUnlessStopped, cbVars, rsVars,
       histVars, ExecInv, Fresh, RanInline, Active, Linked
<1>12. ASSUME NEW t \in Threads, LinkCallback(t) PROVE ExecInv'
    BY <1>12 DEF LinkCallback, rsVars, histVars, TypeOK, Bits, Lifetimes,
       RsPcs, OpPcs, OwnerInv, Constructing, Destroying, ExecInv, Fresh,
       RanInline, Active, Linked, ListInv, ListPointers
<1>13. ASSUME NEW t \in Threads, SetSource(t) PROVE ExecInv'
    BY <1>13 DEF SetSource, srcVars, rsVars, histVars, TypeOK, Bits, Lifetimes,
       RsPcs, OpPcs, OwnerInv, Constructing, Destroying, ExecInv, Fresh,
       RanInline, Active, Linked
<1>14. ASSUME NEW t \in Threads, BeginInline(t) PROVE ExecInv'
    BY <1>14 DEF BeginInline, AlreadyStopped, srcVars, cbVars, rsVars, TypeOK,
       Bits, Lifetimes, RsPcs, OpPcs, OwnerInv, Constructing, Destroying,
       ExecInv, Fresh, RanInline, Active, Linked
<1>15. ASSUME NEW t \in Threads, EndInline(t) PROVE ExecInv'
    BY <1>15 DEF EndInline, srcVars, rsVars, histVars, ExecInv, Fresh,
       RanInline, Active, Linked
<1>16. ASSUME NEW t \in Threads, LockToUnregister(t) PROVE ExecInv'
    BY <1>16 DEF LockToUnregister, Lock, cbVars, rsVars, histVars, ExecInv,
       Fresh, RanInline, Active, Linked
<1>17. ASSUME NEW t \in Threads, UnlinkCallback(t) PROVE ExecInv'
    BY <1>17 DEF UnlinkCallback, Die, Splice, Restore, rsVars, OwnerInv,
       Constructing, Destroying, ExecInv, Fresh, RanInline, Active, Linked,
       ListInv, ListPointers
<1>18. ASSUME NEW t \in Threads, FoundUnlinked(t) PROVE ExecInv'
    BY <1>18 DEF FoundUnlinked, Restore, IsStopper, cbVars, rsVars, histVars,
       ExecInv, Fresh, RanInline, Active, Linked
<1>19. ASSUME NEW t \in Threads, SelfRemove(t) PROVE ExecInv'
    BY <1>19 DEF SelfRemove, Die, TypeOK, Bits, Lifetimes, RsPcs, OpPcs,
       LockInv, OwnerInv, Constructing, Destroying, Stopping, ExecInv, Fresh,
       RanInline, Active, Linked
<1>20. ASSUME NEW t \in Threads, WaitExecuted(t) PROVE ExecInv'
    BY <1>20 DEF WaitExecuted, Die, srcVars, rsVars, OwnerInv, Constructing,
       Destroying, ExecInv, Fresh, RanInline, Active, Linked
<1>21. ASSUME NEW t \in Threads, NEW c \in Callbacks, Construct(t, c) PROVE ExecInv'
    BY <1>21 DEF Construct, InUserCode, srcVars, rsVars, histVars, TypeOK,
       Bits, Lifetimes, RsPcs, OpPcs, ExecInv, Fresh, RanInline, Active, Linked
<1>22. ASSUME NEW t \in Threads, NEW c \in Callbacks, Destroy(t, c) PROVE ExecInv'
    BY <1>22 DEF Destroy, InUserCode, Die, srcVars, rsVars, TypeOK, Bits,
       Lifetimes, RsPcs, OpPcs, OwnerInv, Constructing, Destroying, ExecInv,
       Fresh, RanInline, Active, Linked
<1> QED
  BY <1>1, <1>2, <1>3, <1>4, <1>5, <1>6, <1>7, <1>8, <1>9, <1>10, <1>11, <1>12,
     <1>13, <1>14, <1>15, <1>16, <1>17, <1>18, <1>19, <1>20, <1>21, <1>22
  DEF Next, LibraryStep, BodyReturns, UserStep

\* The list stays doubly linked.
LEMMA ListPointersStep == IInv /\ [Next]_vars => ListPointers'
<1> SUFFICES ASSUME IInv, [Next]_vars PROVE ListPointers' OBVIOUS
<1> USE StopConstants DEF IInv
<1>1. CASE UNCHANGED vars
    BY <1>1 DEF vars, srcVars, cbVars, rsVars, opVars, Linked, ListInv,
       ListPointers
<1>2. ASSUME NEW t \in Threads, CallRequestStop(t) PROVE ListPointers'
    BY <1>2 DEF CallRequestStop, srcVars, cbVars, opVars, Linked, ListInv,
       ListPointers
<1>3. ASSUME NEW t \in Threads, RequestStopRefused(t) PROVE ListPointers'
    BY <1>3 DEF RequestStopRefused, AlreadyStopped, srcVars, cbVars, opVars,
       Linked, ListInv, ListPointers
<1>4. ASSUME NEW t \in Threads, BeginStop(t) PROVE ListPointers'
    BY <1>4 DEF BeginStop, TryLockUnlessStopped, cbVars, opVars, Linked,
       ListInv, ListPointers
<1>5. ASSUME NEW t \in Threads, PopCallback(t) PROVE ListPointers'
    BY <1>5 DEF PopCallback, PopHead, opVars, TypeOK, Bits, Lifetimes, RsPcs,
       OpPcs, Linked, ListInv, ListPointers
<1>6. ASSUME NEW t \in Threads, BeginExecute(t) PROVE ListPointers'
    BY <1>6 DEF BeginExecute, srcVars, opVars, Linked, ListInv, ListPointers
<1>7. ASSUME NEW t \in Threads, EndExecute(t) PROVE ListPointers'
    BY <1>7 DEF EndExecute, AfterBody, srcVars, opVars, Linked, ListInv,
       ListPointers
<1>8. ASSUME NEW t \in Threads, SignalDone(t) PROVE ListPointers'
    BY <1>8 DEF SignalDone, StoreDone, srcVars, opVars, Linked, ListInv,
       ListPointers
<1>9. ASSUME NEW t \in Threads, Relock(t) PROVE ListPointers'
    BY <1>9 DEF Relock, Lock, cbVars, opVars, Linked, ListInv, ListPointers
<1>10. ASSUME NEW t \in Threads, EndStop(t) PROVE ListPointers'
    BY <1>10 DEF EndStop, Drained, cbVars, opVars, Linked, ListInv,
       ListPointers
<1>11. ASSUME NEW t \in Threads, LockToRegister(t) PROVE ListPointers'
    BY <1>11 DEF LockToRegister, TryLockUnlessStopped, cbVars, rsVars, Linked,
       ListInv, ListPointers
<1>12. ASSUME NEW t \in Threads, LinkCallback(t) PROVE ListPointers'
    BY <1>12 DEF LinkCallback, rsVars, TypeOK, Bits, Lifetimes, RsPcs, OpPcs,
       OwnerInv, Constructing, Destroying, ExecInv, Fresh, RanInline, Active,
       Linked, ListInv, ListPointers
<1>13. ASSUME NEW t \in Threads, SetSource(t) PROVE ListPointers'
    BY <1>13 DEF SetSource, srcVars, rsVars, OwnerInv, Constructing,
       Destroying, Linked, ListInv, ListPointers
<1>14. ASSUME NEW t \in Threads, BeginInline(t) PROVE ListPointers'
    BY <1>14 DEF BeginInline, AlreadyStopped, srcVars, cbVars, rsVars, Linked,
       ListInv, ListPointers
<1>15. ASSUME NEW t \in Threads, EndInline(t) PROVE ListPointers'
    BY <1>15 DEF EndInline, srcVars, rsVars, OwnerInv, Constructing,
       Destroying, Linked, ListInv, ListPointers
<1>16. ASSUME NEW t \in Threads, LockToUnregister(t) PROVE ListPointers'
    BY <1>16 DEF LockToUnregister, Lock, cbVars, rsVars, Linked, ListInv,
       ListPointers
<1>17. ASSUME NEW t \in Threads, UnlinkCallback(t) PROVE ListPointers'
    BY <1>17 DEF UnlinkCallback, Die, Splice, Restore, rsVars, TypeOK, Bits,
       Lifetimes, RsPcs, OpPcs, OwnerInv, Constructing, Destroying, Linked,
       ListInv, ListPointers
<1>18. ASSUME NEW t \in Threads, FoundUnlinked(t) PROVE ListPointers'
    BY <1>18 DEF FoundUnlinked, Restore, IsStopper, cbVars, rsVars, Linked,
       ListInv, ListPointers
<1>19. ASSUME NEW t \in Threads, SelfRemove(t) PROVE ListPointers'
    BY <1>19 DEF SelfRemove, Die, srcVars, ExecInv, Fresh, RanInline, Active,
       Linked, ListInv, ListPointers
<1>20. ASSUME NEW t \in Threads, WaitExecuted(t) PROVE ListPointers'
    BY <1>20 DEF WaitExecuted, Die, srcVars, rsVars, ExecInv, Fresh, RanInline,
       Active, Linked, ListInv, ListPointers
<1>21. ASSUME NEW t \in Threads, NEW c \in Callbacks, Construct(t, c) PROVE ListPointers'
    BY <1>21 DEF Construct, InUserCode, srcVars, rsVars, Linked, ListInv,
       ListPointers
<1>22. ASSUME NEW t \in Threads, NEW c \in Callbacks, Destroy(t, c) PROVE ListPointers'
    BY <1>22 DEF Destroy, InUserCode, Die, srcVars, rsVars, TypeOK, Bits,
       Lifetimes, RsPcs, OpPcs, ExecInv, Fresh, RanInline, Active, Linked,
       ListInv, ListPointers
<1> QED
  BY <1>1, <1>2, <1>3, <1>4, <1>5, <1>6, <1>7, <1>8, <1>9, <1>10, <1>11, <1>12,
     <1>13, <1>14, <1>15, <1>16, <1>17, <1>18, <1>19, <1>20, <1>21, <1>22
  DEF Next, LibraryStep, BodyReturns, UserStep

\* The list stays acyclic: pushing, popping and splicing out each leave every
\* set of linked callbacks a member whose predecessor is outside.
LEMMA AcyclicStep == IInv /\ [Next]_vars => Acyclic'
<1> SUFFICES ASSUME IInv, [Next]_vars PROVE Acyclic' OBVIOUS
<1> USE StopConstants DEF IInv
<1>1. CASE UNCHANGED vars
    BY <1>1 DEF vars, cbVars, rsVars, opVars, Linked, ListInv, Acyclic
<1>2. ASSUME NEW t \in Threads, CallRequestStop(t) PROVE Acyclic'
    BY <1>2 DEF CallRequestStop, cbVars, opVars, Linked, ListInv, Acyclic
<1>3. ASSUME NEW t \in Threads, RequestStopRefused(t) PROVE Acyclic'
    BY <1>3 DEF RequestStopRefused, AlreadyStopped, cbVars, opVars, Linked,
       ListInv, Acyclic
<1>4. ASSUME NEW t \in Threads, BeginStop(t) PROVE Acyclic'
    BY <1>4 DEF BeginStop, TryLockUnlessStopped, cbVars, opVars, Linked,
       ListInv, Acyclic
<1>5. ASSUME NEW t \in Threads, PopCallback(t) PROVE Acyclic'
  <2> SUFFICES ASSUME NEW S \in SUBSET Callbacks, S # {},
                      \A d \in S : Linked(d)'
               PROVE  \E w \in S : prev'[w] \notin S
    BY DEF Acyclic
  <2>1. ASSUME NEW d \in S PROVE Linked(d) /\ d # head
    <3>1. d \in Callbacks /\ prev'[d] # NULL /\ life[d] # "dead"
      BY <1>5, <2>1 DEF PopCallback, PopHead, Linked
    <3>2. d # head
      BY <1>5, <3>1 DEF PopCallback, PopHead
    <3>3. d = next[head] => Linked(d)
      BY <1>5, <3>1 DEF PopCallback, PopHead, ListInv, ListPointers, TypeOK
    <3> QED BY <1>5, <3>1, <3>2, <3>3 DEF PopCallback, PopHead, Linked
  <2>2. PICK w \in S : prev[w] \notin S
    BY <2>1 DEF ListInv, Acyclic
  <2>3. prev'[w] \in {prev[w], HEAD}
    BY <1>5, <2>1 DEF PopCallback, PopHead, TypeOK
  <2> QED BY <2>2, <2>3
<1>6. ASSUME NEW t \in Threads, BeginExecute(t) PROVE Acyclic'
    BY <1>6 DEF BeginExecute, opVars, Linked, ListInv, Acyclic
<1>7. ASSUME NEW t \in Threads, EndExecute(t) PROVE Acyclic'
    BY <1>7 DEF EndExecute, AfterBody, opVars, Linked, ListInv, Acyclic
<1>8. ASSUME NEW t \in Threads, SignalDone(t) PROVE Acyclic'
    BY <1>8 DEF SignalDone, StoreDone, opVars, Linked, ListInv, Acyclic
<1>9. ASSUME NEW t \in Threads, Relock(t) PROVE Acyclic'
    BY <1>9 DEF Relock, Lock, cbVars, opVars, Linked, ListInv, Acyclic
<1>10. ASSUME NEW t \in Threads, EndStop(t) PROVE Acyclic'
    BY <1>10 DEF EndStop, Drained, cbVars, opVars, Linked, ListInv, Acyclic
<1>11. ASSUME NEW t \in Threads, LockToRegister(t) PROVE Acyclic'
    BY <1>11 DEF LockToRegister, TryLockUnlessStopped, cbVars, rsVars, Linked,
       ListInv, Acyclic
<1>12. ASSUME NEW t \in Threads, LinkCallback(t) PROVE Acyclic'
  <2> SUFFICES ASSUME NEW S \in SUBSET Callbacks, S # {},
                      \A d \in S : Linked(d)'
               PROVE  \E w \in S : prev'[w] \notin S
    BY DEF Acyclic
  <2>1. CASE tgt[t] \in S
    BY <1>12, <2>1 DEF LinkCallback, TypeOK
  <2>2. CASE tgt[t] \notin S
    <3>1. ASSUME NEW d \in S PROVE Linked(d)
      <4>1. d \in Callbacks /\ d # tgt[t] /\ prev'[d] # NULL /\ life[d] # "dead"
        BY <1>12, <2>2, <3>1 DEF LinkCallback, Linked
      <4>2. CASE d = head
        BY <4>2 DEF ListInv, ListPointers
      <4>3. CASE d # head
        BY <1>12, <4>1, <4>3 DEF LinkCallback, Linked
      <4> QED BY <4>2, <4>3
    <3>2. PICK w \in S : prev[w] \notin S
      BY <3>1 DEF ListInv, Acyclic
    <3>3. prev'[w] \in {prev[w], tgt[t]}
      BY <1>12, <2>2 DEF LinkCallback, TypeOK
    <3> QED BY <2>2, <3>2, <3>3
  <2> QED BY <2>1, <2>2
<1>13. ASSUME NEW t \in Threads, SetSource(t) PROVE Acyclic'
    BY <1>13 DEF SetSource, rsVars, OwnerInv, Constructing, Destroying, Linked,
       ListInv, Acyclic
<1>14. ASSUME NEW t \in Threads, BeginInline(t) PROVE Acyclic'
    BY <1>14 DEF BeginInline, AlreadyStopped, cbVars, rsVars, Linked, ListInv,
       Acyclic
<1>15. ASSUME NEW t \in Threads, EndInline(t) PROVE Acyclic'
    BY <1>15 DEF EndInline, rsVars, OwnerInv, Constructing, Destroying, Linked,
       ListInv, Acyclic
<1>16. ASSUME NEW t \in Threads, LockToUnregister(t) PROVE Acyclic'
    BY <1>16 DEF LockToUnregister, Lock, cbVars, rsVars, Linked, ListInv,
       Acyclic
<1>17. ASSUME NEW t \in Threads, UnlinkCallback(t) PROVE Acyclic'
  <2> SUFFICES ASSUME NEW S \in SUBSET Callbacks, S # {},
                      \A d \in S : Linked(d)'
               PROVE  \E w \in S : prev'[w] \notin S
    BY DEF Acyclic
  <2> DEFINE c == tgt[t]
  <2>0. c \in Callbacks /\ Linked(c) /\ c \notin S
    BY <1>17 DEF UnlinkCallback, Splice, Die, OwnerInv, Destroying, Linked,
       TypeOK
  <2>1. ASSUME NEW d \in S PROVE Linked(d)
    <3>1. d \in Callbacks /\ prev'[d] # NULL /\ life[d] # "dead"
      BY <1>17, <2>0, <2>1 DEF UnlinkCallback, Splice, Die, Linked, TypeOK
    <3>2. d = next[c] => Linked(d)
      BY <2>0, <3>1 DEF ListInv, ListPointers, TypeOK
    <3> QED BY <1>17, <3>1, <3>2 DEF UnlinkCallback, Splice, Die, Linked
  <2>2. PICK w \in S : prev[w] \notin S
    BY <2>1 DEF ListInv, Acyclic
  <2>3. CASE w # next[c]
    BY <1>17, <2>2, <2>3 DEF UnlinkCallback, Splice
  <2>4. CASE w = next[c]
    <3>1. prev'[w] = prev[c]
      BY <1>17, <2>4 DEF UnlinkCallback, Splice
    <3>2. PICK v \in S \cup {c} : prev[v] \notin S \cup {c}
      BY <2>0, <2>1 DEF ListInv, Acyclic
    <3>3. CASE v = c
      BY <3>1, <3>2, <3>3
    <3>4. CASE v # c
      <4>1. v # next[c]
        BY <2>0, <2>1, <2>4, <3>2 DEF ListInv, ListPointers, TypeOK
      <4> QED BY <1>17, <3>2, <3>4, <4>1 DEF UnlinkCallback, Splice
    <3> QED BY <3>3, <3>4
  <2> QED BY <2>3, <2>4
<1>18. ASSUME NEW t \in Threads, FoundUnlinked(t) PROVE Acyclic'
    BY <1>18 DEF FoundUnlinked, Restore, IsStopper, cbVars, rsVars, Linked,
       ListInv, Acyclic
<1>19. ASSUME NEW t \in Threads, SelfRemove(t) PROVE Acyclic'
    BY <1>19 DEF SelfRemove, Die, Linked, ListInv, Acyclic
<1>20. ASSUME NEW t \in Threads, WaitExecuted(t) PROVE Acyclic'
    BY <1>20 DEF WaitExecuted, Die, rsVars, Linked, ListInv, Acyclic
<1>21. ASSUME NEW t \in Threads, NEW c \in Callbacks, Construct(t, c) PROVE Acyclic'
    BY <1>21 DEF Construct, InUserCode, rsVars, Linked, ListInv, Acyclic
<1>22. ASSUME NEW t \in Threads, NEW c \in Callbacks, Destroy(t, c) PROVE Acyclic'
    BY <1>22 DEF Destroy, InUserCode, Die, rsVars, TypeOK, Bits, Lifetimes,
       RsPcs, OpPcs, Linked, ListInv, Acyclic
<1> QED
  BY <1>1, <1>2, <1>3, <1>4, <1>5, <1>6, <1>7, <1>8, <1>9, <1>10, <1>11, <1>12,
     <1>13, <1>14, <1>15, <1>16, <1>17, <1>18, <1>19, <1>20, <1>21, <1>22
  DEF Next, LibraryStep, BodyReturns, UserStep

\* Nothing is linked once request_stop() has returned: a registration needs the
\* stopped bit clear.
LEMMA EmptiedStep == IInv /\ [Next]_vars => Emptied'
<1> SUFFICES ASSUME IInv, [Next]_vars PROVE Emptied' OBVIOUS
<1> USE StopConstants DEF IInv
<1>1. CASE UNCHANGED vars
    BY <1>1 DEF vars, srcVars, rsVars, opVars, histVars, ListInv, Emptied
<1>2. ASSUME NEW t \in Threads, CallRequestStop(t) PROVE Emptied'
    BY <1>2 DEF CallRequestStop, srcVars, opVars, histVars, ListInv, Emptied
<1>3. ASSUME NEW t \in Threads, RequestStopRefused(t) PROVE Emptied'
    BY <1>3 DEF RequestStopRefused, AlreadyStopped, srcVars, opVars, ListInv,
       Emptied
<1>4. ASSUME NEW t \in Threads, BeginStop(t) PROVE Emptied'
    BY <1>4 DEF BeginStop, TryLockUnlessStopped, opVars, histVars, ListInv,
       Emptied
<1>5. ASSUME NEW t \in Threads, PopCallback(t) PROVE Emptied'
    BY <1>5 DEF PopCallback, PopHead, opVars, histVars, ListInv, Emptied
<1>6. ASSUME NEW t \in Threads, BeginExecute(t) PROVE Emptied'
    BY <1>6 DEF BeginExecute, srcVars, opVars, ListInv, Emptied
<1>7. ASSUME NEW t \in Threads, EndExecute(t) PROVE Emptied'
    BY <1>7 DEF EndExecute, AfterBody, srcVars, opVars, histVars, ListInv,
       Emptied
<1>8. ASSUME NEW t \in Threads, SignalDone(t) PROVE Emptied'
    BY <1>8 DEF SignalDone, StoreDone, srcVars, opVars, histVars, ListInv,
       Emptied
<1>9. ASSUME NEW t \in Threads, Relock(t) PROVE Emptied'
    BY <1>9 DEF Relock, Lock, opVars, histVars, ListInv, Emptied
<1>10. ASSUME NEW t \in Threads, EndStop(t) PROVE Emptied'
    BY <1>10 DEF EndStop, Drained, opVars, Emptied
<1>11. ASSUME NEW t \in Threads, LockToRegister(t) PROVE Emptied'
    BY <1>11 DEF LockToRegister, TryLockUnlessStopped, rsVars, histVars,
       ListInv, Emptied
<1>12. ASSUME NEW t \in Threads, LinkCallback(t) PROVE Emptied'
    BY <1>12 DEF LinkCallback, rsVars, histVars, TypeOK, Bits, Lifetimes,
       RsPcs, OpPcs, LockInv, Stopping, Emptied
<1>13. ASSUME NEW t \in Threads, SetSource(t) PROVE Emptied'
    BY <1>13 DEF SetSource, srcVars, rsVars, histVars, ListInv, Emptied
<1>14. ASSUME NEW t \in Threads, BeginInline(t) PROVE Emptied'
    BY <1>14 DEF BeginInline, AlreadyStopped, srcVars, rsVars, ListInv, Emptied
<1>15. ASSUME NEW t \in Threads, EndInline(t) PROVE Emptied'
    BY <1>15 DEF EndInline, srcVars, rsVars, histVars, ListInv, Emptied
<1>16. ASSUME NEW t \in Threads, LockToUnregister(t) PROVE Emptied'
    BY <1>16 DEF LockToUnregister, Lock, rsVars, histVars, ListInv, Emptied
<1>17. ASSUME NEW t \in Threads, UnlinkCallback(t) PROVE Emptied'
    BY <1>17 DEF UnlinkCallback, Die, Splice, Restore, rsVars, OwnerInv,
       Constructing, Destroying, Linked, ListInv, ListPointers, Emptied
<1>18. ASSUME NEW t \in Threads, FoundUnlinked(t) PROVE Emptied'
    BY <1>18 DEF FoundUnlinked, Restore, IsStopper, rsVars, histVars, ListInv,
       Emptied
<1>19. ASSUME NEW t \in Threads, SelfRemove(t) PROVE Emptied'
    BY <1>19 DEF SelfRemove, Die, srcVars, ListInv, Emptied
<1>20. ASSUME NEW t \in Threads, WaitExecuted(t) PROVE Emptied'
    BY <1>20 DEF WaitExecuted, Die, srcVars, rsVars, ListInv, Emptied
<1>21. ASSUME NEW t \in Threads, NEW c \in Callbacks, Construct(t, c) PROVE Emptied'
    BY <1>21 DEF Construct, InUserCode, srcVars, rsVars, histVars, ListInv,
       Emptied
<1>22. ASSUME NEW t \in Threads, NEW c \in Callbacks, Destroy(t, c) PROVE Emptied'
    BY <1>22 DEF Destroy, InUserCode, Die, srcVars, rsVars, ListInv, Emptied
<1> QED
  BY <1>1, <1>2, <1>3, <1>4, <1>5, <1>6, <1>7, <1>8, <1>9, <1>10, <1>11, <1>12,
     <1>13, <1>14, <1>15, <1>16, <1>17, <1>18, <1>19, <1>20, <1>21, <1>22
  DEF Next, LibraryStep, BodyReturns, UserStep

-----------------------------------------------------------------------------
\* A source with no callbacks and no stop.
LEMMA InitIInv == Init => IInv
<1> USE StopConstants DEF Init
<1>1. Init => TypeOK
  BY DEF TypeOK, Bits, Lifetimes, RsPcs, OpPcs
<1>2. Init => LockInv
  BY DEF LockInv, MutualExclusion, HoldsLock, Stopping
<1>3. Init => OwnerInv
  BY DEF OwnerInv, Constructing, Destroying
<1>4. Init => ExecInv
  BY DEF ExecInv, Fresh, RanInline, Active, Linked
<1>5. Init => ListInv
  BY DEF ListInv, ListPointers, Acyclic, Emptied, Linked
<1> QED
  BY <1>1, <1>2, <1>3, <1>4, <1>5 DEF IInv

\* The inductive invariant holds in every reachable state.
THEOREM Invariance == Spec => []IInv
<1>1. IInv /\ [Next]_vars => IInv'
  BY TypeStep, LockStep, OwnerStep, ExecStep, ListPointersStep, AcyclicStep,
     EmptiedStep DEF IInv, ListInv
<1> QED
  BY InitIInv, <1>1, PTL DEF Spec

\* Every variable keeps its type, for any number of threads and callbacks.
THEOREM TypeCorrect == Spec => []TypeOK
  BY Invariance, PTL DEF IInv

\* The spin lock of the stop source excludes.
THEOREM LockExcludes == Spec => []MutualExclusion
<1>1. IInv => MutualExclusion
  BY DEF IInv, LockInv
<1> QED
  BY <1>1, Invariance, PTL

\* The intrusive list is doubly linked and never holds a destroyed callback.
THEOREM ListIntact == Spec => []ListPointers
<1>1. IInv => ListPointers
  BY DEF IInv, ListInv
<1> QED
  BY <1>1, Invariance, PTL

\* No callback is executed twice.
THEOREM AtMostOnce == Spec => []ExecutedAtMostOnce
<1>1. IInv => ExecutedAtMostOnce
  BY DEF IInv, ExecInv, ExecutedAtMostOnce
<1> QED
  BY <1>1, Invariance, PTL

\* request_stop() never writes to a destroyed callback.
THEOREM NoDanglingAccess == Spec => []NoUseAfterDestroy
<1>1. IInv => NoUseAfterDestroy
  BY DEF IInv, ExecInv, NoUseAfterDestroy, WillTouch
<1> QED
  BY <1>1, Invariance, PTL

\* A destructor on another thread waits for the body of the callback.
THEOREM DestructorsWait == Spec => []DestructorWaits
<1>1. IInv => DestructorWaits
  BY DEF IInv, ExecInv, DestructorWaits, TypeOK
<1> QED
  BY <1>1, Invariance, PTL

\* The removal flag points into the frame that executes its callback.
THEOREM FlagNeverDangles == Spec => []FlagNotDangling
<1>1. IInv => FlagNotDangling
  BY DEF IInv, ExecInv, FlagNotDangling
<1> QED
  BY <1>1, Invariance, PTL

\* With the head pointer null, no callback is linked: this is what the acyclic
\* list is for.
LEMMA EmptyList ==
    ASSUME IInv, head = NULL
    PROVE  \A c \in Callbacks : ~Linked(c)
<1> DEFINE S == {c \in Callbacks : Linked(c)}
<1>1. SUFFICES ASSUME S # {} PROVE FALSE
  OBVIOUS
<1>2. PICK w \in S : prev[w] \notin S
  BY <1>1 DEF IInv, ListInv, Acyclic
<1>3. prev[w] = HEAD \/ prev[w] \in S
  BY <1>2 DEF IInv, ListInv, ListPointers, TypeOK, Linked
<1> QED
  BY <1>2, <1>3, StopConstants DEF IInv, ListInv, ListPointers

\* After request_stop() has returned true nothing is registered and every
\* callback that exists has been executed.
THEOREM StopComplete == Spec => []StopReachesEveryCallback
<1>1. ASSUME IInv PROVE StopReachesEveryCallback
  <2> SUFFICES ASSUME granted # {}, NEW c \in Callbacks
               PROVE  ~Linked(c) /\ (life[c] = "alive" => runs[c] = 1)
    BY DEF StopReachesEveryCallback
  <2>1. ~Linked(c)
    BY <1>1, EmptyList DEF IInv, ListInv, Emptied
  <2>2. \A t \in Threads : ~Active(t, c)
    BY <1>1 DEF IInv, TypeOK, LockInv, Stopping, Active
  <2> QED
    BY <1>1, <2>1, <2>2 DEF IInv, ExecInv
<1> QED
  BY <1>1, Invariance, PTL

\* request_stop() is granted once, and refused only after a request.
THEOREM SingleStopper == Spec => []OneStopper
<1>1. IInv => OneStopper
  BY StopConstants DEF IInv, TypeOK, LockInv, OneStopper
<1> QED
  BY <1>1, Invariance, PTL

\* The assertions of ~in_place_stop_source hold when it may be destroyed.
THEOREM DestructorAssertions == Spec => []SourceDestructible
<1>1. ASSUME IInv PROVE SourceDestructible
  BY <1>1 DEF IInv, TypeOK, LockInv, MutualExclusion, HoldsLock, ListInv,
     ListPointers, ExecInv, Fresh, Linked, SourceDestructible
<1> QED
  BY <1>1, Invariance, PTL

\* A stop request is never taken back.
THEOREM StopPermanent == Spec => StopIsPermanent
<1>1. IInv /\ IInv' /\ [Next]_vars => ["stopped" \in state => "stopped" \in state']_vars
  <2> SUFFICES ASSUME IInv, IInv', Next, "stopped" \in state
               PROVE  "stopped" \in state'
    OBVIOUS
  <2>1. PICK t \in Threads : LibraryStep(t) \/ BodyReturns(t) \/ UserStep(t)
    BY DEF Next
  <2>2. stopping # NULL /\ (stopping' = stopping \/ stopping' = t)
    BY <2>1 DEF IInv, LockInv, LibraryStep, BodyReturns, UserStep, srcVars,
       CallRequestStop, RequestStopRefused, BeginStop, PopCallback,
       BeginExecute, EndExecute, SignalDone, Relock, EndStop, LockToRegister,
       LinkCallback, SetSource, BeginInline, EndInline, LockToUnregister,
       UnlinkCallback, FoundUnlinked, SelfRemove, WaitExecuted, Construct,
       Destroy
  <2> QED
    BY <2>1, <2>2, StopConstants DEF IInv, LockInv
<1> QED
  BY <1>1, Invariance, PTL DEF Spec, StopIsPermanent

-----------------------------------------------------------------------------
(***************************************************************************)
(* in_place_stop_source implements StopPromise, for any number of threads  *)
(* and callbacks: every step changes the phase of at most one callback,    *)
(* the way a step of the abstract specification does.                      *)
(***************************************************************************)

\* The initial states are initial states of the promise.
LEMMA PromiseInit == Init => Promise!Init
  BY StopConstants DEF Init, Promise!Init, PhaseOf, Pending, Executing, Linked

\* When no phase changes, the abstract step is a stutter.
LEMMA PhaseSame ==
    ASSUME \A d \in Callbacks : PhaseOf(d)' = PhaseOf(d)
    PROVE  UNCHANGED [c \in Callbacks |-> PhaseOf(c)]
  OBVIOUS

\* When one phase changes, the abstract step is a step of that callback.
LEMMA PhaseChange ==
    ASSUME NEW x \in Callbacks, NEW to,
           \A d \in Callbacks \ {x} : PhaseOf(d)' = PhaseOf(d),
           PhaseOf(x)' = to
    PROVE  Promise!To(x, PhaseOf(x), to)
  BY DEF Promise!To

\* Each step of the stop source is a step of the promise, or leaves its phases
\* alone.
LEMMA PromiseStep == IInv /\ IInv' /\ [Next]_vars => [Promise!Next]_(Promise!vars)
<1> SUFFICES ASSUME IInv, IInv', [Next]_vars PROVE [Promise!Next]_(Promise!vars)
  OBVIOUS
<1> USE StopConstants DEF IInv
<1>1. ASSUME NEW t \in Threads, CallRequestStop(t) PROVE [Promise!Next]_(Promise!vars)
  <2>1. \A d \in Callbacks : PhaseOf(d)' = PhaseOf(d)
    BY <1>1 DEF CallRequestStop, srcVars, cbVars, rsVars, opVars, histVars,
       TypeOK, Bits, LockInv, OwnerInv, Constructing, Destroying, Stopping,
       ExecInv, Fresh, RanInline, Active, Linked, ListInv, ListPointers,
       PhaseOf, Pending, Executing
  <2>2. UNCHANGED <<"stopped" \in state, granted>>
    BY <1>1 DEF CallRequestStop, srcVars, cbVars, rsVars, opVars, histVars,
       TypeOK, Bits, LockInv, OwnerInv, Constructing, Destroying, Stopping,
       ExecInv, Fresh, RanInline, Active, Linked, ListInv, ListPointers
  <2> QED BY <2>1, <2>2, PhaseSame DEF Promise!vars
<1>2. ASSUME NEW t \in Threads, RequestStopRefused(t) PROVE [Promise!Next]_(Promise!vars)
  <2>1. \A d \in Callbacks : PhaseOf(d)' = PhaseOf(d)
    BY <1>2 DEF RequestStopRefused, AlreadyStopped, srcVars, cbVars, rsVars,
       opVars, histVars, TypeOK, Bits, LockInv, OwnerInv, Constructing,
       Destroying, Stopping, ExecInv, Fresh, RanInline, Active, Linked,
       ListInv, ListPointers, PhaseOf, Pending, Executing
  <2>2. UNCHANGED <<"stopped" \in state, granted>>
    BY <1>2 DEF RequestStopRefused, AlreadyStopped, srcVars, cbVars, rsVars,
       opVars, histVars, TypeOK, Bits, LockInv, OwnerInv, Constructing,
       Destroying, Stopping, ExecInv, Fresh, RanInline, Active, Linked,
       ListInv, ListPointers
  <2> QED BY <2>1, <2>2, PhaseSame DEF Promise!vars
<1>3. ASSUME NEW t \in Threads, BeginStop(t) PROVE [Promise!Next]_(Promise!vars)
  <2>1. \A d \in Callbacks : PhaseOf(d)' = PhaseOf(d)
    BY <1>3 DEF BeginStop, cbVars, opVars, histVars, PhaseOf, Pending, Executing,
       Linked, TypeOK
  <2>2. "stopped" \notin state /\ "stopped" \in state' /\ UNCHANGED granted
    BY <1>3 DEF BeginStop, TryLockUnlessStopped, histVars
  <2>3. Promise!Request
    BY <2>1, <2>2, PhaseSame DEF Promise!Request
  <2> QED BY <2>3 DEF Promise!Next
<1>4. ASSUME NEW t \in Threads, PopCallback(t) PROVE [Promise!Next]_(Promise!vars)
  <2>1. \A d \in Callbacks : PhaseOf(d)' = PhaseOf(d)
    BY <1>4 DEF PopCallback, PopHead, srcVars, cbVars, rsVars, opVars,
       histVars, TypeOK, Bits, LockInv, OwnerInv, Constructing, Destroying,
       Stopping, ExecInv, Fresh, RanInline, Active, Linked, ListInv,
       ListPointers, PhaseOf, Pending, Executing
  <2>2. UNCHANGED <<"stopped" \in state, granted>>
    BY <1>4 DEF PopCallback, PopHead, srcVars, cbVars, rsVars, opVars,
       histVars, TypeOK, Bits, LockInv, OwnerInv, Constructing, Destroying,
       Stopping, ExecInv, Fresh, RanInline, Active, Linked, ListInv,
       ListPointers
  <2> QED BY <2>1, <2>2, PhaseSame DEF Promise!vars
<1>5. ASSUME NEW t \in Threads, BeginExecute(t) PROVE [Promise!Next]_(Promise!vars)
  <2>0. PICK x \in Callbacks : x = cur[t]
    BY <1>5 DEF BeginExecute, OwnerInv, Constructing, Destroying
  <2>1. PhaseOf(x) \in {"registered"} /\ PhaseOf(x)' = "running"
    BY <1>5, <2>0 DEF BeginExecute, srcVars, cbVars, rsVars, opVars,
       histVars, TypeOK, Bits, LockInv, OwnerInv, Constructing, Destroying,
       Stopping, ExecInv, Fresh, RanInline, Active, Linked, ListInv,
       ListPointers, PhaseOf, Pending, Executing
  <2>2. \A d \in Callbacks \ {x} : PhaseOf(d)' = PhaseOf(d)
    BY <1>5, <2>0 DEF BeginExecute, srcVars, cbVars, rsVars, opVars,
       histVars, TypeOK, Bits, LockInv, OwnerInv, Constructing, Destroying,
       Stopping, ExecInv, Fresh, RanInline, Active, Linked, ListInv,
       ListPointers, PhaseOf, Pending, Executing
  <2>3. "stopped" \in state /\ UNCHANGED <<"stopped" \in state, granted>>
    BY <1>5 DEF BeginExecute, srcVars, cbVars, rsVars, opVars, histVars,
       TypeOK, Bits, LockInv, OwnerInv, Constructing, Destroying, Stopping,
       ExecInv, Fresh, RanInline, Active, Linked, ListInv, ListPointers
  <2>4. Promise!Run(x)
    BY <2>1, <2>2, <2>3, PhaseChange DEF Promise!Run
  <2> QED BY <2>4 DEF Promise!Next
<1>6. ASSUME NEW t \in Threads, EndExecute(t) PROVE [Promise!Next]_(Promise!vars)
  <2>1. PICK x \in Callbacks : x = cur[t]
    BY <1>6 DEF EndExecute, AfterBody, OwnerInv
  <2>2. \A d \in Callbacks \ {x} : PhaseOf(d)' = PhaseOf(d)
    BY <1>6, <2>1 DEF EndExecute, AfterBody, cbVars, opVars, histVars, TypeOK, PhaseOf,
       Pending, Executing, Linked
  <2>3. UNCHANGED <<"stopped" \in state, granted>>
    BY <1>6 DEF EndExecute, AfterBody, srcVars, histVars
  <2>4. CASE removed[t]
    <3>1. PhaseOf(x)' = PhaseOf(x)
      BY <1>6, <2>1, <2>4 DEF EndExecute, AfterBody, ExecInv, PhaseOf
    <3> QED BY <2>2, <2>3, <3>1, PhaseSame DEF Promise!vars
  <2>5. CASE ~removed[t]
    <3>1. PhaseOf(x) = "running" /\ PhaseOf(x)' = "ran"
      BY <1>6, <2>1, <2>5 DEF EndExecute, AfterBody, opVars, histVars, TypeOK, LockInv,
         Stopping, ExecInv, RanInline, Active, PhaseOf, Pending, Executing, Linked
    <3>2. Promise!Finish(x)
      BY <2>1, <2>2, <2>3, <3>1, PhaseChange DEF Promise!Finish
    <3> QED BY <3>2 DEF Promise!Next
  <2> QED BY <2>4, <2>5
<1>7. ASSUME NEW t \in Threads, SignalDone(t) PROVE [Promise!Next]_(Promise!vars)
  <2>1. \A d \in Callbacks : PhaseOf(d)' = PhaseOf(d)
    BY <1>7 DEF SignalDone, StoreDone, srcVars, cbVars, rsVars, opVars,
       histVars, TypeOK, Bits, LockInv, OwnerInv, Constructing, Destroying,
       Stopping, ExecInv, Fresh, RanInline, Active, Linked, ListInv,
       ListPointers, PhaseOf, Pending, Executing
  <2>2. UNCHANGED <<"stopped" \in state, granted>>
    BY <1>7 DEF SignalDone, StoreDone, srcVars, cbVars, rsVars, opVars,
       histVars, TypeOK, Bits, LockInv, OwnerInv, Constructing, Destroying,
       Stopping, ExecInv, Fresh, RanInline, Active, Linked, ListInv,
       ListPointers
  <2> QED BY <2>1, <2>2, PhaseSame DEF Promise!vars
<1>8. ASSUME NEW t \in Threads, Relock(t) PROVE [Promise!Next]_(Promise!vars)
  <2>1. \A d \in Callbacks : PhaseOf(d)' = PhaseOf(d)
    BY <1>8 DEF Relock, Lock, srcVars, cbVars, rsVars, opVars, histVars,
       TypeOK, Bits, LockInv, OwnerInv, Constructing, Destroying, Stopping,
       ExecInv, Fresh, RanInline, Active, Linked, ListInv, ListPointers,
       PhaseOf, Pending, Executing
  <2>2. UNCHANGED <<"stopped" \in state, granted>>
    BY <1>8 DEF Relock, Lock, srcVars, cbVars, rsVars, opVars, histVars,
       TypeOK, Bits, LockInv, OwnerInv, Constructing, Destroying, Stopping,
       ExecInv, Fresh, RanInline, Active, Linked, ListInv, ListPointers
  <2> QED BY <2>1, <2>2, PhaseSame DEF Promise!vars
<1>9. ASSUME NEW t \in Threads, EndStop(t) PROVE [Promise!Next]_(Promise!vars)
  <2>1. \A d \in Callbacks : PhaseOf(d)' = PhaseOf(d)
    BY <1>9 DEF EndStop, Drained, cbVars, opVars, PhaseOf, Pending, Executing, Linked, TypeOK
  <2>2. "stopped" \in state /\ "stopped" \in state' /\ granted' # {}
    BY <1>9 DEF EndStop, Drained, LockInv
  <2>3. \A d \in Callbacks : PhaseOf(d) # "registered"
    <3>1. \A d \in Callbacks : ~Linked(d)
      BY <1>9, EmptyList DEF EndStop, Drained
    <3>2. \A u \in Threads : rs[u] # "popped"
      BY <1>9 DEF EndStop, Drained, LockInv, Stopping
    <3> QED BY <3>1, <3>2 DEF PhaseOf, Pending
  <2>4. Promise!Return
    BY <2>1, <2>2, <2>3, PhaseSame DEF Promise!Return
  <2> QED BY <2>4 DEF Promise!Next
<1>10. ASSUME NEW t \in Threads, LockToRegister(t) PROVE [Promise!Next]_(Promise!vars)
  <2>1. \A d \in Callbacks : PhaseOf(d)' = PhaseOf(d)
    BY <1>10 DEF LockToRegister, TryLockUnlessStopped, srcVars, cbVars,
       rsVars, opVars, histVars, TypeOK, Bits, LockInv, OwnerInv,
       Constructing, Destroying, Stopping, ExecInv, Fresh, RanInline,
       Active, Linked, ListInv, ListPointers, PhaseOf, Pending, Executing
  <2>2. UNCHANGED <<"stopped" \in state, granted>>
    BY <1>10 DEF LockToRegister, TryLockUnlessStopped, srcVars, cbVars,
       rsVars, opVars, histVars, TypeOK, Bits, LockInv, OwnerInv,
       Constructing, Destroying, Stopping, ExecInv, Fresh, RanInline,
       Active, Linked, ListInv, ListPointers
  <2> QED BY <2>1, <2>2, PhaseSame DEF Promise!vars
<1>11. ASSUME NEW t \in Threads, LinkCallback(t) PROVE [Promise!Next]_(Promise!vars)
  <2>0. PICK x \in Callbacks : x = tgt[t]
    BY <1>11 DEF LinkCallback, OwnerInv, Constructing, Destroying
  <2>1. PhaseOf(x) \in {"absent"} /\ PhaseOf(x)' = "registered"
    BY <1>11, <2>0 DEF LinkCallback, srcVars, cbVars, rsVars, opVars,
       histVars, TypeOK, Bits, LockInv, OwnerInv, Constructing, Destroying,
       Stopping, ExecInv, Fresh, RanInline, Active, Linked, ListInv,
       ListPointers, PhaseOf, Pending, Executing
  <2>2. \A d \in Callbacks \ {x} : PhaseOf(d)' = PhaseOf(d)
    BY <1>11, <2>0 DEF LinkCallback, srcVars, cbVars, rsVars, opVars,
       histVars, TypeOK, Bits, LockInv, OwnerInv, Constructing, Destroying,
       Stopping, ExecInv, Fresh, RanInline, Active, Linked, ListInv,
       ListPointers, PhaseOf, Pending, Executing
  <2>3. "stopped" \notin state /\ UNCHANGED <<"stopped" \in state, granted>>
    BY <1>11 DEF LinkCallback, srcVars, cbVars, rsVars, opVars, histVars,
       TypeOK, Bits, LockInv, OwnerInv, Constructing, Destroying, Stopping,
       ExecInv, Fresh, RanInline, Active, Linked, ListInv, ListPointers
  <2>4. Promise!Register(x)
    BY <2>1, <2>2, <2>3, PhaseChange DEF Promise!Register
  <2> QED BY <2>4 DEF Promise!Next
<1>12. ASSUME NEW t \in Threads, SetSource(t) PROVE [Promise!Next]_(Promise!vars)
  <2>1. \A d \in Callbacks : PhaseOf(d)' = PhaseOf(d)
    BY <1>12 DEF SetSource, srcVars, cbVars, rsVars, opVars, histVars,
       TypeOK, Bits, LockInv, OwnerInv, Constructing, Destroying, Stopping,
       ExecInv, Fresh, RanInline, Active, Linked, ListInv, ListPointers,
       PhaseOf, Pending, Executing
  <2>2. UNCHANGED <<"stopped" \in state, granted>>
    BY <1>12 DEF SetSource, srcVars, cbVars, rsVars, opVars, histVars,
       TypeOK, Bits, LockInv, OwnerInv, Constructing, Destroying, Stopping,
       ExecInv, Fresh, RanInline, Active, Linked, ListInv, ListPointers
  <2> QED BY <2>1, <2>2, PhaseSame DEF Promise!vars
<1>13. ASSUME NEW t \in Threads, BeginInline(t) PROVE [Promise!Next]_(Promise!vars)
  <2>0. PICK x \in Callbacks : x = tgt[t]
    BY <1>13 DEF BeginInline, OwnerInv, Constructing, Destroying
  <2>1. PhaseOf(x) \in {"absent"} /\ PhaseOf(x)' = "running"
    BY <1>13, <2>0 DEF BeginInline, AlreadyStopped, srcVars, cbVars, rsVars,
       opVars, histVars, TypeOK, Bits, LockInv, OwnerInv, Constructing,
       Destroying, Stopping, ExecInv, Fresh, RanInline, Active, Linked,
       ListInv, ListPointers, PhaseOf, Pending, Executing
  <2>2. \A d \in Callbacks \ {x} : PhaseOf(d)' = PhaseOf(d)
    BY <1>13, <2>0 DEF BeginInline, AlreadyStopped, srcVars, cbVars, rsVars,
       opVars, histVars, TypeOK, Bits, LockInv, OwnerInv, Constructing,
       Destroying, Stopping, ExecInv, Fresh, RanInline, Active, Linked,
       ListInv, ListPointers, PhaseOf, Pending, Executing
  <2>3. "stopped" \in state /\ UNCHANGED <<"stopped" \in state, granted>>
    BY <1>13 DEF BeginInline, AlreadyStopped, srcVars, cbVars, rsVars,
       opVars, histVars, TypeOK, Bits, LockInv, OwnerInv, Constructing,
       Destroying, Stopping, ExecInv, Fresh, RanInline, Active, Linked,
       ListInv, ListPointers
  <2>4. Promise!Run(x)
    BY <2>1, <2>2, <2>3, PhaseChange DEF Promise!Run
  <2> QED BY <2>4 DEF Promise!Next
<1>14. ASSUME NEW t \in Threads, EndInline(t) PROVE [Promise!Next]_(Promise!vars)
  <2>0. PICK x \in Callbacks : x = tgt[t]
    BY <1>14 DEF EndInline, OwnerInv, Constructing, Destroying
  <2>1. PhaseOf(x) \in {"running"} /\ PhaseOf(x)' = "ran"
    BY <1>14, <2>0 DEF EndInline, srcVars, cbVars, rsVars, opVars, histVars,
       TypeOK, Bits, LockInv, OwnerInv, Constructing, Destroying, Stopping,
       ExecInv, Fresh, RanInline, Active, Linked, ListInv, ListPointers,
       PhaseOf, Pending, Executing
  <2>2. \A d \in Callbacks \ {x} : PhaseOf(d)' = PhaseOf(d)
    BY <1>14, <2>0 DEF EndInline, srcVars, cbVars, rsVars, opVars, histVars,
       TypeOK, Bits, LockInv, OwnerInv, Constructing, Destroying, Stopping,
       ExecInv, Fresh, RanInline, Active, Linked, ListInv, ListPointers,
       PhaseOf, Pending, Executing
  <2>3. UNCHANGED <<"stopped" \in state, granted>>
    BY <1>14 DEF EndInline, srcVars, cbVars, rsVars, opVars, histVars,
       TypeOK, Bits, LockInv, OwnerInv, Constructing, Destroying, Stopping,
       ExecInv, Fresh, RanInline, Active, Linked, ListInv, ListPointers
  <2>4. Promise!Finish(x)
    BY <2>1, <2>2, <2>3, PhaseChange DEF Promise!Finish
  <2> QED BY <2>4 DEF Promise!Next
<1>15. ASSUME NEW t \in Threads, LockToUnregister(t) PROVE [Promise!Next]_(Promise!vars)
  <2>1. \A d \in Callbacks : PhaseOf(d)' = PhaseOf(d)
    BY <1>15 DEF LockToUnregister, Lock, srcVars, cbVars, rsVars, opVars,
       histVars, TypeOK, Bits, LockInv, OwnerInv, Constructing, Destroying,
       Stopping, ExecInv, Fresh, RanInline, Active, Linked, ListInv,
       ListPointers, PhaseOf, Pending, Executing
  <2>2. UNCHANGED <<"stopped" \in state, granted>>
    BY <1>15 DEF LockToUnregister, Lock, srcVars, cbVars, rsVars, opVars,
       histVars, TypeOK, Bits, LockInv, OwnerInv, Constructing, Destroying,
       Stopping, ExecInv, Fresh, RanInline, Active, Linked, ListInv,
       ListPointers
  <2> QED BY <2>1, <2>2, PhaseSame DEF Promise!vars
<1>16. ASSUME NEW t \in Threads, UnlinkCallback(t) PROVE [Promise!Next]_(Promise!vars)
  <2>0. PICK x \in Callbacks : x = tgt[t]
    BY <1>16 DEF UnlinkCallback, OwnerInv, Constructing, Destroying
  <2>1. PhaseOf(x) \in {"registered"} /\ PhaseOf(x)' = "gone"
    BY <1>16, <2>0 DEF UnlinkCallback, Die, Splice, Restore, srcVars,
       cbVars, rsVars, opVars, histVars, TypeOK, Bits, LockInv, OwnerInv,
       Constructing, Destroying, Stopping, ExecInv, Fresh, RanInline,
       Active, Linked, ListInv, ListPointers, PhaseOf, Pending, Executing
  <2>2. \A d \in Callbacks \ {x} : PhaseOf(d)' = PhaseOf(d)
    BY <1>16, <2>0 DEF UnlinkCallback, Die, Splice, Restore, srcVars,
       cbVars, rsVars, opVars, histVars, TypeOK, Bits, LockInv, OwnerInv,
       Constructing, Destroying, Stopping, ExecInv, Fresh, RanInline,
       Active, Linked, ListInv, ListPointers, PhaseOf, Pending, Executing
  <2>3. UNCHANGED <<"stopped" \in state, granted>>
    BY <1>16 DEF UnlinkCallback, Die, Splice, Restore, srcVars, cbVars,
       rsVars, opVars, histVars, TypeOK, Bits, LockInv, OwnerInv,
       Constructing, Destroying, Stopping, ExecInv, Fresh, RanInline,
       Active, Linked, ListInv, ListPointers
  <2>4. Promise!Destroy(x)
    BY <2>1, <2>2, <2>3, PhaseChange DEF Promise!Destroy
  <2> QED BY <2>4 DEF Promise!Next
<1>17. ASSUME NEW t \in Threads, FoundUnlinked(t) PROVE [Promise!Next]_(Promise!vars)
  <2>1. \A d \in Callbacks : PhaseOf(d)' = PhaseOf(d)
    BY <1>17 DEF FoundUnlinked, Restore, IsStopper, srcVars, cbVars, rsVars,
       opVars, histVars, TypeOK, Bits, LockInv, OwnerInv, Constructing,
       Destroying, Stopping, ExecInv, Fresh, RanInline, Active, Linked,
       ListInv, ListPointers, PhaseOf, Pending, Executing
  <2>2. UNCHANGED <<"stopped" \in state, granted>>
    BY <1>17 DEF FoundUnlinked, Restore, IsStopper, srcVars, cbVars, rsVars,
       opVars, histVars, TypeOK, Bits, LockInv, OwnerInv, Constructing,
       Destroying, Stopping, ExecInv, Fresh, RanInline, Active, Linked,
       ListInv, ListPointers
  <2> QED BY <2>1, <2>2, PhaseSame DEF Promise!vars
<1>18. ASSUME NEW t \in Threads, SelfRemove(t) PROVE [Promise!Next]_(Promise!vars)
  <2>0. PICK x \in Callbacks : x = tgt[t]
    BY <1>18 DEF SelfRemove, OwnerInv, Constructing, Destroying
  <2>1. PhaseOf(x) \in {"running", "ran"} /\ PhaseOf(x)' = "gone"
    BY <1>18, <2>0 DEF SelfRemove, Die, srcVars, cbVars, rsVars, opVars,
       histVars, TypeOK, Bits, LockInv, OwnerInv, Constructing, Destroying,
       Stopping, ExecInv, Fresh, RanInline, Active, Linked, ListInv,
       ListPointers, PhaseOf, Pending, Executing
  <2>2. \A d \in Callbacks \ {x} : PhaseOf(d)' = PhaseOf(d)
    BY <1>18, <2>0 DEF SelfRemove, Die, srcVars, cbVars, rsVars, opVars,
       histVars, TypeOK, Bits, LockInv, OwnerInv, Constructing, Destroying,
       Stopping, ExecInv, Fresh, RanInline, Active, Linked, ListInv,
       ListPointers, PhaseOf, Pending, Executing
  <2>3. UNCHANGED <<"stopped" \in state, granted>>
    BY <1>18 DEF SelfRemove, Die, srcVars, cbVars, rsVars, opVars, histVars,
       TypeOK, Bits, LockInv, OwnerInv, Constructing, Destroying, Stopping,
       ExecInv, Fresh, RanInline, Active, Linked, ListInv, ListPointers
  <2>4. Promise!Destroy(x)
    BY <2>1, <2>2, <2>3, PhaseChange DEF Promise!Destroy
  <2> QED BY <2>4 DEF Promise!Next
<1>19. ASSUME NEW t \in Threads, WaitExecuted(t) PROVE [Promise!Next]_(Promise!vars)
  <2>0. PICK x \in Callbacks : x = tgt[t]
    BY <1>19 DEF WaitExecuted, OwnerInv, Constructing, Destroying
  <2>1. PhaseOf(x) \in {"ran"} /\ PhaseOf(x)' = "gone"
    BY <1>19, <2>0 DEF WaitExecuted, Die, srcVars, cbVars, rsVars, opVars,
       histVars, TypeOK, Bits, LockInv, OwnerInv, Constructing, Destroying,
       Stopping, ExecInv, Fresh, RanInline, Active, Linked, ListInv,
       ListPointers, PhaseOf, Pending, Executing
  <2>2. \A d \in Callbacks \ {x} : PhaseOf(d)' = PhaseOf(d)
    BY <1>19, <2>0 DEF WaitExecuted, Die, srcVars, cbVars, rsVars, opVars,
       histVars, TypeOK, Bits, LockInv, OwnerInv, Constructing, Destroying,
       Stopping, ExecInv, Fresh, RanInline, Active, Linked, ListInv,
       ListPointers, PhaseOf, Pending, Executing
  <2>3. UNCHANGED <<"stopped" \in state, granted>>
    BY <1>19 DEF WaitExecuted, Die, srcVars, cbVars, rsVars, opVars,
       histVars, TypeOK, Bits, LockInv, OwnerInv, Constructing, Destroying,
       Stopping, ExecInv, Fresh, RanInline, Active, Linked, ListInv,
       ListPointers
  <2>4. Promise!Destroy(x)
    BY <2>1, <2>2, <2>3, PhaseChange DEF Promise!Destroy
  <2> QED BY <2>4 DEF Promise!Next
<1>20. ASSUME NEW t \in Threads, NEW c \in Callbacks, Construct(t, c) PROVE [Promise!Next]_(Promise!vars)
  <2>1. \A d \in Callbacks : PhaseOf(d)' = PhaseOf(d)
    BY <1>20 DEF Construct, InUserCode, srcVars, cbVars, rsVars, opVars,
       histVars, TypeOK, Bits, LockInv, OwnerInv, Constructing, Destroying,
       Stopping, ExecInv, Fresh, RanInline, Active, Linked, ListInv,
       ListPointers, PhaseOf, Pending, Executing
  <2>2. UNCHANGED <<"stopped" \in state, granted>>
    BY <1>20 DEF Construct, InUserCode, srcVars, cbVars, rsVars, opVars,
       histVars, TypeOK, Bits, LockInv, OwnerInv, Constructing, Destroying,
       Stopping, ExecInv, Fresh, RanInline, Active, Linked, ListInv,
       ListPointers
  <2> QED BY <2>1, <2>2, PhaseSame DEF Promise!vars
<1>21. ASSUME NEW t \in Threads, NEW c \in Callbacks, Destroy(t, c) PROVE [Promise!Next]_(Promise!vars)
  <2>1. \A d \in Callbacks \ {c} : PhaseOf(d)' = PhaseOf(d)
    BY <1>21 DEF Destroy, Die, InUserCode, rsVars, histVars, TypeOK, OpPcs, PhaseOf,
       Pending, Executing, Linked
  <2>2. UNCHANGED <<"stopped" \in state, granted>>
    BY <1>21 DEF Destroy, Die, srcVars, histVars
  <2>3. CASE src[c]
    <3>1. PhaseOf(c)' = PhaseOf(c)
      BY <1>21, <2>3 DEF Destroy, Die, InUserCode, rsVars, histVars, TypeOK, OpPcs,
         PhaseOf, Pending, Executing, Linked
    <3> QED BY <2>1, <2>2, <3>1, PhaseSame DEF Promise!vars
  <2>4. CASE ~src[c]
    <3>1. PhaseOf(c) = "ran" /\ PhaseOf(c)' = "gone"
      BY <1>21, <2>4 DEF Destroy, Die, TypeOK, OwnerInv, Constructing, ExecInv,
         RanInline, Active, PhaseOf, Pending, Executing, Linked
    <3>2. Promise!Destroy(c)
      BY <2>1, <2>2, <3>1, PhaseChange DEF Promise!Destroy
    <3> QED BY <3>2 DEF Promise!Next
  <2> QED BY <2>3, <2>4
<1>22. CASE UNCHANGED vars
  BY <1>22 DEF vars, srcVars, cbVars, rsVars, opVars, histVars, Promise!vars,
     PhaseOf, Pending, Executing, Linked
<1> QED
  BY <1>1, <1>2, <1>3, <1>4, <1>5, <1>6, <1>7, <1>8, <1>9, <1>10, <1>11,
     <1>12, <1>13, <1>14, <1>15, <1>16, <1>17, <1>18, <1>19, <1>20, <1>21, <1>22
  DEF Next, LibraryStep, BodyReturns, UserStep

\* The stop source implements its promise.
THEOREM Refinement == Spec => KeepsPromise
  BY PromiseInit, PromiseStep, Invariance, PTL DEF Spec, KeepsPromise, Promise!Spec
=============================================================================
