---------------------------- MODULE TrapsProofs -----------------------------
(***************************************************************************)
(* The properties of Traps for every script, any number of signals and any *)
(* nesting.  A step changes the VM that executes, ends it or calls another *)
(* one; the VMs below wait.  So the inductive invariant says what holds of *)
(* any VM (Good), of a VM and the one it waits for (Calls), and of the VM  *)
(* that executes (Running); two lemmas about stacks, replacing the last VM *)
(* (after taking some away) and calling one, carry it over every action.   *)
(***************************************************************************)
EXTENDS Traps, SequenceTheorems, FiniteSetTheorems, TLAPS

(* A VM has halted exactly if something ended it, starts its EXIT trap     *)
(* once, and executes an opcode after its end only if exit ended it.       *)
Good(f) ==
    /\ f \in Frame
    /\ f.halted <=> f.why # "none"
    /\ f.nexit <= 1
    /\ f.late <= 1 /\ (f.late = 1 => f.why = "exit")
    /\ Runs(f.exit_trap) => f.xproc = f.proc
    /\ f.kind = "eval" => f.after = "top"
    /\ f.kind = "trap" => f.after = "fetch" /\ f.sig \in Signals

(* Outside its EXIT trap, a VM that has started the trap is ended.         *)
Settled(f) == f.nexit = 1 => f.why = "exit"

NoneLeft(f) == f.why = "exit" => ~Runs(f.exit_trap)

(* p waits for f, which it has called or forked.                           *)
Calls(p, f) ==
    /\ f.kind # "main"
    /\ f.proc = p.proc + (IF f.kind = "child" THEN 1 ELSE 0)
    /\ f.kind = "trap" => p.trap_handlers[f.sig] = f.text /\ p.why = "none"
    /\ f.kind = "exit" => p.exit_trap = NULL /\ p.nexit = 1 /\ p.why = "none"
    /\ f.kind # "exit" => Settled(p)
    /\ NoneLeft(p) /\ p.why \in {"none", "exit"}

Stack(fs) ==
    /\ fs \in Seq(Frame) /\ Len(fs) >= 1
    /\ fs[1].kind = "main" /\ fs[1].proc = 0
    /\ \A i \in 1 .. Len(fs) : Good(fs[i])
    /\ \A i \in 2 .. Len(fs) : Calls(fs[i - 1], fs[i])

(* The VM f executes at the control point c.                               *)
Running(f, c) ==
    /\ Settled(f)
    /\ f.late = 0 => NoneLeft(f)
    /\ c = "fetch" => f.late = 0 /\ f.why \in {"none", "exit"}
    /\ c \in {"wait", "exec"} => NoneLeft(f)

(* The flags and the counters.                                             *)
Counted ==
    /\ got \in Signals /\ pend \subseteq caught \X Signals /\ IsFiniteSet(pend)
    /\ nops \in 0 .. MaxOps /\ nsig \in 0 .. MaxSig /\ nrun \in Nat
    /\ nrun + Cardinality(pend) <= nsig

IInv ==
    /\ Stack(frames)
    /\ Running(Top, pc)
    /\ Counted
    /\ caught \subseteq 0 .. Top.proc
    /\ pc \in ControlPoints
    /\ pc = "got" => ~Top.halted /\ got \in Flags(Top.proc)

-----------------------------------------------------------------------------
(* Stacks.                                                                 *)

(* g is a later state of the VM f.                                         *)
Alike(f, g) == g.kind = f.kind /\ g.proc = f.proc /\ g.sig = f.sig /\ g.text = f.text

Cut(fs, n, g) == Append(SubSeq(fs, 1, n - 1), g)

(* The VMs above the n-th end, and that one goes on as g.                  *)
LEMMA CutOK ==
    ASSUME NEW fs, Stack(fs), NEW n \in 1 .. Len(fs), NEW g, Good(g), Alike(fs[n], g)
    PROVE  /\ Stack(Cut(fs, n, g))
           /\ Len(Cut(fs, n, g)) = n /\ Cut(fs, n, g)[n] = g
           /\ \A i \in 1 .. n - 1 : Cut(fs, n, g)[i] = fs[i]
<1> DEFINE b == SubSeq(fs, 1, n - 1)
<1>1. fs \in Seq(Frame) /\ n \in Int /\ n >= 1 /\ n <= Len(fs) /\ Len(fs) \in Nat
    BY DEF Stack
<1>2. \A i \in 1 .. n - 1 : fs[i] \in Frame
    BY <1>1
<1>3. /\ b \in Seq(Frame) /\ Len(b) = n - 1
      /\ \A i \in 1 .. n - 1 : b[i] = fs[i]
    BY <1>1, <1>2, SubSeqProperties
<1>4. g \in Frame
    BY DEF Good
<1> HIDE DEF b
<1>5. /\ Append(b, g) \in Seq(Frame) /\ Len(Append(b, g)) = n /\ Append(b, g)[n] = g
      /\ \A i \in 1 .. n - 1 : Append(b, g)[i] = fs[i]
    BY <1>1, <1>3, <1>4
<1> DEFINE r == Append(b, g)
<1> HIDE DEF r
<1>6. r \in Seq(Frame) /\ Len(r) = n /\ r[n] = g /\ \A i \in 1 .. n - 1 : r[i] = fs[i]
    BY <1>5 DEF r
<1>7. r[1].kind = "main" /\ r[1].proc = 0
    <2>1. CASE n = 1
        BY <2>1, <1>6 DEF Stack, Alike
    <2>2. CASE n # 1
        BY <2>2, <1>1, <1>6 DEF Stack
    <2> QED BY <2>1, <2>2
<1>8. \A i \in 1 .. n : Good(r[i])
    <2> TAKE i \in 1 .. n
    <2>1. CASE i = n
        BY <2>1, <1>6
    <2>2. CASE i # n
        BY <2>2, <1>1, <1>6 DEF Stack
    <2> QED BY <2>1, <2>2
<1>9. \A i \in 2 .. n : Calls(r[i - 1], r[i])
    <2> TAKE i \in 2 .. n
    <2>1. Calls(fs[i - 1], fs[i])
        BY <1>1 DEF Stack
    <2>2. r[i - 1] = fs[i - 1]
        BY <1>1, <1>6
    <2>3. CASE i = n
        BY <2>1, <2>2, <2>3, <1>6 DEF Calls, Alike
    <2>4. CASE i # n
        BY <2>1, <2>2, <2>4, <1>1, <1>6
    <2> QED BY <2>3, <2>4
<1>10. Stack(r)
    BY <1>1, <1>6, <1>7, <1>8, <1>9 DEF Stack
<1>11. r = Cut(fs, n, g)
    BY DEF r, b, Cut
<1> QED BY <1>6, <1>10, <1>11

(* The last VM calls or forks f.                                           *)
LEMMA PushOK ==
    ASSUME NEW fs, Stack(fs), NEW f, Good(f), Calls(fs[Len(fs)], f)
    PROVE  /\ Stack(Append(fs, f))
           /\ Len(Append(fs, f)) = Len(fs) + 1 /\ Append(fs, f)[Len(fs) + 1] = f
<1>1. fs \in Seq(Frame) /\ Len(fs) \in Nat /\ Len(fs) >= 1 /\ f \in Frame
    BY DEF Stack, Good
<1> DEFINE r == Append(fs, f)
<1>2. /\ r \in Seq(Frame) /\ Len(r) = Len(fs) + 1 /\ r[Len(fs) + 1] = f
      /\ \A i \in 1 .. Len(fs) : r[i] = fs[i]
    BY <1>1
<1> HIDE DEF r
<1>3. \A i \in 1 .. Len(r) : Good(r[i])
    <2> TAKE i \in 1 .. Len(r)
    <2>1. CASE i = Len(fs) + 1
        BY <2>1, <1>2
    <2>2. CASE i # Len(fs) + 1
        BY <2>2, <1>1, <1>2 DEF Stack
    <2> QED BY <2>1, <2>2
<1>4. \A i \in 2 .. Len(r) : Calls(r[i - 1], r[i])
    <2> TAKE i \in 2 .. Len(r)
    <2>1. CASE i = Len(fs) + 1
        BY <2>1, <1>1, <1>2
    <2>2. CASE i # Len(fs) + 1
        BY <2>2, <1>1, <1>2 DEF Stack
    <2> QED BY <2>1, <2>2
<1>5. Stack(r)
    BY <1>1, <1>2, <1>3, <1>4 DEF Stack
<1> QED BY <1>2, <1>5 DEF r

-----------------------------------------------------------------------------
(* The two ways in which a step changes the stack.                         *)

StackInv == Stack(frames) /\ Running(Top, pc)

LEMMA Goes ==
    ASSUME Stack(frames), NEW n \in 1 .. Depth, NEW g, Good(g), Alike(frames[n], g),
           frames' = Cut(frames, n, g), Running(g, pc')
    PROVE  StackInv' /\ Top' = g /\ Depth' = n /\ Top'.proc = frames[n].proc
<1>1. Stack(frames') /\ Len(frames') = n /\ frames'[n] = g
    BY CutOK DEF Depth
<1> QED BY <1>1 DEF StackInv, Top, Depth, Alike

LEMMA GoesAndCalls ==
    ASSUME Stack(frames), NEW n \in 1 .. Depth, NEW g, Good(g), Alike(frames[n], g),
           NEW f, Good(f), Calls(g, f),
           frames' = Append(Cut(frames, n, g), f), Running(f, pc')
    PROVE  StackInv' /\ Top' = f /\ Depth' = n + 1
<1> DEFINE c == Cut(frames, n, g)
<1>1. Stack(c) /\ Len(c) = n /\ c[n] = g
    BY CutOK DEF Depth
<1> HIDE DEF c
<1>2. Stack(Append(c, f)) /\ Len(Append(c, f)) = n + 1 /\ Append(c, f)[n + 1] = f
    BY <1>1, PushOK
<1>3. frames' = Append(c, f)
    BY DEF c
<1> QED BY <1>2, <1>3 DEF StackInv, Top, Depth

LEMMA NullOK == NULL \in Actions /\ EXIT \in Signals \cup {EXIT}
BY DEF Actions

(* A fresh VM.                                                             *)
FreshOK(kind, proc, sig, text, save, after) ==
    /\ kind \in {"eval", "trap", "exit"} /\ proc \in Nat /\ sig \in Signals \cup {EXIT}
    /\ text \in Actions /\ save \in 0 .. 255 /\ after \in {"top", "fetch"}
    /\ kind = "eval" => after = "top"
    /\ kind = "trap" => after = "fetch" /\ sig \in Signals
    => LET f == vm_init(kind, proc, sig, text, save, after)
       IN  /\ Good(f) /\ Running(f, "top")
           /\ f.kind = kind /\ f.proc = proc /\ f.sig = sig /\ f.text = text

LEMMA Fresh ==
    ASSUME NEW kind, NEW proc, NEW sig, NEW text, NEW save, NEW after
    PROVE  FreshOK(kind, proc, sig, text, save, after)
<1> SUFFICES ASSUME kind \in {"eval", "trap", "exit"}, proc \in Nat, sig \in Signals \cup {EXIT},
                    text \in Actions, save \in 0 .. 255, after \in {"top", "fetch"},
                    kind = "eval" => after = "top",
                    kind = "trap" => after = "fetch" /\ sig \in Signals
             PROVE  LET f == vm_init(kind, proc, sig, text, save, after)
                    IN  /\ Good(f) /\ Running(f, "top")
                        /\ f.kind = kind /\ f.proc = proc /\ f.sig = sig /\ f.text = text
    BY DEF FreshOK
<1> DEFINE f == vm_init(kind, proc, sig, text, save, after)
<1>1. [s \in Signals |-> NULL] \in [Signals -> Actions]
    BY NullOK
<1>2. f \in Frame
    BY <1>1, NullOK DEF vm_init, Frame
<1>3. /\ f.kind = kind /\ f.proc = proc /\ f.sig = sig /\ f.text = text /\ f.after = after
      /\ f.halted = FALSE /\ f.why = "none" /\ f.nexit = 0 /\ f.late = 0 /\ f.exit_trap = NULL
    BY DEF vm_init
<1> HIDE DEF f
<1>4. Good(f) /\ Running(f, "top")
    BY <1>2, <1>3 DEF Good, Running, Settled, NoneLeft, Runs
<1> QED BY <1>3, <1>4 DEF f

(* vm_exit of the n-th VM, which goes on as f.                             *)
LEMMA ExitOK ==
    ASSUME Stack(frames), NEW n \in 1 .. Depth, NEW f, Good(f), Alike(frames[n], f),
           Settled(f), NoneLeft(f), f.why \in {"none", "exit"},
           NEW status \in 0 .. 255, NEW after \in {"top", "fetch"},
           after = "fetch" => f.late = 0,
           vm_exit(SubSeq(frames, 1, n - 1), f, status, after)
    PROVE  StackInv' /\ Top'.proc = frames[n].proc /\ pc' \in {"top", "fetch"}
<1>0. f \in Frame /\ f.exit_trap \in Actions /\ f.nexit \in Nat /\ f.late \in Nat
    BY DEF Good, Frame
<1>1. CASE Runs(f.exit_trap) /\ f.exit_trap \in Bad
    <2> DEFINE g == [f EXCEPT !.laststatus = status, !.halted = TRUE, !.why = "exit",
                              !.exit_trap = NULL, !.nexit = @ + 1]
    <2>1. frames' = Cut(frames, n, g) /\ pc' = after
        BY <1>1 DEF vm_exit, Cut
    <2>2. f.why = "none" /\ f.nexit = 0 /\ f.late = 0
        BY <1>0, <1>1 DEF NoneLeft, Settled, Good
    <2>3. g \in Frame
        <3>1. f.nexit + 1 \in Nat /\ NULL \in Actions
            BY <1>0, NullOK
        <3> QED BY <1>0, <3>1 DEF Frame
    <2>4. /\ g.kind = f.kind /\ g.proc = f.proc /\ g.sig = f.sig /\ g.text = f.text
          /\ g.after = f.after /\ g.halted = TRUE /\ g.why = "exit" /\ g.exit_trap = NULL
          /\ g.nexit = f.nexit + 1 /\ g.late = f.late
        BY <1>0 DEF Frame
    <2> HIDE DEF g
    <2>5. Good(g)
        BY <2>2, <2>3, <2>4 DEF Good, Runs
    <2>6. Alike(frames[n], g)
        BY <2>4 DEF Alike
    <2>7. Running(g, pc')
        BY <2>1, <2>2, <2>4 DEF Running, Settled, NoneLeft, Runs
    <2> QED BY <2>1, <2>5, <2>6, <2>7, Goes
<1>2. CASE Runs(f.exit_trap) /\ f.exit_trap \notin Bad
    <2> DEFINE g == [f EXCEPT !.laststatus = status, !.exit_trap = NULL, !.nexit = @ + 1]
    <2> DEFINE h == vm_init("exit", f.proc, EXIT, f.exit_trap, status, after)
    <2>1. frames' = Append(Cut(frames, n, g), h) /\ pc' = "top"
        BY <1>2 DEF vm_exit, Cut
    <2>2. f.why = "none" /\ f.nexit = 0 /\ f.late = 0 /\ f.halted = FALSE
        BY <1>0, <1>2 DEF NoneLeft, Settled, Good, Frame
    <2>3. g \in Frame
        <3>1. f.nexit + 1 \in Nat /\ NULL \in Actions
            BY <1>0, NullOK
        <3> QED BY <1>0, <3>1 DEF Frame
    <2>4. /\ g.kind = f.kind /\ g.proc = f.proc /\ g.sig = f.sig /\ g.text = f.text
          /\ g.after = f.after /\ g.halted = f.halted /\ g.why = f.why /\ g.exit_trap = NULL
          /\ g.nexit = f.nexit + 1 /\ g.late = f.late
        BY <1>0 DEF Frame
    <2>5. f.proc \in Nat /\ f.exit_trap \in Actions
        BY <1>0 DEF Frame
    <2>6. Good(h) /\ Running(h, "top") /\ h.kind = "exit" /\ h.proc = f.proc
        <3>1. FreshOK("exit", f.proc, EXIT, f.exit_trap, status, after)
            BY Fresh
        <3> QED BY <2>5, <3>1, NullOK DEF FreshOK
    <2> HIDE DEF g, h
    <2>7. Good(g)
        BY <2>2, <2>3, <2>4 DEF Good, Runs
    <2>8. Alike(frames[n], g)
        BY <2>4 DEF Alike
    <2>9. Calls(g, h)
        BY <2>2, <2>4, <2>5, <2>6 DEF Calls, NoneLeft
    <2> QED BY <2>1, <2>4, <2>6, <2>7, <2>8, <2>9, GoesAndCalls DEF Alike
<1>3. CASE ~Runs(f.exit_trap)
    <2> DEFINE g == [f EXCEPT !.laststatus = status, !.halted = TRUE, !.why = "exit"]
    <2>1. frames' = Cut(frames, n, g) /\ pc' = after
        BY <1>3 DEF vm_exit, Cut
    <2>2. g \in Frame
        BY <1>0 DEF Frame
    <2>3. /\ g.kind = f.kind /\ g.proc = f.proc /\ g.sig = f.sig /\ g.text = f.text
          /\ g.after = f.after /\ g.halted = TRUE /\ g.why = "exit" /\ g.exit_trap = f.exit_trap
          /\ g.nexit = f.nexit /\ g.late = f.late
        BY <1>0 DEF Frame
    <2> HIDE DEF g
    <2>4. Good(g)
        BY <1>3, <2>2, <2>3 DEF Good
    <2>5. Alike(frames[n], g)
        BY <2>3 DEF Alike
    <2>6. Running(g, pc')
        BY <1>3, <2>1, <2>3 DEF Running, Settled, NoneLeft
    <2> QED BY <2>1, <2>4, <2>5, <2>6, Goes
<1> QED BY <1>1, <1>2, <1>3

-----------------------------------------------------------------------------
(* The loop.                                                               *)

LEMMA TopOK ==
    ASSUME IInv
    PROVE  /\ Stack(frames) /\ Depth \in Nat /\ Depth >= 1 /\ Depth \in 1 .. Depth
           /\ Top = frames[Depth] /\ Top \in Frame /\ Good(Top) /\ Running(Top, pc)
<1>1. Stack(frames) /\ Running(Top, pc)
    BY DEF IInv
<1>2. frames \in Seq(Frame) /\ Len(frames) \in Nat /\ Len(frames) >= 1
    BY <1>1 DEF Stack
<1>3. Good(frames[Len(frames)])
    BY <1>1, <1>2 DEF Stack
<1> QED BY <1>1, <1>2, <1>3 DEF Depth, Top, Good

LEMMA SafePointOK ==
    ASSUME IInv, SafePoint
    PROVE  StackInv' /\ Top' = Top
<1>1. /\ pc = "top" /\ ~Top.halted /\ frames' = frames /\ pc' \in {"got", "fetch"}
    BY DEF SafePoint
<1>2. Top' = Top
    BY <1>1 DEF Top, Depth
<1>3. Top.why = "none" /\ Top.late = 0
    BY <1>1, TopOK DEF Good, Frame
<1>4. Running(Top, pc')
    BY <1>1, <1>3, TopOK DEF Running
<1>5. Stack(frames')
    BY <1>1, TopOK
<1> QED BY <1>2, <1>4, <1>5 DEF StackInv

LEMMA DispatchOK ==
    ASSUME IInv, Dispatch
    PROVE  StackInv' /\ Top'.proc = Top.proc /\ nrun' \in {nrun, nrun + 1}
<1> DEFINE handler == Top.trap_handlers[got]
<1>1. /\ pc = "got" /\ Top.proc \in Nat /\ ~Top.halted /\ got \in Signals
      /\ Top.why = "none" /\ Top.late = 0 /\ handler \in Actions
    BY TopOK DEF Dispatch, IInv, Counted, Good, Frame
<1>2. CASE handler \in Texts \ Bad
    <2> DEFINE h == vm_init("trap", Top.proc, got, handler, 0, "fetch")
    <2>1. frames' = Append(frames, h) /\ pc' = "top" /\ nrun' = nrun + 1
        BY <1>2, TrapsAssumption DEF Dispatch
    <2>2. FreshOK("trap", Top.proc, got, handler, 0, "fetch")
        BY Fresh
    <2>3. Top.proc \in Nat
        BY <1>1
    <2>4. Good(h) /\ Running(h, "top") /\ h.kind = "trap" /\ h.proc = Top.proc
          /\ h.sig = got /\ h.text = handler
        BY <1>1, <2>2, <2>3 DEF FreshOK
    <2> HIDE DEF h
    <2>5. Calls(Top, h)
        BY <1>1, <2>4, TopOK DEF Calls, Running, NoneLeft
    <2>6. Stack(frames') /\ Len(frames') = Len(frames) + 1 /\ frames'[Len(frames) + 1] = h
        BY <2>1, <2>4, <2>5, TopOK, PushOK DEF Depth
    <2> QED BY <2>1, <2>4, <2>6 DEF StackInv, Top, Depth
<1>3. CASE handler \in Bad
    <2> DEFINE g == [Top EXCEPT !.laststatus = 2]
    <2>1. frames' = Cut(frames, Depth, g) /\ pc' = "fetch" /\ nrun' = nrun
        BY <1>3, TrapsAssumption DEF Dispatch, SetTop, Below, Cut
    <2>2. g \in Frame /\ g = [Top EXCEPT !.laststatus = 2]
        BY TopOK DEF Frame
    <2>3. /\ g.kind = Top.kind /\ g.proc = Top.proc /\ g.sig = Top.sig /\ g.text = Top.text
          /\ g.after = Top.after /\ g.halted = Top.halted /\ g.why = Top.why
          /\ g.exit_trap = Top.exit_trap /\ g.xproc = Top.xproc
          /\ g.nexit = Top.nexit /\ g.late = Top.late
        BY TopOK DEF Frame
    <2> HIDE DEF g
    <2>4. Good(g) /\ Alike(frames[Depth], g)
        BY <2>2, <2>3, TopOK DEF Good, Alike
    <2>5. Running(g, pc')
        BY <1>1, <2>1, <2>3, TopOK DEF Running, Settled, NoneLeft
    <2> QED BY <2>1, <2>4, <2>5, TopOK, Goes
<1>4. CASE handler = Ignore
    <2>1. frames' = frames /\ pc' = "fetch" /\ nrun' = nrun
        BY <1>4, TrapsAssumption DEF Dispatch, Ignore, NULL
    <2>2. Top' = Top
        BY <2>1 DEF Top, Depth
    <2>3. Running(Top, pc')
        BY <1>1, <2>1, TopOK DEF Running
    <2> QED BY <2>1, <2>2, <2>3, TopOK DEF StackInv
<1>5. CASE handler = NULL
    <2> DEFINE g == [Top EXCEPT !.laststatus = 128 + got, !.halted = TRUE, !.why = "signal"]
    <2>1. frames' = Cut(frames, Depth, g) /\ pc' = "top" /\ nrun' = nrun
        BY <1>5, TrapsAssumption DEF Dispatch, SetTop, Below, Cut, Ignore, NULL
    <2>2. g \in Frame
        <3>1. 128 + got \in 0 .. 255
            BY <1>1 DEF Signals, SIGINT, SIGTERM
        <3> QED BY <3>1, TopOK DEF Frame
    <2>3. /\ g.kind = Top.kind /\ g.proc = Top.proc /\ g.sig = Top.sig /\ g.text = Top.text
          /\ g.after = Top.after /\ g.halted = TRUE /\ g.why = "signal"
          /\ g.exit_trap = Top.exit_trap /\ g.xproc = Top.xproc
          /\ g.nexit = Top.nexit /\ g.late = Top.late
        BY TopOK DEF Frame
    <2> HIDE DEF g
    <2>4. Good(g) /\ Alike(frames[Depth], g)
        BY <1>1, <2>2, <2>3, TopOK DEF Good, Alike
    <2>5. Running(g, pc')
        BY <1>1, <2>1, <2>3, TopOK DEF Running, Settled, NoneLeft
    <2> QED BY <2>1, <2>4, <2>5, TopOK, Goes
<1> QED BY <1>1, <1>2, <1>3, <1>4, <1>5 DEF Actions

LEMMA DispatchAnswers ==
    ASSUME IInv, Dispatch
    PROVE  Answered
<1> DEFINE handler == Top.trap_handlers[got]
<1>1. Top \in Frame /\ handler \in Actions /\ frames \in Seq(Frame) /\ got \in Signals
      /\ Depth \in Nat /\ Depth >= 1 /\ Depth = Len(frames)
    BY TopOK DEF IInv, Counted, Frame, Stack, Depth
<1>2. CASE handler \in Texts \ Bad
    <2> DEFINE h == vm_init("trap", Top.proc, got, handler, 0, "fetch")
    <2>1. frames' = Append(frames, h)
        BY <1>2, TrapsAssumption DEF Dispatch
    <2>2. h.kind = "trap" /\ h.sig = got
        BY DEF vm_init
    <2> HIDE DEF h
    <2>3. Len(frames') = Depth + 1 /\ frames'[Depth + 1] = h
        BY <1>1, <2>1
    <2> QED BY <2>2, <2>3 DEF Answered, Top, Depth
<1>3. CASE handler \in Bad \cup {Ignore}
    BY <1>3 DEF Answered
<1>4. CASE handler = NULL
    <2> DEFINE g == [Top EXCEPT !.laststatus = 128 + got, !.halted = TRUE, !.why = "signal"]
    <2>1. frames' = Append(Below, g)
        BY <1>4, TrapsAssumption DEF Dispatch, SetTop, Ignore, NULL
    <2>2. g.halted = TRUE /\ g.laststatus = 128 + got
        BY <1>1 DEF Frame
    <2> HIDE DEF g
    <2>3. Len(Below) = Depth - 1
        BY <1>1, SubSeqProperties DEF Below
    <2>4. Len(frames') = Depth /\ frames'[Depth] = g
        BY <1>1, <2>1, <2>3
    <2> QED BY <2>2, <2>4 DEF Answered, Top, Depth
<1> QED BY <1>1, <1>2, <1>3, <1>4 DEF Actions

-----------------------------------------------------------------------------
(* Opcodes.                                                                *)

(* g is what an opcode that neither exits nor calls makes of the VM f.     *)
Later(f, g) ==
    /\ g \in Frame /\ Alike(f, g)
    /\ g.after = f.after /\ g.nexit = f.nexit /\ g.late = f.late
    /\ g.halted <=> g.why # "none"
    /\ g.why = f.why \/ (f.why = "none" /\ g.why = "return")
    /\ Runs(g.exit_trap) => g.xproc = g.proc

(* The VM that has read an opcode.                                         *)
Read(f) ==
    /\ Good(f) /\ Alike(Top, f) /\ Settled(f) /\ NoneLeft(f)
    /\ f.why \in {"none", "exit"} /\ (f.why = "exit" => f.late = 1)

LEMMA FetchedOK ==
    ASSUME IInv, pc = "fetch"
    PROVE  Read(Fetched)
<1>1. /\ Top \in Frame /\ Good(Top) /\ Settled(Top) /\ NoneLeft(Top)
      /\ Top.late = 0 /\ Top.why \in {"none", "exit"}
    BY TopOK DEF Running
<1> DEFINE l == IF Top.why = "none" THEN 0 ELSE 1
<1> DEFINE g == [Top EXCEPT !.late = @ + l]
<1>2. Top.late + l = l /\ l \in Nat /\ (Top.why = "none" => l = 0) /\ l <= 1
      /\ (Top.why = "exit" => l = 1) /\ (l = 1 => Top.why = "exit")
    BY <1>1
<1>3. g = [Top EXCEPT !.late = l]
    BY <1>2
<1> HIDE DEF l
<1>4. g \in Frame
    BY <1>1, <1>2, <1>3 DEF Frame
<1>5. /\ g.kind = Top.kind /\ g.proc = Top.proc /\ g.sig = Top.sig /\ g.text = Top.text
      /\ g.after = Top.after /\ g.halted = Top.halted /\ g.why = Top.why
      /\ g.exit_trap = Top.exit_trap /\ g.xproc = Top.xproc
      /\ g.nexit = Top.nexit /\ g.late = l
    BY <1>1, <1>3 DEF Frame
<1>6. g = Fetched
    BY DEF Fetched, l
<1> HIDE DEF g
<1>7. Read(g)
    BY <1>1, <1>2, <1>4, <1>5 DEF Read, Good, Alike, Settled, NoneLeft
<1> QED BY <1>6, <1>7

LEMMA OpTop ==
    ASSUME IInv, NEW f, Read(f), NEW g, Later(f, g), frames' = SetTop(g), pc' = "top"
    PROVE  StackInv' /\ Top'.proc = Top.proc
<1>1. frames' = Cut(frames, Depth, g)
    BY DEF SetTop, Below, Cut
<1>2. Good(g)
    BY DEF Read, Later, Good, Alike
<1>3. Alike(frames[Depth], g)
    BY TopOK DEF Read, Later, Alike
<1>4. Running(g, pc')
    BY DEF Read, Later, Running, Settled, NoneLeft, Good
<1> QED BY <1>1, <1>2, <1>3, <1>4, TopOK, Goes

LEMMA BuiltinLater ==
    ASSUME NEW f, NEW g, Later(f, g)
    PROVE  Later(f, AfterBuiltin(g))
<1>1. CASE g.return_requested /\ ~g.halted
    <2> DEFINE h == [g EXCEPT !.halted = TRUE, !.why = "return"]
    <2>1. g \in Frame
        BY DEF Later
    <2>2. h \in Frame
        BY <2>1 DEF Frame
    <2>3. /\ h.kind = g.kind /\ h.proc = g.proc /\ h.sig = g.sig /\ h.text = g.text
          /\ h.after = g.after /\ h.halted = TRUE /\ h.why = "return"
          /\ h.exit_trap = g.exit_trap /\ h.xproc = g.xproc
          /\ h.nexit = g.nexit /\ h.late = g.late
        BY <2>1 DEF Frame
    <2>4. h = AfterBuiltin(g)
        BY <1>1 DEF AfterBuiltin
    <2> HIDE DEF h
    <2>5. Later(f, h)
        BY <1>1, <2>2, <2>3 DEF Later, Alike
    <2> QED BY <2>4, <2>5
<1>2. CASE ~(g.return_requested /\ ~g.halted)
    BY <1>2 DEF AfterBuiltin
<1> QED BY <1>1, <1>2

LEMMA StatusLater ==
    ASSUME NEW f, Good(f), NEW status \in 0 .. 255
    PROVE  /\ Later(f, f)
           /\ Later(f, [f EXCEPT !.laststatus = status])
           /\ Later(f, [f EXCEPT !.laststatus = status, !.return_requested = TRUE])
<1>0. f \in Frame
    BY DEF Good
<1>1. Later(f, f)
    BY DEF Good, Later, Alike
<1>2. Later(f, [f EXCEPT !.laststatus = status])
    <2> DEFINE g == [f EXCEPT !.laststatus = status]
    <2>1. g \in Frame
        BY <1>0 DEF Frame
    <2>2. /\ g.kind = f.kind /\ g.proc = f.proc /\ g.sig = f.sig /\ g.text = f.text
          /\ g.after = f.after /\ g.halted = f.halted /\ g.why = f.why
          /\ g.exit_trap = f.exit_trap /\ g.xproc = f.xproc
          /\ g.nexit = f.nexit /\ g.late = f.late
        BY <1>0 DEF Frame
    <2> HIDE DEF g
    <2>3. Later(f, g)
        BY <2>1, <2>2 DEF Good, Later, Alike
    <2> QED BY <2>3 DEF g
<1>3. Later(f, [f EXCEPT !.laststatus = status, !.return_requested = TRUE])
    <2> DEFINE g == [f EXCEPT !.laststatus = status, !.return_requested = TRUE]
    <2>1. g \in Frame
        BY <1>0 DEF Frame
    <2>2. /\ g.kind = f.kind /\ g.proc = f.proc /\ g.sig = f.sig /\ g.text = f.text
          /\ g.after = f.after /\ g.halted = f.halted /\ g.why = f.why
          /\ g.exit_trap = f.exit_trap /\ g.xproc = f.xproc
          /\ g.nexit = f.nexit /\ g.late = f.late
        BY <1>0 DEF Frame
    <2> HIDE DEF g
    <2>3. Later(f, g)
        BY <2>1, <2>2 DEF Good, Later, Alike
    <2> QED BY <2>3 DEF g
<1> QED BY <1>1, <1>2, <1>3

LEMMA TrapLater ==
    ASSUME NEW f, Good(f), NEW action \in Actions, NEW sig \in Signals
    PROVE  /\ Later(f, [[f EXCEPT !.exit_trap = action, !.xproc = f.proc]
                           EXCEPT !.laststatus = 0])
           /\ Later(f, [[f EXCEPT !.trap_handlers[sig] = action] EXCEPT !.laststatus = 0])
<1>0. f \in Frame
    BY DEF Good
<1>1. Later(f, [[f EXCEPT !.exit_trap = action, !.xproc = f.proc] EXCEPT !.laststatus = 0])
    <2> DEFINE e == [f EXCEPT !.exit_trap = action, !.xproc = f.proc]
    <2> DEFINE g == [e EXCEPT !.laststatus = 0]
    <2>1. g \in Frame
        <3>1. f.proc \in Nat /\ 0 \in 0 .. 255
            BY <1>0 DEF Frame
        <3>2. e \in Frame
            BY <1>0, <3>1 DEF Frame
        <3> HIDE DEF e
        <3> QED BY <3>1, <3>2 DEF Frame
    <2>2. /\ g.kind = f.kind /\ g.proc = f.proc /\ g.sig = f.sig /\ g.text = f.text
          /\ g.after = f.after /\ g.halted = f.halted /\ g.why = f.why
          /\ g.xproc = f.proc /\ g.nexit = f.nexit /\ g.late = f.late
        BY <1>0 DEF Frame
    <2> HIDE DEF g
    <2>3. Later(f, g)
        BY <2>1, <2>2 DEF Good, Later, Alike
    <2> QED BY <2>3 DEF g
<1>2. Later(f, [[f EXCEPT !.trap_handlers[sig] = action] EXCEPT !.laststatus = 0])
    <2> DEFINE e == [f EXCEPT !.trap_handlers[sig] = action]
    <2> DEFINE g == [e EXCEPT !.laststatus = 0]
    <2>1. g \in Frame
        <3>1. f.trap_handlers \in [Signals -> Actions] /\ 0 \in 0 .. 255
            BY <1>0 DEF Frame
        <3>2. [f.trap_handlers EXCEPT ![sig] = action] \in [Signals -> Actions]
            BY <3>1
        <3>3. e = [f EXCEPT !.trap_handlers = [f.trap_handlers EXCEPT ![sig] = action]]
            BY <1>0 DEF Frame
        <3>4. e \in Frame
            BY <1>0, <3>2, <3>3 DEF Frame
        <3> HIDE DEF e
        <3> QED BY <3>1, <3>4 DEF Frame
    <2>2. /\ g.kind = f.kind /\ g.proc = f.proc /\ g.sig = f.sig /\ g.text = f.text
          /\ g.after = f.after /\ g.halted = f.halted /\ g.why = f.why
          /\ g.exit_trap = f.exit_trap /\ g.xproc = f.xproc
          /\ g.nexit = f.nexit /\ g.late = f.late
        BY <1>0 DEF Frame
    <2> HIDE DEF g
    <2>3. Later(f, g)
        BY <2>1, <2>2 DEF Good, Later, Alike
    <2> QED BY <2>3 DEF g
<1> QED BY <1>1, <1>2

(* Opcodes and builtins that go on in the same VM.                         *)
LEMMA SameVMOK ==
    ASSUME IInv,
           \/ OP_OTHER \/ OP_PIPELINE \/ builtin_exec
           \/ \E c \in Codes : OP_EXEC_SIMPLE(c) \/ OP_EXEC_BUILTIN(c) \/ builtin_return(c)
           \/ \E a \in Actions : \E s \in Signals \cup {EXIT} : builtin_trap(a, s)
    PROVE  StackInv' /\ Top'.proc = Top.proc /\ pc' \in {"top", "wait", "exec"}
<1>1. Read(Fetched) /\ Good(Fetched)
    <2>1. pc = "fetch"
        BY DEF OP_OTHER, OP_PIPELINE, OP_EXEC_SIMPLE, OP_EXEC_BUILTIN, builtin_return,
               builtin_trap, builtin_exec, Op, Fetch
    <2> QED BY <2>1, FetchedOK DEF Read
<1> DEFINE f == Fetched
<1>2. f = Fetched
    OBVIOUS
<1> HIDE DEF f
<1>3. Read(f) /\ Good(f)
    BY <1>1, <1>2
<1>4. Codes \subseteq 0 .. 255
    BY TrapsAssumption
<1>5. CASE OP_OTHER
    <2>1. frames' = SetTop(f) /\ pc' = "top"
        BY <1>2, <1>5 DEF OP_OTHER
    <2>2. Later(f, f)
        BY <1>3 DEF Good, Later, Alike
    <2> QED BY <1>3, <2>1, <2>2, OpTop
<1>6. CASE OP_PIPELINE \/ builtin_exec
    <2>1. frames' = Cut(frames, Depth, f) /\ pc' \in {"wait", "exec"}
        BY <1>2, <1>6 DEF OP_PIPELINE, builtin_exec, SetTop, Below, Cut
    <2>2. Alike(frames[Depth], f) /\ Running(f, pc')
        BY <1>3, <2>1, TopOK DEF Read, Running
    <2> QED BY <1>3, <2>1, <2>2, TopOK, Goes
<1>7. ASSUME NEW c \in Codes, OP_EXEC_SIMPLE(c)
      PROVE  StackInv' /\ Top'.proc = Top.proc /\ pc' = "top"
    <2>1. frames' = SetTop([f EXCEPT !.laststatus = c]) /\ pc' = "top"
        BY <1>2, <1>7 DEF OP_EXEC_SIMPLE
    <2>2. Later(f, [f EXCEPT !.laststatus = c])
        BY <1>3, <1>4, StatusLater
    <2> QED BY <1>3, <2>1, <2>2, OpTop
<1>8. ASSUME NEW c \in Codes, OP_EXEC_BUILTIN(c)
      PROVE  StackInv' /\ Top'.proc = Top.proc /\ pc' = "top"
    <2> DEFINE g == [f EXCEPT !.laststatus = c]
    <2>1. frames' = SetTop(AfterBuiltin(g)) /\ pc' = "top"
        BY <1>2, <1>8 DEF OP_EXEC_BUILTIN
    <2>2. Later(f, g)
        BY <1>3, <1>4, StatusLater
    <2> HIDE DEF g
    <2> QED BY <1>3, <2>1, <2>2, BuiltinLater, OpTop
<1>9. ASSUME NEW c \in Codes, builtin_return(c)
      PROVE  StackInv' /\ Top'.proc = Top.proc /\ pc' = "top"
    <2> DEFINE g == [f EXCEPT !.laststatus = c, !.return_requested = TRUE]
    <2>1. frames' = SetTop(AfterBuiltin(g)) /\ pc' = "top"
        BY <1>2, <1>9 DEF builtin_return
    <2>2. Later(f, g)
        BY <1>3, <1>4, StatusLater
    <2> HIDE DEF g
    <2> QED BY <1>3, <2>1, <2>2, BuiltinLater, OpTop
<1>10. ASSUME NEW a \in Actions, NEW s \in Signals \cup {EXIT}, builtin_trap(a, s)
       PROVE  StackInv' /\ Top'.proc = Top.proc /\ pc' = "top"
    <2>0. Top.proc = f.proc
        BY <1>3 DEF Read, Alike
    <2>1. CASE s = EXIT
        <3> DEFINE g == [[f EXCEPT !.exit_trap = a, !.xproc = f.proc] EXCEPT !.laststatus = 0]
        <3>1. frames' = SetTop(AfterBuiltin(g)) /\ pc' = "top"
            BY <1>2, <1>10, <2>0, <2>1 DEF builtin_trap
        <3>2. SIGINT \in Signals
            BY DEF Signals
        <3>3. Later(f, g)
            BY <1>3, <3>2, TrapLater
        <3> HIDE DEF g
        <3> QED BY <1>3, <3>1, <3>3, BuiltinLater, OpTop
    <2>2. CASE s # EXIT
        <3> DEFINE g == [[f EXCEPT !.trap_handlers[s] = a] EXCEPT !.laststatus = 0]
        <3>1. frames' = SetTop(AfterBuiltin(g)) /\ pc' = "top"
            BY <1>2, <1>10, <2>2 DEF builtin_trap
        <3>2. Later(f, g)
            BY <1>3, <2>2, TrapLater
        <3> HIDE DEF g
        <3> QED BY <1>3, <3>1, <3>2, BuiltinLater, OpTop
    <2> QED BY <2>1, <2>2
<1> QED BY <1>5, <1>6, <1>7, <1>8, <1>9, <1>10

(* OP_HALT and exit.                                                       *)
LEMMA HaltOK ==
    ASSUME IInv, OP_HALT \/ \E c \in Codes : builtin_exit(c)
    PROVE  StackInv' /\ Top'.proc = Top.proc /\ pc' \in {"top", "fetch"}
<1>1. Read(Fetched)
    <2>1. pc = "fetch"
        BY DEF OP_HALT, builtin_exit, Op, Fetch
    <2> QED BY <2>1, FetchedOK
<1> DEFINE f == Fetched
<1>2. f = Fetched
    OBVIOUS
<1> HIDE DEF f
<1>3. /\ Good(f) /\ Alike(frames[Depth], f) /\ Settled(f) /\ NoneLeft(f)
      /\ f.why \in {"none", "exit"} /\ f \in Frame
    BY <1>1, <1>2, TopOK DEF Read, Good
<1>4. Below = SubSeq(frames, 1, Depth - 1)
    BY DEF Below
<1>5. CASE OP_HALT
    <2>1. vm_exit(SubSeq(frames, 1, Depth - 1), f, Top.laststatus, "top")
        BY <1>2, <1>4, <1>5 DEF OP_HALT
    <2>2. Top.laststatus \in 0 .. 255
        BY TopOK DEF Frame
    <2> QED BY <1>3, <2>1, <2>2, TopOK, ExitOK
<1>6. ASSUME NEW c \in Codes, builtin_exit(c)
      PROVE  StackInv' /\ Top'.proc = Top.proc /\ pc' \in {"top", "fetch"}
    <2> DEFINE g == [f EXCEPT !.laststatus = c, !.exit_requested = TRUE]
    <2>1. vm_exit(SubSeq(frames, 1, Depth - 1), g, c, "top")
        BY <1>2, <1>4, <1>6 DEF builtin_exit
    <2>2. c \in 0 .. 255
        BY TrapsAssumption
    <2>3. g \in Frame
        BY <1>3, <2>2 DEF Frame
    <2>4. /\ g.kind = f.kind /\ g.proc = f.proc /\ g.sig = f.sig /\ g.text = f.text
          /\ g.after = f.after /\ g.halted = f.halted /\ g.why = f.why
          /\ g.exit_trap = f.exit_trap /\ g.xproc = f.xproc
          /\ g.nexit = f.nexit /\ g.late = f.late
        BY <1>3 DEF Frame
    <2> HIDE DEF g
    <2>5. Good(g) /\ Alike(frames[Depth], g) /\ Settled(g) /\ NoneLeft(g)
        BY <1>3, <2>3, <2>4 DEF Good, Alike, Settled, NoneLeft
    <2> QED BY <1>3, <2>1, <2>2, <2>4, <2>5, TopOK, ExitOK
<1> QED BY <1>5, <1>6

(* eval and source.                                                        *)
LEMMA EvalOK ==
    ASSUME IInv, NEW text \in Texts, builtin_eval(text)
    PROVE  StackInv' /\ Top'.proc = Top.proc /\ pc' = "top"
<1>1. Read(Fetched) /\ pc' = "top"
    BY FetchedOK DEF builtin_eval, Op, Fetch
<1> DEFINE f == Fetched
<1>2. f = Fetched
    OBVIOUS
<1> HIDE DEF f
<1>3. Read(f) /\ Good(f)
    BY <1>1, <1>2 DEF Read
<1>4. CASE text \in Bad
    <2> DEFINE g == [f EXCEPT !.laststatus = 1]
    <2>1. frames' = SetTop(AfterBuiltin(g))
        BY <1>2, <1>4 DEF builtin_eval
    <2>2. 1 \in 0 .. 255
        OBVIOUS
    <2>3. Later(f, g)
        BY <1>3, <2>2, StatusLater
    <2> HIDE DEF g
    <2> QED BY <1>1, <1>3, <2>1, <2>3, BuiltinLater, OpTop
<1>5. CASE text \notin Bad
    <2> DEFINE h == vm_init("eval", Top.proc, EXIT, text, 0, "top")
    <2>1. frames' = Append(Cut(frames, Depth, f), h)
        BY <1>2, <1>5 DEF builtin_eval, SetTop, Below, Cut
    <2>2. FreshOK("eval", Top.proc, EXIT, text, 0, "top")
        BY Fresh
    <2>3. Top.proc \in Nat /\ Top.proc = f.proc /\ text \in Actions
        BY <1>3, TopOK DEF Frame, Read, Alike, Actions
    <2>4. Good(h) /\ Running(h, "top") /\ h.kind = "eval" /\ h.proc = f.proc
        BY <2>2, <2>3, NullOK DEF FreshOK
    <2> HIDE DEF h
    <2>5. Calls(f, h)
        BY <1>3, <2>3, <2>4 DEF Calls, Read
    <2>6. Alike(frames[Depth], f)
        BY <1>3, TopOK DEF Read
    <2> QED BY <1>1, <1>3, <2>1, <2>3, <2>4, <2>5, <2>6, TopOK, GoesAndCalls
<1> QED BY <1>4, <1>5

LEMMA SubshellOK ==
    ASSUME IInv, OP_SUBSHELL
    PROVE  StackInv' /\ Top'.proc = Top.proc + 1 /\ pc' = "top"
<1>1. Read(Fetched) /\ pc' = "top"
    BY FetchedOK DEF OP_SUBSHELL, Op, Fetch
<1> DEFINE f == Fetched
<1> DEFINE h == [Top EXCEPT !.kind = "child", !.proc = @ + 1, !.exit_trap = NULL,
                            !.halted = FALSE, !.nexit = 0, !.why = "none", !.late = 0]
<1>2. f = Fetched /\ frames' = Append(Cut(frames, Depth, f), h)
    BY DEF OP_SUBSHELL, SetTop, Below, Cut
<1> HIDE DEF f
<1>3. Read(f) /\ Good(f) /\ Alike(frames[Depth], f) /\ Top.proc = f.proc
    BY <1>1, <1>2, TopOK DEF Read, Alike
<1>4. h \in Frame
    <2>1. Top.proc + 1 \in Nat /\ NULL \in Actions
        BY TopOK, NullOK DEF Frame
    <2> QED BY <2>1, TopOK DEF Frame
<1>5. /\ h.kind = "child" /\ h.proc = Top.proc + 1 /\ h.halted = FALSE /\ h.why = "none"
      /\ h.exit_trap = NULL /\ h.nexit = 0 /\ h.late = 0
    BY TopOK DEF Frame
<1> HIDE DEF h
<1>6. Good(h) /\ Running(h, "top")
    BY <1>4, <1>5 DEF Good, Running, Settled, NoneLeft, Runs
<1>7. Calls(f, h)
    BY <1>3, <1>5 DEF Calls, Read
<1> QED BY <1>1, <1>2, <1>3, <1>5, <1>6, <1>7, TopOK, GoesAndCalls

-----------------------------------------------------------------------------
(* The end of a VM.                                                        *)

LEMMA UnderOK ==
    ASSUME IInv, Top.kind # "main"
    PROVE  /\ Depth - 1 \in 1 .. Depth /\ Under = frames[Depth - 1]
           /\ Good(Under) /\ Under \in Frame /\ Calls(Under, Top)
           /\ Below2 = SubSeq(frames, 1, (Depth - 1) - 1)
<1>1. Depth # 1
    BY TopOK DEF Stack
<1>2. Depth - 1 \in 1 .. Depth /\ Depth \in 2 .. Depth /\ (Depth - 1) - 1 = Depth - 2
    BY <1>1, TopOK
<1>3. Good(frames[Depth - 1])
    BY <1>2, TopOK DEF Stack, Depth
<1>4. Calls(frames[Depth - 1], frames[Depth])
    BY <1>2, TopOK DEF Stack, Depth
<1> QED BY <1>2, <1>3, <1>4 DEF Under, Below2, Top, Good

LEMMA ToldOK ==
    ASSUME NEW p \in Frame, NEW f
    PROVE  Told(p, f) \in Frame
<1>1. ASSUME NEW a \in BOOLEAN, NEW b \in BOOLEAN
      PROVE  [p EXCEPT !.exit_requested = a, !.return_requested = b] \in Frame
    BY DEF Frame
<1> DEFINE a == p.exit_requested \/ f.exit_requested
           b == p.return_requested \/ f.return_requested
<1>2. a \in BOOLEAN /\ b \in BOOLEAN
    OBVIOUS
<1>3. Told(p, f) = [p EXCEPT !.exit_requested = a, !.return_requested = b]
    BY DEF Told
<1> HIDE DEF a, b
<1> QED BY <1>1, <1>2, <1>3

LEMMA LeaveStringOK ==
    ASSUME IInv, LeaveString
    PROVE  StackInv' /\ Top'.proc = Top.proc /\ pc' \in {"top", "fetch"}
<1> DEFINE u == Under
<1> DEFINE p == [Told(Under, Top) EXCEPT !.laststatus = Top.laststatus]
<1>1. Top.kind \in {"eval", "trap"} /\ Top.kind # "main"
    BY DEF LeaveString
<1>2. /\ Depth - 1 \in 1 .. Depth /\ u = frames[Depth - 1] /\ Good(u) /\ u \in Frame
      /\ Calls(u, Top) /\ Below2 = SubSeq(frames, 1, (Depth - 1) - 1)
    BY <1>1, UnderOK
<1>3. p \in Frame
    <2> DEFINE t == Told(Under, Top)
    <2>2. t \in Frame
        BY <1>2, ToldOK
    <2>3. Top.laststatus \in 0 .. 255
        BY TopOK DEF Frame
    <2>4. p = [t EXCEPT !.laststatus = Top.laststatus]
        OBVIOUS
    <2> HIDE DEF t, p
    <2> QED BY <2>2, <2>3, <2>4 DEF Frame
<1>4. /\ p.kind = u.kind /\ p.proc = u.proc /\ p.sig = u.sig /\ p.text = u.text
      /\ p.after = u.after /\ p.halted = u.halted /\ p.why = u.why
      /\ p.exit_trap = u.exit_trap /\ p.xproc = u.xproc
      /\ p.nexit = u.nexit /\ p.late = u.late
    BY <1>2 DEF Told, Frame
<1>5. \/ /\ Top.exit_requested
         /\ vm_exit(SubSeq(frames, 1, (Depth - 1) - 1), p, Top.laststatus, Top.after)
      \/ /\ frames' = Cut(frames, Depth - 1, IF Top.kind = "eval" THEN AfterBuiltin(p) ELSE p)
         /\ pc' = Top.after
    BY <1>2 DEF LeaveString, Cut
<1> HIDE DEF p, u
<1>6. Good(p) /\ Alike(frames[Depth - 1], p)
    BY <1>2, <1>3, <1>4 DEF Good, Alike
<1>7. Settled(p) /\ NoneLeft(p) /\ p.why \in {"none", "exit"}
    BY <1>1, <1>2, <1>4 DEF Calls, Settled, NoneLeft
<1>8. Top.laststatus \in 0 .. 255 /\ Top.after \in {"top", "fetch"}
    BY TopOK DEF Frame
<1>9. /\ Top.kind = "eval" => Top.after = "top"
      /\ Top.kind = "trap" => Top.after = "fetch" /\ p.why = "none"
    BY <1>2, <1>4, TopOK DEF Calls, Good
<1>10. Top.after = "fetch" => p.late = 0
    BY <1>1, <1>6, <1>9 DEF Good, Frame
<1>11. frames[Depth - 1].proc = Top.proc
    BY <1>1, <1>2 DEF Calls, Frame
<1>12. CASE vm_exit(SubSeq(frames, 1, (Depth - 1) - 1), p, Top.laststatus, Top.after)
    BY <1>2, <1>6, <1>7, <1>8, <1>11, <1>10, <1>12, TopOK, ExitOK
<1>13. CASE /\ frames' = Cut(frames, Depth - 1, IF Top.kind = "eval" THEN AfterBuiltin(p) ELSE p)
            /\ pc' = Top.after
    <2>1. CASE Top.kind = "eval"
        <3> DEFINE g == AfterBuiltin(p)
        <3>1. Later(p, p)
            BY <1>6 DEF Good, Later, Alike
        <3>2. Later(p, g)
            BY <3>1, BuiltinLater
        <3>3. frames' = Cut(frames, Depth - 1, g) /\ pc' = "top"
            BY <1>9, <1>13, <2>1
        <3>4. /\ g.exit_trap = p.exit_trap
            BY <1>3 DEF AfterBuiltin, Frame
        <3> HIDE DEF g
        <3>5. Good(g)
            BY <1>6, <3>2 DEF Good, Later, Alike
        <3>6. Alike(frames[Depth - 1], g)
            BY <1>6, <3>2 DEF Later, Alike
        <3>7. Running(g, pc')
            BY <1>7, <3>2, <3>3, <3>4 DEF Later, Running, Settled, NoneLeft
        <3> QED BY <1>11, <1>2, <3>3, <3>5, <3>6, <3>7, TopOK, Goes
    <2>2. CASE Top.kind = "trap"
        <3>1. frames' = Cut(frames, Depth - 1, p) /\ pc' = "fetch"
            BY <1>9, <1>13, <2>2
        <3>2. Running(p, pc')
            BY <1>7, <1>9, <1>10, <2>2, <3>1 DEF Running
        <3> QED BY <1>11, <1>2, <1>6, <3>1, <3>2, TopOK, Goes
    <2> QED BY <1>1, <2>1, <2>2
<1> QED BY <1>5, <1>12, <1>13

LEMMA LeaveExitOK ==
    ASSUME IInv, LeaveExit
    PROVE  StackInv' /\ Top'.proc = Top.proc /\ pc' \in {"top", "fetch"}
<1> DEFINE u == Under
<1> DEFINE g == [Told(Under, Top) EXCEPT !.laststatus = Top.save, !.halted = TRUE,
                                         !.why = "exit"]
<1>1. Top.kind = "exit" /\ Top.kind # "main"
    BY DEF LeaveExit
<1>2. /\ Depth - 1 \in 1 .. Depth /\ u = frames[Depth - 1] /\ Good(u) /\ u \in Frame
      /\ Calls(u, Top) /\ Below2 = SubSeq(frames, 1, (Depth - 1) - 1)
    BY <1>1, UnderOK
<1>3. g \in Frame
    <2> DEFINE t == Told(Under, Top)
    <2>2. t \in Frame
        BY <1>2, ToldOK
    <2>3. Top.save \in 0 .. 255
        BY TopOK DEF Frame
    <2>4. g = [t EXCEPT !.laststatus = Top.save, !.halted = TRUE, !.why = "exit"]
        OBVIOUS
    <2>5. ASSUME NEW r \in Frame, NEW status \in 0 .. 255
          PROVE  [r EXCEPT !.laststatus = status, !.halted = TRUE, !.why = "exit"] \in Frame
        BY DEF Frame
    <2> HIDE DEF t, g
    <2> QED BY <2>2, <2>3, <2>4, <2>5
<1>4. /\ g.kind = u.kind /\ g.proc = u.proc /\ g.sig = u.sig /\ g.text = u.text
      /\ g.after = u.after /\ g.halted = TRUE /\ g.why = "exit"
      /\ g.exit_trap = u.exit_trap /\ g.xproc = u.xproc
      /\ g.nexit = u.nexit /\ g.late = u.late
    BY <1>2 DEF Told, Frame
<1>5. frames' = Cut(frames, Depth - 1, g) /\ pc' = Top.after
    BY <1>2 DEF LeaveExit, Cut
<1>6. Top.after \in {"top", "fetch"}
    BY TopOK DEF Frame
<1> HIDE DEF g, u
<1>7. u.exit_trap = NULL /\ u.nexit = 1 /\ u.why = "none" /\ u.late = 0
    BY <1>1, <1>2 DEF Calls, Good, Frame
<1>8. Good(g)
    BY <1>2, <1>3, <1>4, <1>7 DEF Good, Runs
<1>9. Alike(frames[Depth - 1], g)
    BY <1>2, <1>4 DEF Alike
<1>10. Running(g, pc')
    BY <1>4, <1>5, <1>6, <1>7 DEF Running, Settled, NoneLeft, Runs
<1>11. frames[Depth - 1].proc = Top.proc
    BY <1>1, <1>2 DEF Calls, Frame
<1> QED BY <1>11, <1>2, <1>5, <1>6, <1>8, <1>9, <1>10, TopOK, Goes

(* A VM that goes on with another status only.                             *)
LEMMA StatusOK ==
    ASSUME NEW u, Good(u), NEW status \in 0 .. 255
    PROVE  LET g == [u EXCEPT !.laststatus = status]
           IN  /\ Good(g) /\ Alike(u, g)
               /\ g.why = u.why /\ g.nexit = u.nexit /\ g.exit_trap = u.exit_trap
               /\ g.late = u.late
<1> DEFINE g == [u EXCEPT !.laststatus = status]
<1>1. u \in Frame
    BY DEF Good
<1>2. g \in Frame
    BY <1>1 DEF Frame
<1>3. /\ g.kind = u.kind /\ g.proc = u.proc /\ g.sig = u.sig /\ g.text = u.text
      /\ g.after = u.after /\ g.halted = u.halted /\ g.why = u.why
      /\ g.exit_trap = u.exit_trap /\ g.xproc = u.xproc
      /\ g.nexit = u.nexit /\ g.late = u.late
    BY <1>1 DEF Frame
<1> HIDE DEF g
<1>4. Good(g) /\ Alike(u, g)
    BY <1>2, <1>3 DEF Good, Alike
<1> QED BY <1>3, <1>4 DEF g

(* A child ends: its parent has the i-1st VM.                              *)
LEMMA ChildEndsOK ==
    ASSUME IInv, NEW i \in 2 .. Depth, NEW status \in 0 .. 255, ChildEnds(i, status)
    PROVE  /\ StackInv' /\ pc' = "top"
           /\ Top'.proc \in Nat /\ frames[i].proc = Top'.proc + 1
           /\ pend' \subseteq pend /\ pend' \subseteq caught' \X Signals
           /\ caught' \subseteq 0 .. Top'.proc
<1> DEFINE u == frames[i - 1]
<1> DEFINE g == [u EXCEPT !.laststatus = status]
<1>1. i - 1 \in 1 .. Depth /\ (i - 1) - 1 = i - 2
    BY TopOK
<1>2. Good(u) /\ Calls(u, frames[i]) /\ u.proc \in Nat
    <2>1. Good(u) /\ Calls(u, frames[i])
        BY <1>1, TopOK DEF Stack, Depth
    <2>2. u \in Frame
        BY <2>1 DEF Good
    <2> QED BY <2>1, <2>2 DEF Frame
<1>3. frames[i].kind = "child" /\ frames[i].proc = u.proc + 1
    BY <1>2 DEF ChildEnds, Calls
<1>4. frames' = Cut(frames, i - 1, g) /\ pc' = "top"
    BY <1>1 DEF ChildEnds, Cut
<1>5. /\ Good(g) /\ Alike(u, g) /\ g.why = u.why /\ g.nexit = u.nexit
      /\ g.exit_trap = u.exit_trap /\ g.late = u.late
    BY <1>2, StatusOK
<1>6. Settled(u) /\ NoneLeft(u)
    BY <1>2, <1>3 DEF Calls
<1> HIDE DEF g
<1>7. Running(g, pc')
    BY <1>4, <1>5, <1>6 DEF Running, Settled, NoneLeft
<1>8. StackInv' /\ Top'.proc = u.proc
    BY <1>1, <1>4, <1>5, <1>7, TopOK, Goes
<1> HIDE DEF u
<1>9. /\ pend' = {x \in pend : x[1] < u.proc + 1}
      /\ caught' = {p \in caught : p < u.proc + 1}
    BY <1>3 DEF ChildEnds
<1>10. caught \subseteq 0 .. Top.proc /\ pend \subseteq caught \X Signals /\ Top.proc \in Nat
    BY TopOK DEF IInv, Counted, Frame
<1>11. caught' \subseteq 0 .. u.proc
    <2> SUFFICES ASSUME NEW p \in caught' PROVE p \in 0 .. u.proc
        OBVIOUS
    <2>1. p \in 0 .. Top.proc /\ p < u.proc + 1
        BY <1>9, <1>10
    <2> QED BY <1>2, <1>10, <2>1
<1>12. pend' \subseteq caught' \X Signals
    BY <1>9, <1>10
<1> QED BY <1>2, <1>3, <1>4, <1>8, <1>9, <1>11, <1>12

-----------------------------------------------------------------------------
(* The flags and the counters.                                             *)

(* Flags that go away, of processes that end or lose their handlers.       *)
LEMMA Fewer ==
    ASSUME IInv, pend' \subseteq pend, pend' \subseteq caught' \X Signals,
           UNCHANGED <<got, nrun>>, nops' \in 0 .. MaxOps,
           nsig' \in 0 .. MaxSig, nsig' >= nsig
    PROVE  Counted'
<1>1. /\ IsFiniteSet(pend) /\ nrun \in Nat /\ nsig \in Nat /\ got \in Signals
      /\ nrun + Cardinality(pend) <= nsig
    BY TrapsAssumption DEF IInv, Counted
<1>2. IsFiniteSet(pend') /\ Cardinality(pend') <= Cardinality(pend)
    BY <1>1, FS_Subset
<1>3. Cardinality(pend) \in Nat /\ Cardinality(pend') \in Nat
    BY <1>1, <1>2, FS_CardinalityType
<1>4. nrun' + Cardinality(pend') <= nsig'
    BY <1>1, <1>2, <1>3, TrapsAssumption
<1> QED BY <1>1, <1>2, <1>4 DEF Counted

LEMMA Same ==
    ASSUME IInv, UNCHANGED <<got, pend, caught, nsig, nrun>>, nops' \in 0 .. MaxOps
    PROVE  Counted'
BY DEF IInv, Counted

LEMMA OpCounted ==
    ASSUME IInv, Op
    PROVE  Counted' /\ caught' = caught
<1>1. nops' \in 0 .. MaxOps /\ UNCHANGED <<got, pend, caught, nsig, nrun>>
    BY TrapsAssumption DEF Op, Fetch, signals, IInv, Counted
<1> QED BY <1>1, Same

(* Flags of a process that executes are dropped.                           *)
LEMMA Dropped ==
    ASSUME IInv, NEW p, pend' = {x \in pend : x[1] # p}, caught' \in {caught, caught \ {p}}
    PROVE  pend' \subseteq pend /\ pend' \subseteq caught' \X Signals
<1>1. pend \subseteq caught \X Signals
    BY DEF IInv, Counted
<1> QED BY <1>1

LEMMA Assembled ==
    ASSUME IInv, StackInv', Counted', pc' \in {"top", "fetch", "wait", "exec", "over"},
           caught' \subseteq 0 .. Top'.proc
    PROVE  IInv'
BY DEF StackInv, IInv, ControlPoints

(* Of a step that neither forks nor ends a process.                        *)
LEMMA SameProcess ==
    ASSUME IInv, Top'.proc = Top.proc, caught' \subseteq caught \cup {Top.proc}
    PROVE  caught' \subseteq 0 .. Top'.proc
<1>1. caught \subseteq 0 .. Top.proc /\ Top.proc \in Nat
    BY TopOK DEF IInv, Frame
<1> QED BY <1>1

-----------------------------------------------------------------------------
(* The invariant.                                                          *)

LEMMA LeaveOK ==
    ASSUME IInv, Leave
    PROVE  IInv'
<1>0. UNCHANGED <<got, nops, nsig, nrun>>
    BY DEF Leave
<1>1. CASE (LeaveString \/ LeaveExit \/ LeaveMain) /\ UNCHANGED signals
    <2>1. UNCHANGED <<pend, caught>>
        BY <1>1 DEF signals
    <2>2. Counted'
        BY <1>0, <2>1, Same DEF IInv, Counted
    <2>3. StackInv' /\ Top'.proc = Top.proc /\ pc' \in {"top", "fetch", "over"}
        <3>1. CASE LeaveString
            BY <3>1, LeaveStringOK
        <3>2. CASE LeaveExit
            BY <3>2, LeaveExitOK
        <3>3. CASE LeaveMain
            <4>1. frames' = frames /\ pc' = "over"
                BY <3>3 DEF LeaveMain
            <4>2. Top' = Top /\ Running(Top, pc')
                BY <4>1, TopOK DEF Top, Depth, Running
            <4> QED BY <4>1, <4>2, TopOK DEF StackInv
        <3> QED BY <1>1, <3>1, <3>2, <3>3
    <2> QED BY <2>1, <2>2, <2>3, SameProcess, Assembled
<1>2. CASE LeaveChild
    <2>1. Top.kind # "main" /\ ChildEnds(Depth, Top.laststatus)
        BY <1>2 DEF LeaveChild, ChildEnds, Top
    <2>2. Depth - 1 \in 1 .. Depth
        BY <2>1, UnderOK
    <2>3. Depth \in 2 .. Depth /\ Top.laststatus \in 0 .. 255
        BY <2>2, TopOK DEF Frame
    <2>4. /\ StackInv' /\ pc' = "top" /\ caught' \subseteq 0 .. Top'.proc
          /\ pend' \subseteq pend /\ pend' \subseteq caught' \X Signals
        BY <2>1, <2>3, ChildEndsOK
    <2>5. Counted'
        BY <1>0, <2>4, Fewer, TrapsAssumption DEF IInv, Counted
    <2> QED BY <2>4, <2>5, Assembled
<1> QED BY <1>1, <1>2 DEF Leave

LEMMA WaitOK ==
    ASSUME IInv, NEW c \in Codes, PipelineEnds(c)
    PROVE  IInv'
<1> DEFINE g == [Top EXCEPT !.laststatus = c]
<1>1. /\ pc = "wait" /\ pc' = "top" /\ frames' = Cut(frames, Depth, g)
      /\ UNCHANGED <<got, pend, caught, nops, nsig, nrun>>
    BY DEF PipelineEnds, SetTop, Below, Cut, signals
<1>2. c \in 0 .. 255
    BY TrapsAssumption
<1>3. /\ Good(g) /\ Alike(Top, g) /\ g.why = Top.why /\ g.nexit = Top.nexit
      /\ g.exit_trap = Top.exit_trap /\ g.late = Top.late
    BY <1>2, TopOK, StatusOK
<1> HIDE DEF g
<1>4. Running(g, pc') /\ Alike(frames[Depth], g)
    BY <1>1, <1>3, TopOK DEF Running, Settled, NoneLeft
<1>5. StackInv' /\ Top'.proc = Top.proc
    BY <1>1, <1>3, <1>4, TopOK, Goes
<1>6. Counted'
    BY <1>1, Same DEF IInv, Counted
<1> QED BY <1>1, <1>5, <1>6, SameProcess, Assembled

(* exec.                                                                   *)
LEMMA ExecFailsOK ==
    ASSUME IInv, NEW c \in ExecErrors, ExecFails(c)
    PROVE  IInv'
<1> DEFINE f == [Top EXCEPT !.laststatus = c]
           g == AfterBuiltin(f)
<1>1. /\ pc = "exec" /\ pc' = "top" /\ frames' = Cut(frames, Depth, g)
      /\ pend' = pend /\ caught' = caught \cup {Top.proc}
      /\ UNCHANGED <<got, nops, nsig, nrun>>
    BY DEF ExecFails, signal_init, SetTop, Below, Cut
<1>2. c \in 0 .. 255
    BY DEF ExecErrors
<1>3. Later(Top, f)
    BY <1>2, TopOK, StatusLater
<1>4. f.exit_trap = Top.exit_trap /\ f \in Frame
    BY <1>3, TopOK DEF Later, Frame
<1> HIDE DEF f
<1>5. Later(Top, g)
    BY <1>3, BuiltinLater
<1>6. g.exit_trap = Top.exit_trap
    BY <1>4 DEF AfterBuiltin, Frame
<1> HIDE DEF g
<1>7. /\ Good(Top) /\ Settled(Top) /\ NoneLeft(Top)
    BY <1>1, TopOK DEF Running
<1>8. Good(g) /\ Alike(frames[Depth], g)
    BY <1>5, <1>7, TopOK DEF Good, Later, Alike
<1>9. Running(g, pc')
    BY <1>1, <1>5, <1>6, <1>7 DEF Later, Running, Settled, NoneLeft
<1>10. StackInv' /\ Top'.proc = Top.proc
    BY <1>1, <1>8, <1>9, TopOK, Goes
<1>11. pend \subseteq caught \X Signals
    BY DEF IInv, Counted
<1>12. Counted'
    BY <1>1, <1>11, Fewer, TrapsAssumption DEF IInv, Counted
<1> QED BY <1>1, <1>10, <1>12, SameProcess, Assembled

LEMMA ExecReplacesOK ==
    ASSUME IInv, NEW c \in Codes, ExecReplaces(c)
    PROVE  IInv'
<1>0. UNCHANGED <<got, nops, nsig, nrun>> /\ pc = "exec"
    BY DEF ExecReplaces
<1>1. CASE Top.proc = 0 /\ pc' = "over" /\ UNCHANGED <<frames, signals>>
    <2>1. frames' = frames /\ pc' = "over" /\ UNCHANGED <<pend, caught>>
        BY <1>1 DEF signals
    <2>2. Top' = Top /\ Running(Top, pc')
        BY <2>1, TopOK DEF Top, Depth, Running
    <2>3. StackInv'
        BY <2>1, <2>2, TopOK DEF StackInv
    <2>4. Counted'
        BY <1>0, <2>1, Same DEF IInv, Counted
    <2> QED BY <2>1, <2>2, <2>3, <2>4, SameProcess, Assembled
<1>2. ASSUME NEW i \in 2 .. Depth, ChildEnds(i, c) PROVE IInv'
    <2>1. c \in 0 .. 255
        BY TrapsAssumption
    <2>2. /\ StackInv' /\ pc' = "top" /\ caught' \subseteq 0 .. Top'.proc
          /\ pend' \subseteq pend /\ pend' \subseteq caught' \X Signals
        BY <1>2, <2>1, ChildEndsOK
    <2>3. Counted'
        BY <1>0, <2>2, Fewer, TrapsAssumption DEF IInv, Counted
    <2> QED BY <2>2, <2>3, Assembled
<1> QED BY <1>1, <1>2 DEF ExecReplaces

LEMMA InitOK == Init => IInv
<1> SUFFICES ASSUME Init PROVE IInv
    OBVIOUS
<1> DEFINE f == vm_init("main", 0, EXIT, NULL, 0, "top")
<1>1. [s \in Signals |-> NULL] \in [Signals -> Actions]
    BY NullOK
<1>2. f \in Frame
    BY <1>1, NullOK DEF vm_init, Frame
<1>3. /\ f.kind = "main" /\ f.proc = 0 /\ f.halted = FALSE /\ f.why = "none"
      /\ f.nexit = 0 /\ f.late = 0 /\ f.exit_trap = NULL
    BY DEF vm_init
<1>4. frames = <<f>>
    BY DEF Init
<1> HIDE DEF f
<1>5. frames \in Seq(Frame) /\ Len(frames) = 1 /\ frames[1] = f
    BY <1>2, <1>4
<1>6. Good(f) /\ Running(f, "top")
    BY <1>2, <1>3 DEF Good, Running, Settled, NoneLeft, Runs
<1>7. Stack(frames)
    BY <1>3, <1>5, <1>6 DEF Stack
<1>8. Top = f /\ Running(Top, pc)
    BY <1>5, <1>6 DEF Top, Depth, Init
<1>9. Counted
    BY TrapsAssumption, FS_EmptySet DEF Init, Counted, Signals
<1>10. pc = "top" /\ caught \subseteq 0 .. Top.proc
    BY <1>3, <1>8 DEF Init
<1> QED BY <1>7, <1>8, <1>9, <1>10 DEF IInv, ControlPoints

LEMMA LoopOK ==
    ASSUME IInv, LoopStep
    PROVE  IInv'
<1>1. CASE SafePoint
    <2>1. /\ StackInv' /\ Top' = Top /\ frames' = frames /\ ~Top.halted
          /\ UNCHANGED <<pend, caught, nops, nsig, nrun>> /\ got' \in Signals
        BY <1>1, SafePointOK
        DEF SafePoint, signals, IInv, Counted, signal_get_pending, Signals
    <2>2. Counted'
        BY <2>1 DEF IInv, Counted
    <2>3. caught' \subseteq 0 .. Top'.proc
        BY <2>1 DEF IInv
    <2>4. CASE Pending
        <3>1. pc' = "got" /\ got' = signal_get_pending /\ Flags(Top.proc) # {}
            BY <1>1, <2>4 DEF SafePoint, Pending
        <3>2. got' \in Flags(Top.proc)
            BY <3>1 DEF signal_get_pending, Flags, Signals
        <3>3. Flags(Top.proc)' = Flags(Top.proc)
            BY <2>1 DEF Flags
        <3> QED BY <2>1, <2>2, <2>3, <3>1, <3>2, <3>3 DEF IInv, StackInv, ControlPoints
    <2>5. CASE ~Pending
        <3>1. pc' = "fetch"
            BY <1>1, <2>5 DEF SafePoint
        <3> QED BY <2>1, <2>2, <2>3, <3>1, Assembled
    <2> QED BY <2>4, <2>5
<1>2. CASE Dispatch
    <2>1. StackInv' /\ Top'.proc = Top.proc /\ nrun' \in {nrun, nrun + 1}
        BY <1>2, DispatchOK
    <2>2. /\ pc' \in {"top", "fetch"} /\ pc = "got" /\ UNCHANGED <<got, nops, nsig, caught>>
          /\ pend' = {x \in pend : x[1] # Top.proc}
        BY <1>2 DEF Dispatch, signal_clear
    <2>3. /\ nrun \in Nat /\ nsig \in 0 .. MaxSig /\ got \in Signals /\ nops \in 0 .. MaxOps
          /\ IsFiniteSet(pend) /\ nrun + Cardinality(pend) <= nsig
          /\ <<Top.proc, got>> \in pend
        BY <2>2 DEF IInv, Counted, Flags
    <2>4. pend' \subseteq pend \ {<<Top.proc, got>>} /\ pend' \subseteq caught' \X Signals
        <3>1. \A x \in pend' : x \in pend /\ x[1] # Top.proc
            BY <2>2
        <3>2. <<Top.proc, got>>[1] = Top.proc
            OBVIOUS
        <3>3. <<Top.proc, got>> \notin pend'
            BY <3>1, <3>2
        <3> QED BY <2>2, <3>1, <3>3, Dropped
    <2>5. /\ IsFiniteSet(pend \ {<<Top.proc, got>>})
          /\ Cardinality(pend \ {<<Top.proc, got>>}) = Cardinality(pend) - 1
        BY <2>3, FS_RemoveElement
    <2>6. IsFiniteSet(pend') /\ Cardinality(pend') <= Cardinality(pend) - 1
        BY <2>4, <2>5, FS_Subset
    <2>7. Cardinality(pend) \in Nat /\ Cardinality(pend') \in Nat
        BY <2>3, <2>6, FS_CardinalityType
    <2>8. nrun' \in Nat /\ nrun' + Cardinality(pend') <= nsig'
        BY <2>1, <2>2, <2>3, <2>6, <2>7, TrapsAssumption
    <2>9. Counted'
        BY <2>2, <2>3, <2>4, <2>6, <2>8 DEF Counted
    <2> QED BY <2>1, <2>2, <2>9, SameProcess, Assembled
<1>3. CASE WaitEINTR
    <2>1. /\ frames' = frames /\ pc' = pc /\ pc = "wait"
          /\ UNCHANGED <<got, nops, nsig, nrun, caught>>
          /\ pend' = {x \in pend : x[1] # Top.proc}
        BY <1>3 DEF WaitEINTR, signal_clear
    <2>2. StackInv' /\ Top' = Top
        BY <2>1, TopOK DEF StackInv, Top, Depth
    <2>3. pend' \subseteq pend /\ pend' \subseteq caught' \X Signals
        BY <2>1, Dropped
    <2>4. Counted'
        BY <2>1, <2>3, Fewer, TrapsAssumption DEF IInv, Counted
    <2> QED BY <2>1, <2>2, <2>4, SameProcess, Assembled
<1>4. CASE Leave
    BY <1>4, LeaveOK
<1> QED BY <1>1, <1>2, <1>3, <1>4, WaitOK, ExecFailsOK, ExecReplacesOK DEF LoopStep

LEMMA ScriptOK ==
    ASSUME IInv, ScriptStep
    PROVE  IInv'
<1>1. CASE OP_HALT
    <2>1. UNCHANGED <<got, pend, caught, nops, nsig, nrun>>
        BY <1>1 DEF OP_HALT, signals
    <2>2. Counted'
        BY <2>1, Same DEF IInv, Counted
    <2> QED BY <1>1, <2>1, <2>2, HaltOK, SameProcess, Assembled
<1>2. CASE builtin_exec
    <2>1. /\ pend' = {x \in pend : x[1] # Top.proc} /\ caught' = caught \ {Top.proc}
          /\ UNCHANGED <<got, nsig, nrun>> /\ nops' \in 0 .. MaxOps
        BY <1>2, TrapsAssumption DEF builtin_exec, Fetch, signal_reset, IInv, Counted
    <2>2. pend' \subseteq pend /\ pend' \subseteq caught' \X Signals
        BY <2>1, Dropped
    <2>3. Counted'
        BY <2>1, <2>2, Fewer, TrapsAssumption DEF IInv, Counted
    <2> QED BY <1>2, <2>1, <2>3, SameVMOK, SameProcess, Assembled
<1>3. CASE OP_SUBSHELL
    <2>1. Op
        BY <1>3 DEF OP_SUBSHELL
    <2>2. Counted' /\ caught' = caught
        BY <2>1, OpCounted
    <2>3. StackInv' /\ Top'.proc = Top.proc + 1 /\ pc' = "top"
        BY <1>3, SubshellOK
    <2>4. caught' \subseteq 0 .. Top'.proc
        <3>1. caught \subseteq 0 .. Top.proc /\ Top.proc \in Nat
            BY TopOK DEF IInv, Frame
        <3> QED BY <2>2, <2>3, <3>1
    <2> QED BY <2>2, <2>3, <2>4, Assembled
<1>4. CASE ~OP_HALT /\ ~builtin_exec /\ ~OP_SUBSHELL
    <2>1. Op
        BY <1>4 DEF ScriptStep, OP_OTHER, OP_PIPELINE, OP_EXEC_SIMPLE,
                    OP_EXEC_BUILTIN, builtin_return, builtin_exit, builtin_eval, builtin_trap
    <2>2. Counted' /\ caught' = caught
        BY <2>1, OpCounted
    <2>3. StackInv' /\ Top'.proc = Top.proc /\ pc' \in {"top", "fetch", "wait", "exec"}
        BY <1>4, SameVMOK, HaltOK, EvalOK DEF ScriptStep
    <2> QED BY <2>2, <2>3, SameProcess, Assembled
<1> QED BY <1>1, <1>2, <1>3, <1>4

LEMMA WorldOK ==
    ASSUME IInv, WorldStep
    PROVE  IInv'
<1>0. nsig < MaxSig => nsig + 1 \in 0 .. MaxSig /\ nsig + 1 >= nsig
    BY TrapsAssumption DEF IInv, Counted
<1>1. ASSUME NEW s \in Signals, NEW p \in caught, Deliver(p, s) PROVE IInv'
    <2>1. /\ frames' = frames /\ pc' = pc /\ got' = got /\ pend' = pend \cup {<<p, s>>}
          /\ caught' = caught /\ nops' = nops /\ nrun' = nrun
          /\ nsig' = nsig + 1 /\ nsig' \in 0 .. MaxSig
        BY <1>0, <1>1 DEF Deliver, Signal
    <2>2. /\ IsFiniteSet(pend) /\ nrun \in Nat /\ nsig \in Nat
          /\ nrun + Cardinality(pend) <= nsig /\ pend \subseteq caught \X Signals
        BY TrapsAssumption DEF IInv, Counted
    <2>3. /\ IsFiniteSet(pend') /\ Cardinality(pend') <= Cardinality(pend) + 1
          /\ Cardinality(pend) \in Nat /\ Cardinality(pend') \in Nat
        <3>1. /\ IsFiniteSet(pend')
              /\ Cardinality(pend') = Cardinality(pend)
                 \/ Cardinality(pend') = Cardinality(pend) + 1
            BY <2>1, <2>2, FS_AddElement
        <3>2. Cardinality(pend) \in Nat
            BY <2>2, FS_CardinalityType
        <3>3. Cardinality(pend') \in Nat
            BY <3>1, FS_CardinalityType
        <3> QED BY <3>1, <3>2, <3>3
    <2>4. nrun' + Cardinality(pend') <= nsig'
        BY <2>1, <2>2, <2>3
    <2>5. Counted'
        BY <2>1, <2>2, <2>3, <2>4 DEF IInv, Counted
    <2>6. StackInv' /\ Top' = Top
        BY <2>1, TopOK DEF StackInv, Top, Depth
    <2>7. /\ pc' \in ControlPoints /\ caught' \subseteq 0 .. Top'.proc
          /\ (pc' = "got" => ~Top'.halted /\ got' \in Flags(Top.proc)')
        BY <2>1, <2>6 DEF IInv, Flags
    <2> QED BY <2>5, <2>6, <2>7 DEF IInv, StackInv
<1>2. ASSUME NEW s \in Signals, NEW i \in 2 .. Depth, KillChild(i, s) PROVE IInv'
    <2>1. /\ ChildEnds(i, 128 + s) /\ nsig' = nsig + 1 /\ nsig < MaxSig
          /\ UNCHANGED <<got, nops, nrun>>
        BY <1>2 DEF KillChild, Signal
    <2>2. 128 + s \in 0 .. 255
        BY DEF Signals, SIGINT, SIGTERM
    <2>3. /\ StackInv' /\ pc' = "top" /\ caught' \subseteq 0 .. Top'.proc
          /\ pend' \subseteq pend /\ pend' \subseteq caught' \X Signals
        BY <2>1, <2>2, ChildEndsOK
    <2>4. Counted'
        BY <1>0, <2>1, <2>3, Fewer DEF IInv, Counted
    <2> QED BY <2>3, <2>4, Assembled
<1>3. CASE KillShell
    <2>1. /\ frames' = frames /\ pc' = "over" /\ nsig' = nsig + 1 /\ nsig < MaxSig
          /\ UNCHANGED <<got, pend, caught, nops, nrun>>
        BY <1>3 DEF KillShell, Signal, signals
    <2>2. Top' = Top /\ Running(Top, pc')
        BY <2>1, TopOK DEF Top, Depth, Running
    <2>3. StackInv'
        BY <2>1, <2>2, TopOK DEF StackInv
    <2>4. Counted'
        BY <1>0, <2>1, Fewer DEF IInv, Counted
    <2> QED BY <2>1, <2>2, <2>3, <2>4, SameProcess, Assembled
<1> QED BY <1>1, <1>2, <1>3 DEF WorldStep

LEMMA StutterOK ==
    ASSUME IInv, UNCHANGED vars
    PROVE  IInv'
BY DEF IInv, Counted, vars, Stack, Running, Top, Depth, Flags

LEMMA NextOK == IInv /\ [Next]_vars => IInv'
BY LoopOK, ScriptOK, WorldOK, StutterOK DEF Next, Terminated

LEMMA Invariance == Spec => []IInv
BY InitOK, NextOK, PTL DEF Spec

-----------------------------------------------------------------------------
(* The properties.                                                         *)

(* Type correctness: the shell is the first VM, a child runs one process   *)
(* below its parent, and only a process that is there and has the handlers *)
(* of signal_init has flags.                                               *)
THEOREM TypeCorrect == Spec => []TypeOK
<1>1. IInv => TypeOK
    <2> SUFFICES ASSUME IInv PROVE TypeOK
        OBVIOUS
    <2>1. /\ frames \in Seq(Frame) /\ Depth >= 1
          /\ frames[1].kind = "main" /\ frames[1].proc = 0
        BY DEF IInv, Stack, Depth
    <2>2. ASSUME NEW i \in 2 .. Depth
          PROVE  /\ frames[i].kind # "main"
                 /\ frames[i].proc = frames[i - 1].proc
                                       + (IF frames[i].kind = "child" THEN 1 ELSE 0)
                 /\ frames[i].kind = "trap" => frames[i].sig \in Signals
        <3>1. i \in 1 .. Depth
            BY TopOK
        <3>2. Calls(frames[i - 1], frames[i]) /\ Good(frames[i])
            BY <3>1 DEF IInv, Stack, Depth
        <3> QED BY <3>2 DEF Calls, Good
    <2> QED BY <2>1, <2>2 DEF IInv, Counted, TypeOK
<1> QED BY <1>1, Invariance, PTL

(* The text that a handler runs from stays in the trap table of the VM it  *)
(* interrupted: builtin_trap never frees the string vm_run is using.       *)
THEOREM HandlersStaySafe == Spec => []HandlersStay
<1>1. IInv => HandlersStay
    <2> SUFFICES ASSUME IInv, NEW i \in 2 .. Depth, frames[i].kind = "trap"
                 PROVE  frames[i - 1].trap_handlers[frames[i].sig] = frames[i].text
        BY DEF HandlersStay
    <2>1. Calls(frames[i - 1], frames[i])
        BY DEF IInv, Stack, Depth
    <2> QED BY <2>1 DEF Calls
<1> QED BY <1>1, Invariance, PTL

(* A VM starts its EXIT trap once, in the process that set it.             *)
THEOREM ExitTrapOnceSafe == Spec => []ExitTrapOnce
<1>1. IInv => ExitTrapOnce
    BY DEF IInv, Stack, Depth, Good, ExitTrapOnce
<1> QED BY <1>1, Invariance, PTL

(* A VM that exit or the end of its code has ended has no EXIT trap left   *)
(* that did not run.                                                       *)
THEOREM ExitTrapRunsSafe == Spec => []ExitTrapRuns
<1>1. IInv => ExitTrapRuns
    <2> SUFFICES ASSUME IInv, NEW i \in 1 .. Depth, frames[i].why = "exit", frames[i].late = 0
                 PROVE  ~Runs(frames[i].exit_trap)
        BY DEF ExitTrapRuns
    <2>1. CASE i = Depth
        BY <2>1, TopOK DEF Running, NoneLeft
    <2>2. CASE i # Depth
        <3>1. i + 1 \in 2 .. Depth /\ (i + 1) - 1 = i
            BY <2>2, TopOK
        <3>2. Calls(frames[(i + 1) - 1], frames[i + 1])
            BY <3>1 DEF IInv, Stack, Depth
        <3>3. NoneLeft(frames[i])
            BY <3>1, <3>2 DEF Calls
        <3> QED BY <3>3 DEF NoneLeft
    <2> QED BY <2>1, <2>2
<1> QED BY <1>1, Invariance, PTL

(* No VM executes more than one opcode after exit.                         *)
THEOREM ExitIsFinalSafe == Spec => []ExitIsFinal
<1>1. IInv => ExitIsFinal
    BY DEF IInv, Stack, Depth, Good, ExitIsFinal
<1> QED BY <1>1, Invariance, PTL

(* Handlers started, and flags that may still start one, are never more    *)
(* than signals sent.                                                      *)
THEOREM NoPhantomHandlersSafe == Spec => []NoPhantomHandlers
<1>1. IInv => NoPhantomHandlers
    BY DEF IInv, Counted, NoPhantomHandlers
<1> QED BY <1>1, Invariance, PTL

LEMMA FlagOf ==
    ASSUME NEW S, NEW n \in Nat, S \subseteq 0 .. n, NEW x \in S \X Signals
    PROVE  x[1] \in Nat
<1> DEFINE p == x[1]
<1>1. p \in S
    BY Z3
<1> HIDE DEF p
<1>2. p \in Nat
    BY <1>1
<1> QED BY <1>2 DEF p

(* A flag goes away only with its process, or in the process that executes *)
(* with the answer to a signal that was pending there, when job_wait_fg    *)
(* gives it to a pipeline, or by exec.                                     *)
THEOREM NeverDroppedSafe == Spec => NeverDropped
<1> DEFINE A == \A x \in pend \ pend' : Accounted(x)
<1>1. IInv /\ [Next]_vars => [A]_vars
    <2> SUFFICES ASSUME IInv, Next, NEW x \in pend \ pend'
                 PROVE  Accounted(x)
        BY DEF vars
    <2>0. x[1] \in Nat
        <3>1. x \in caught \X Signals /\ caught \subseteq 0 .. Top.proc /\ Top.proc \in Nat
            BY TopOK DEF IInv, Counted, Frame
        <3> QED BY <3>1, FlagOf
    <2>1. ASSUME NEW i \in 2 .. Depth, NEW c \in 0 .. 255, ChildEnds(i, c)
          PROVE  Accounted(x)
        <3>1. Top'.proc \in Nat /\ frames[i].proc = Top'.proc + 1
            BY <2>1, ChildEndsOK
        <3>2. ~(x[1] < frames[i].proc)
            BY <2>1 DEF ChildEnds
        <3> QED BY <2>0, <3>1, <3>2 DEF Accounted
    <2>2. CASE Dispatch
        <3>1. x[1] = Top.proc /\ pc = "got" /\ got \in Flags(Top.proc)
            BY <2>2 DEF Dispatch, signal_clear, IInv
        <3> QED BY <2>2, <3>1, DispatchAnswers DEF Accounted
    <2>3. CASE WaitEINTR
        BY <2>3 DEF WaitEINTR, signal_clear, Accounted
    <2>4. CASE builtin_exec
        BY <2>4 DEF builtin_exec, Fetch, signal_reset, Accounted
    <2>5. CASE Leave
        <3>1. LeaveChild
            BY <2>5 DEF Leave, signals
        <3>2. Top.kind # "main" /\ ChildEnds(Depth, Top.laststatus)
            BY <3>1 DEF LeaveChild, ChildEnds, Top
        <3>3. Depth \in 2 .. Depth /\ Top.laststatus \in 0 .. 255
            BY <3>2, UnderOK, TopOK DEF Frame
        <3> QED BY <2>1, <3>2, <3>3
    <2>6. ASSUME NEW c \in Codes, ExecReplaces(c)
          PROVE  Accounted(x)
        <3>1. \E i \in 2 .. Depth : ChildEnds(i, c)
            BY <2>6 DEF ExecReplaces, signals
        <3> QED BY <2>1, <3>1, TrapsAssumption
    <2>7. ASSUME NEW s \in Signals, NEW i \in 2 .. Depth, KillChild(i, s)
          PROVE  Accounted(x)
        <3>1. 128 + s \in 0 .. 255
            BY DEF Signals, SIGINT, SIGTERM
        <3> QED BY <2>1, <2>7, <3>1 DEF KillChild
    <2>8. \/ Dispatch \/ WaitEINTR \/ builtin_exec \/ Leave
          \/ \E c \in Codes : ExecReplaces(c)
          \/ \E s \in Signals : \E i \in 2 .. Depth : KillChild(i, s)
        BY DEF Next, LoopStep, ScriptStep, WorldStep, Terminated, SafePoint, PipelineEnds,
               ExecFails, signal_init, OP_OTHER, OP_SUBSHELL, OP_PIPELINE, OP_HALT,
               OP_EXEC_SIMPLE, OP_EXEC_BUILTIN, builtin_return, builtin_exit, builtin_eval,
               builtin_trap, Op, Deliver, KillShell, signals, vars
    <2> QED BY <2>2, <2>3, <2>4, <2>5, <2>6, <2>7, <2>8
<1> QED BY <1>1, Invariance, PTL DEF Spec, NeverDropped
=============================================================================
