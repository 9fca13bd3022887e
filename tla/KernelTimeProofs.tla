--------------------------- MODULE KernelTimeProofs ---------------------------
(* Proofs about KernelTime, for any threads, word size, tick rate and bound *)
(* of the nesting.                                                          *)
EXTENDS KernelTime, TLAPS, SequenceTheorems, FiniteSetTheorems,
        WellFoundedInduction

(* A paused kernel does not switch, so what is in the way of NoTickLost is  *)
(* always the running thread, and it is where it will look at tick_skew.    *)
PausedByCurrent ==
    kernel_running > 0 => at[cur] \in {"code", "restarted", "reads"}

Owed ==
    missed =>
        IF kernel_running > 0 THEN tick_skew
        ELSE \/ at[cur] = "restarted" /\ tick_skew
             \/ at[cur] \in {"owes", "yields"}

(* The types of what those three speak of.                                  *)
FlagsOK ==
    /\ status \in {"boot", "up", "reboot"}
    /\ interruptsEnabled \in BOOLEAN
    /\ interruptDisableNesting \in 0 .. NestingMax
    /\ kernel_running \in 0 .. NestingMax
    /\ tick_skew \in BOOLEAN
    /\ missed \in BOOLEAN
    /\ cur \in Context
    /\ at \in [Context -> {"code", "restarted", "owes", "yields", "reads"}]

FlagsInv == FlagsOK /\ InterruptsBalanced /\ PausedByCurrent /\ Owed

-----------------------------------------------------------------------------
LEMMA InitFlags == Init => FlagsInv
<1>1. Idle \in Context /\ 0 \in 0 .. NestingMax
  BY NumberAssumption DEF Context
<1> QED
  BY <1>1 DEF Init, FlagsInv, FlagsOK, InterruptsBalanced, PausedByCurrent, Owed

(* What moves none of these variables keeps FlagsInv.                       *)
FlagVars == <<status, interruptsEnabled, interruptDisableNesting, kernel_running, tick_skew,
              missed, cur, at>>

LEMMA FlagsUnchanged == FlagsInv /\ UNCHANGED FlagVars => FlagsInv'
  BY DEF FlagVars, FlagsInv, FlagsOK, InterruptsBalanced, PausedByCurrent, Owed

(* Nor does a thread that goes from its own code to a yield or to getTick,  *)
(* or the other way round.                                                  *)
LEMMA FlagsMove ==
    ASSUME FlagsInv, NEW c \in Context, cur = c,
           NEW place \in {"code", "yields", "reads"},
           at' = [at EXCEPT ![c] = place],
           place = "yields" => kernel_running = 0,
           ~missed \/ kernel_running > 0 \/ place = "yields",
           UNCHANGED <<status, interruptsEnabled, interruptDisableNesting, kernel_running,
                       tick_skew, missed, cur>>
    PROVE  FlagsInv'
<1>1. at \in [Context -> {"code", "restarted", "owes", "yields", "reads"}]
  BY DEF FlagsInv, FlagsOK
<1>2. at'[cur'] = place
  BY <1>1
<1>3. FlagsOK'
  BY <1>1 DEF FlagsInv, FlagsOK
<1>4. InterruptsBalanced'
  BY DEF FlagsInv, InterruptsBalanced
<1>5. PausedByCurrent'
  BY <1>2 DEF PausedByCurrent
<1>6. Owed'
  BY <1>2 DEF FlagsInv, Owed
<1> QED
  BY <1>3, <1>4, <1>5, <1>6 DEF FlagsInv

(* The scheduler does not take the place of a thread that paused it.        *)
LEMMA FlagsSwitch ==
    ASSUME FlagsInv, NEW asleep, NextThread(asleep),
           at' = at \/ \E c \in Context : at' = [at EXCEPT ![c] = "code"],
           kernel_running = 0,
           UNCHANGED <<status, interruptsEnabled, interruptDisableNesting, kernel_running,
                       tick_skew>>
    PROVE  FlagsInv'
<1>1. cur' \in Context /\ missed' = FALSE
  BY DEF NextThread
<1>2. FlagsOK'
  BY <1>1 DEF FlagsInv, FlagsOK
<1> QED
  BY <1>1, <1>2 DEF FlagsInv, InterruptsBalanced, PausedByCurrent, Owed

LEMMA FlagsStep == FlagsInv /\ [Next]_vars => FlagsInv'
<1> SUFFICES ASSUME FlagsInv, [Next]_vars
             PROVE  FlagsInv'
  OBVIOUS
<1> USE NumberAssumption
<1>1. CASE Tick
  <2>1. CASE kernel_running = 0
    BY <1>1, <2>1, FlagsSwitch DEF Tick, pauseVars
  <2>2. CASE kernel_running # 0
    <3>1. /\ UNCHANGED <<status, pauseVars, at, cur>>
          /\ tick_skew' = TRUE /\ missed' = TRUE
      BY <1>1, <2>2 DEF Tick
    <3> QED
      BY <2>2, <3>1 DEF pauseVars, FlagsInv, FlagsOK, InterruptsBalanced, PausedByCurrent, Owed
  <2> QED
    BY <2>1, <2>2
<1>2. CASE startKernel
  <2>1. Idle \in Context
    BY DEF Context
  <2>2. /\ cur = Idle /\ at[Idle] = "code" /\ interruptDisableNesting = 0 /\ kernel_running = 0
        /\ status' = "up" /\ interruptsEnabled' = TRUE /\ at' = [at EXCEPT ![Idle] = "yields"]
        /\ UNCHANGED <<interruptDisableNesting, kernel_running, tick_skew, cur, missed>>
    BY <1>2 DEF startKernel
  <2>3. FlagsOK' /\ at'[cur'] = "yields"
    BY <2>1, <2>2 DEF FlagsInv, FlagsOK
  <2>4. InterruptsBalanced'
    BY <2>2 DEF InterruptsBalanced
  <2>5. PausedByCurrent' /\ Owed'
    BY <2>2, <2>3 DEF PausedByCurrent, Owed
  <2> QED
    BY <2>3, <2>4, <2>5 DEF FlagsInv
<1>3. ASSUME Reboot
      PROVE  FlagsInv'
  BY <1>3 DEF Reboot, pauseVars, FlagsInv, FlagsOK, InterruptsBalanced, PausedByCurrent, Owed
<1>4. ASSUME NEW c \in Context, disableInterrupts(c)
      PROVE  FlagsInv'
  <2>1. CASE ~Full(interruptDisableNesting)
    <3>1. /\ interruptsEnabled' = FALSE
          /\ interruptDisableNesting' = interruptDisableNesting + 1
          /\ UNCHANGED <<status, kernel_running, tick_skew, cur, at, missed>>
      BY <1>4, <2>1 DEF disableInterrupts
    <3>2. interruptDisableNesting' \in 0 .. NestingMax /\ interruptDisableNesting' # 0
      BY <2>1, <3>1 DEF Full, FlagsInv, FlagsOK
    <3>3. FlagsOK'
      BY <3>1, <3>2 DEF FlagsInv, FlagsOK
    <3> QED
      BY <3>1, <3>2, <3>3 DEF FlagsInv, InterruptsBalanced, PausedByCurrent, Owed
  <2> QED
    BY <1>3, <1>4, <2>1 DEF disableInterrupts
<1>5. ASSUME NEW c \in Context, enableInterrupts(c)
      PROVE  FlagsInv'
  <2>1. CASE interruptDisableNesting # 0
    <3>1. /\ interruptsEnabled' = (interruptsEnabled \/ Enables)
          /\ interruptDisableNesting' = interruptDisableNesting - 1
          /\ UNCHANGED <<status, kernel_running, tick_skew, cur, at, missed>>
          /\ status # "reboot"
      BY <1>5, <2>1 DEF enableInterrupts, Running
    <3>2. /\ interruptDisableNesting' \in 0 .. NestingMax
          /\ interruptDisableNesting' = 0 <=> interruptDisableNesting = 1
      BY <2>1, <3>1 DEF FlagsInv, FlagsOK
    <3>3. interruptsEnabled = FALSE
      BY <2>1, <3>1 DEF FlagsInv, FlagsOK, InterruptsBalanced
    <3>4. interruptsEnabled' = Enables /\ interruptsEnabled' \in BOOLEAN
      BY <3>1, <3>3 DEF Enables
    <3>5. FlagsOK'
      BY <3>1, <3>2, <3>4 DEF FlagsInv, FlagsOK
    <3> QED
      BY <3>1, <3>2, <3>4, <3>5
      DEF Enables, FlagsInv, InterruptsBalanced, PausedByCurrent, Owed
  <2> QED
    BY <1>3, <1>5, <2>1 DEF enableInterrupts
<1>6. ASSUME NEW c \in Context, MayPause(c), FlagsInv,
             interruptsEnabled' = (interruptsEnabled \/ status = "up"),
             UNCHANGED <<status, interruptDisableNesting>>
      PROVE  InterruptsBalanced' /\ interruptsEnabled' \in BOOLEAN
  BY <1>6 DEF FlagsInv, FlagsOK, InterruptsBalanced, MayPause, Running
<1>7. ASSUME NEW c \in Context, pauseKernel(c)
      PROVE  FlagsInv'
  <2>1. CASE ~Full(kernel_running)
    <3>1. /\ kernel_running' = kernel_running + 1
          /\ interruptsEnabled' = (interruptsEnabled \/ status = "up")
          /\ cur = c /\ at[c] = "code" /\ MayPause(c)
          /\ UNCHANGED <<status, interruptDisableNesting, tick_skew, cur, at, missed>>
      BY <1>7, <2>1 DEF pauseKernel, MayPause, Running
    <3>2. kernel_running' \in 0 .. NestingMax /\ kernel_running' > 0
      BY <2>1, <3>1 DEF Full, FlagsInv, FlagsOK
    <3>3. FlagsOK'
      BY <1>6, <3>1, <3>2 DEF FlagsInv, FlagsOK
    <3>4. PausedByCurrent'
      BY <3>1 DEF PausedByCurrent
    <3>5. Owed'
      <4>1. missed => tick_skew
        BY <3>1 DEF FlagsInv, Owed
      <4> QED
        BY <3>1, <3>2, <4>1 DEF Owed
    <3> QED
      BY <1>6, <3>1, <3>3, <3>4, <3>5 DEF FlagsInv
  <2> QED
    BY <1>3, <1>7, <2>1 DEF pauseKernel
<1>8. ASSUME NEW c \in Context, restartKernel(c)
      PROVE  FlagsInv'
  <2>1. CASE kernel_running # 0
    <3>1. /\ kernel_running' = kernel_running - 1
          /\ interruptsEnabled' = (interruptsEnabled \/ status = "up")
          /\ at' = [at EXCEPT ![c] = "restarted"]
          /\ cur = c /\ MayPause(c)
          /\ UNCHANGED <<status, interruptDisableNesting, tick_skew, cur, missed>>
      BY <1>8, <2>1 DEF restartKernel, MayPause, Running
    <3>2. kernel_running' \in 0 .. NestingMax /\ kernel_running > 0
      BY <2>1, <3>1 DEF FlagsInv, FlagsOK
    <3>3. at'[cur'] = "restarted"
      BY <3>1 DEF FlagsInv, FlagsOK
    <3>4. FlagsOK'
      BY <1>6, <3>1, <3>2 DEF FlagsInv, FlagsOK
    <3>5. PausedByCurrent'
      BY <3>3 DEF PausedByCurrent
    <3>6. Owed'
      BY <3>1, <3>2, <3>3 DEF FlagsInv, Owed
    <3> QED
      BY <1>6, <3>1, <3>4, <3>5, <3>6 DEF FlagsInv
  <2> QED
    BY <1>3, <1>8, <2>1 DEF restartKernel
<1>9. ASSUME NEW c \in Context, restarted(c)
      PROVE  FlagsInv'
  <2>1. /\ cur = c /\ at[c] = "restarted"
        /\ at' = [at EXCEPT ![c] = IF MustRepay THEN "owes" ELSE "code"]
        /\ UNCHANGED <<status, interruptsEnabled, interruptDisableNesting, kernel_running,
                       tick_skew, missed, cur>>
    BY <1>9 DEF restarted, pauseVars
  <2>2. CASE MustRepay
    BY <2>1, <2>2
    DEF MustRepay, FlagsInv, FlagsOK, InterruptsBalanced, PausedByCurrent, Owed
  <2>3. CASE ~MustRepay
    <3>1. ~missed \/ kernel_running > 0
      BY <2>1, <2>3 DEF MustRepay, FlagsInv, FlagsOK, Owed
    <3> QED
      BY <2>1, <2>3, <3>1, FlagsMove
  <2> QED
    BY <2>2, <2>3
<1>10. ASSUME NEW c \in Context, owes(c)
       PROVE  FlagsInv'
  <2>1. /\ cur = c /\ at[c] = "owes" /\ tick_skew' = FALSE
        /\ at' = [at EXCEPT ![c] = "yields"]
        /\ UNCHANGED <<status, interruptsEnabled, interruptDisableNesting, kernel_running,
                       missed, cur>>
    BY <1>10 DEF owes, pauseVars
  <2>2. kernel_running = 0
    BY <2>1 DEF FlagsInv, FlagsOK, PausedByCurrent
  <2> QED
    BY <2>1, <2>2 DEF FlagsInv, FlagsOK, InterruptsBalanced, PausedByCurrent, Owed
<1>11. ASSUME NEW c \in Context, yields(c)
       PROVE  FlagsInv'
  <2>1. kernel_running = 0
    BY <1>11 DEF yields, FlagsInv, FlagsOK, PausedByCurrent
  <2> QED
    BY <1>11, <2>1, FlagsSwitch DEF yields, pauseVars
<1>12. ASSUME NEW c \in Context, yield(c)
       PROVE  FlagsInv'
  BY <1>12, FlagsMove DEF yield, Running, MayBlock, pauseVars
<1>13. ASSUME NEW t \in Thread, NEW ms, Running(t), MayBlock(t),
              at' = at \/ \E time : IRQaddToSleepingList(t, time), Rest
       PROVE  FlagsInv'
  <2>1. t \in Context
    BY DEF Context
  <2>2. CASE at' = at
    BY <1>13, <2>2, FlagsUnchanged DEF Rest, pauseVars, FlagVars
  <2>3. CASE at' = [at EXCEPT ![t] = "yields"]
    BY <1>13, <2>1, <2>3, FlagsMove DEF Rest, pauseVars, MayBlock, Running
  <2> QED
    BY <1>13, <2>2, <2>3 DEF IRQaddToSleepingList
<1>14. ASSUME NEW t \in Thread,
              \/ \E ms \in SleepTimes : sleep(t, ms)
              \/ \E us \in USleepTimes : usleep(t, us)
              \/ \E time \in 0 .. MaxTick : sleepUntil(t, time)
       PROVE  FlagsInv'
  BY <1>13, <1>14 DEF sleep, usleep, sleepUntil, Sleep, InTime
<1>15. ASSUME NEW t \in Thread, getTick(t) \/ compare(t)
       PROVE  FlagsInv'
  <2>1. t \in Context /\ cur = t /\ at[t] \in {"code", "reads"}
    BY <1>15 DEF Context, getTick, compare, Running
  <2>2. UNCHANGED <<status, interruptsEnabled, interruptDisableNesting, kernel_running,
                    tick_skew, missed, cur>>
    BY <1>15 DEF getTick, compare, pauseVars
  <2>3. ~missed \/ kernel_running > 0
    BY <2>1 DEF FlagsInv, FlagsOK, Owed
  <2>4. at' = at \/ at' = [at EXCEPT ![t] = "code"] \/ at' = [at EXCEPT ![t] = "reads"]
    BY <1>15 DEF getTick, compare
  <2>5. CASE at' = at
    BY <2>2, <2>5, FlagsUnchanged DEF FlagVars
  <2> QED
    BY <2>1, <2>2, <2>3, <2>4, <2>5, FlagsMove
<1>16. ASSUME NEW t \in Thread, NEW variable \in Variable, NEW half \in Half,
              load(t, variable, half)
       PROVE  FlagsInv'
  BY <1>16, FlagsUnchanged DEF load, pauseVars, FlagVars
<1>17. CASE UNCHANGED vars
  BY <1>17, FlagsUnchanged DEF vars, pauseVars, FlagVars
<1> QED
  BY <1>1, <1>2, <1>4, <1>5, <1>7, <1>8, <1>9, <1>10, <1>11, <1>12, <1>14, <1>15, <1>16, <1>17
  DEF Next

(* What flags and places satisfy in every reachable state.                  *)
LEMMA FlagsCorrect == Spec => []FlagsInv
  BY InitFlags, FlagsStep, PTL DEF Spec

(* Interrupts are enabled exactly when the kernel runs and no call of       *)
(* disableInterrupts is open, whatever pauseKernel and restartKernel did.   *)
THEOREM InterruptsCorrect == Spec => []InterruptsBalanced
<1>1. FlagsInv => InterruptsBalanced
  BY DEF FlagsInv
<1> QED
  BY <1>1, FlagsCorrect, PTL

(* A thread that paused the kernel through a tick lets the scheduler run    *)
(* before it goes on with its own code.                                     *)
THEOREM MissedTicksRepaid == Spec => []NoTickLost
<1>1. FlagsInv => NoTickLost
  BY DEF FlagsInv, FlagsOK, Owed, NoTickLost
<1> QED
  BY <1>1, FlagsCorrect, PTL

-----------------------------------------------------------------------------
(* getTick.  What a thread has loaded since it called getTick at tick c     *)
(* fits ticks between c and now: of a at l1 and h1, of b, later than both,  *)
(* at l2 and h2.                                                            *)
Words == [Variable -> [Half -> Nat \union {Unread}]]

Loads(w, l1, h1, l2, h2) ==
    /\ l1 <= h2 /\ h1 <= l2
    /\ w["a"]["lo"] \in {Unread, l1 % Word} /\ w["a"]["hi"] \in {Unread, h1 \div Word}
    /\ w["b"]["lo"] \in {Unread, l2 % Word} /\ w["b"]["hi"] \in {Unread, h2 \div Word}

Fits(w, c, now) ==
    /\ w["b"]["lo"] # Unread \/ w["b"]["hi"] # Unread => Complete(w["a"])
    /\ \E l1, h1, l2, h2 \in c .. now : Loads(w, l1, h1, l2, h2)

LEMMA DivMod ==
    ASSUME NEW x \in Nat
    PROVE  /\ x \div Word \in Nat /\ x % Word \in Nat /\ x % Word < Word
           /\ x = (x \div Word) * Word + (x % Word)
  BY NumberAssumption

(* A product grows with its first factor.                                   *)
LEMMA TimesMonotone ==
    ASSUME NEW p \in Nat, NEW q \in Nat, p <= q
    PROVE  p * Word <= q * Word
<1>1. Word \in Nat /\ q - p \in Nat
  BY NumberAssumption
<1>2. q * Word = p * Word + (q - p) * Word
  BY <1>1
<1>3. p * Word \in Nat /\ (q - p) * Word \in Nat
  BY <1>1
<1> QED
  BY <1>2, <1>3

LEMMA DivMonotone ==
    ASSUME NEW x \in Nat, NEW y \in Nat, x <= y
    PROVE  x \div Word <= y \div Word
<1>1. Word \in Nat /\ x \div Word \in Nat /\ y \div Word \in Nat /\ x % Word \in Nat
      /\ y % Word \in Nat /\ y % Word < Word
  BY DivMod, NumberAssumption
<1>2. SUFFICES ASSUME ~(x \div Word <= y \div Word)
               PROVE  FALSE
  OBVIOUS
<1> DEFINE p == y \div Word
           q == x \div Word
<1>3. p \in Nat /\ q \in Nat /\ p + 1 <= q
  BY <1>1, <1>2
<1>4. x = q * Word + (x % Word) /\ y = p * Word + (y % Word)
  BY DivMod
<1> HIDE DEF p, q
<1>5. (p + 1) * Word <= q * Word
  BY <1>3, TimesMonotone
<1>6. (p + 1) * Word = p * Word + Word
  BY <1>1, <1>3
<1>7. p * Word \in Nat /\ q * Word \in Nat
  BY <1>1, <1>3
<1> QED
  BY <1>1, <1>4, <1>5, <1>6, <1>7

LEMMA FitsNothing == \A c, now \in Nat : c <= now => Fits(Nothing, c, now)
<1>1. /\ Nothing["a"]["lo"] = Unread /\ Nothing["a"]["hi"] = Unread
      /\ Nothing["b"]["lo"] = Unread /\ Nothing["b"]["hi"] = Unread
  BY DEF Nothing, Variable, Half
<1>2. TAKE c \in Nat, now \in Nat
<1>3. c <= now => c \in c .. now /\ c <= c
  OBVIOUS
<1> QED
  BY <1>1, <1>3 DEF Fits, Loads

LEMMA FitsLater ==
    ASSUME NEW c \in Nat, NEW now \in Nat, NEW w, Fits(w, c, now)
    PROVE  Fits(w, c, now + 1)
<1>1. c .. now \subseteq c .. now + 1
  OBVIOUS
<1> QED
  BY <1>1 DEF Fits

LEMMA FitsExact ==
    ASSUME NEW c \in Nat, NEW now \in Nat, NEW w \in Words, Fits(w, c, now),
           Complete(w["b"]), w["a"] = w["b"]
    PROVE  c <= Value(w["a"]) /\ Value(w["a"]) <= now
<1>1. PICK l1, h1, l2, h2 \in c .. now :
            /\ l1 <= h2 /\ h1 <= l2
            /\ w["a"]["lo"] = l1 % Word /\ w["a"]["hi"] = h1 \div Word
            /\ w["a"]["lo"] = l2 % Word /\ w["a"]["hi"] = h2 \div Word
  BY DEF Fits, Loads, Complete
<1> DEFINE hi == w["a"]["hi"]
           lo == w["a"]["lo"]
<1>2. l1 \in Nat /\ l2 \in Nat /\ h1 \in Nat /\ h2 \in Nat /\ c <= l1 /\ l2 <= now
  OBVIOUS
<1>3. l1 \div Word <= hi /\ hi <= l2 \div Word
  BY <1>1, <1>2, DivMonotone
<1>4. /\ l1 \div Word \in Nat /\ l2 \div Word \in Nat /\ hi \in Nat /\ lo \in Nat
      /\ l1 = (l1 \div Word) * Word + lo /\ l2 = (l2 \div Word) * Word + lo
  BY <1>1, <1>2, DivMod
<1>5. (l1 \div Word) * Word <= hi * Word /\ hi * Word <= (l2 \div Word) * Word
  BY <1>3, <1>4, TimesMonotone
<1>6. Value(w["a"]) = hi * Word + lo
  BY DEF Value
<1>7. hi * Word \in Nat
  BY <1>4, NumberAssumption
<1> DEFINE p == (l1 \div Word) * Word
           q == (l2 \div Word) * Word
           v == hi * Word
<1>8. p \in Nat /\ q \in Nat
  BY <1>4, NumberAssumption
<1>9. p <= v /\ v <= q /\ l1 = p + lo /\ l2 = q + lo /\ Value(w["a"]) = v + lo /\ v \in Nat
  BY <1>4, <1>5, <1>6, <1>7
<1> HIDE DEF p, q, v, lo, hi
<1> QED
  BY <1>2, <1>4, <1>8, <1>9

LEMMA FitsLoad ==
    ASSUME NEW c \in Nat, NEW now \in Nat, c <= now, NEW w \in Words, Fits(w, c, now),
           NEW variable \in Variable, NEW half \in Half,
           w[variable][half] = Unread,
           variable = "b" => Complete(w["a"]),
           NEW read \in Nat,
           read = (IF half = "lo" THEN now % Word ELSE now \div Word)
    PROVE  Fits([w EXCEPT ![variable][half] = read], c, now)
<1> DEFINE x == [w EXCEPT ![variable][half] = read]
<1>1. PICK l1, h1, l2, h2 \in c .. now : Loads(w, l1, h1, l2, h2)
  BY DEF Fits
<1>2. now \in c .. now /\ l1 <= now /\ h1 <= now /\ read # Unread
  BY DEF Unread
<1>3. \A v \in Variable, h \in Half :
            x[v][h] = IF v = variable /\ h = half THEN read ELSE w[v][h]
  BY DEF Words
<1>4. {"a", "b"} \subseteq Variable /\ {"lo", "hi"} \subseteq Half
  BY DEF Variable, Half
<1>5. SUFFICES Fits(x, c, now)
  OBVIOUS
<1> HIDE DEF x
<1>6. CASE variable = "a"
  <2>1. w["b"]["lo"] = Unread /\ w["b"]["hi"] = Unread
    BY <1>6 DEF Fits, Complete, Half
  <2>2. x["b"]["lo"] = Unread /\ x["b"]["hi"] = Unread
    BY <1>3, <1>4, <1>6, <2>1
  <2>3. CASE half = "lo"
    <3>1. x["a"]["lo"] = now % Word /\ x["a"]["hi"] = w["a"]["hi"]
      BY <1>3, <1>4, <1>6, <2>3
    <3>2. \E L1, H1, L2, H2 \in c .. now : Loads(x, L1, H1, L2, H2)
      <4> WITNESS now \in c .. now, h1 \in c .. now, now \in c .. now, now \in c .. now
      <4> QED
        BY <1>1, <1>2, <2>2, <3>1 DEF Loads
    <3> QED
      BY <2>2, <3>2 DEF Fits
  <2>4. CASE half = "hi"
    <3>1. x["a"]["hi"] = now \div Word /\ x["a"]["lo"] = w["a"]["lo"]
      BY <1>3, <1>4, <1>6, <2>4
    <3>2. \E L1, H1, L2, H2 \in c .. now : Loads(x, L1, H1, L2, H2)
      <4> WITNESS l1 \in c .. now, now \in c .. now, now \in c .. now, now \in c .. now
      <4> QED
        BY <1>1, <1>2, <2>2, <3>1 DEF Loads
    <3> QED
      BY <2>2, <3>2 DEF Fits
  <2> QED
    BY <2>3, <2>4 DEF Half
<1>7. CASE variable = "b"
  <2>1. x["a"]["lo"] = w["a"]["lo"] /\ x["a"]["hi"] = w["a"]["hi"] /\ Complete(x["a"])
    BY <1>3, <1>4, <1>7 DEF Complete
  <2>2. CASE half = "lo"
    <3>1. x["b"]["lo"] = now % Word /\ x["b"]["hi"] = w["b"]["hi"]
      BY <1>3, <1>4, <1>7, <2>2
    <3>2. \E L1, H1, L2, H2 \in c .. now : Loads(x, L1, H1, L2, H2)
      <4> WITNESS l1 \in c .. now, h1 \in c .. now, now \in c .. now, h2 \in c .. now
      <4> QED
        BY <1>1, <1>2, <2>1, <3>1 DEF Loads
    <3> QED
      BY <2>1, <3>2 DEF Fits
  <2>3. CASE half = "hi"
    <3>1. x["b"]["hi"] = now \div Word /\ x["b"]["lo"] = w["b"]["lo"]
      BY <1>3, <1>4, <1>7, <2>3
    <3>2. \E L1, H1, L2, H2 \in c .. now : Loads(x, L1, H1, L2, H2)
      <4> WITNESS l1 \in c .. now, h1 \in c .. now, l2 \in c .. now, now \in c .. now
      <4> QED
        BY <1>1, <1>2, <2>1, <3>1 DEF Loads
    <3> QED
      BY <2>1, <3>2 DEF Fits
  <2> QED
    BY <2>2, <2>3 DEF Half
<1> QED
  BY <1>6, <1>7 DEF Variable

(* The types getTick relies on, and the words of every thread fit the ticks *)
(* since its call; between two calls there are none.                        *)
ReadOK ==
    /\ tick \in Nat
    /\ at \in [Context -> {"code", "restarted", "owes", "yields", "reads"}]
    /\ loaded \in [Thread -> Words]
    /\ called \in [Thread -> Nat]

ReadInv ==
    /\ ReadOK
    /\ \A t \in Thread :
        IF at[t] = "reads"
        THEN called[t] <= tick /\ Fits(loaded[t], called[t], tick)
        ELSE loaded[t] = Nothing

LEMMA NothingType == Nothing \in Words
  BY DEF Nothing, Words

LEMMA InitRead == Init => ReadInv
<1>1. Thread \subseteq Context
  BY DEF Context
<1> QED
  BY <1>1, NothingType DEF Init, ReadInv, ReadOK

(* Time goes on.                                                            *)
LEMMA ReadTick ==
    ASSUME ReadInv, tick' = tick \/ tick' = tick + 1, UNCHANGED <<at, loaded, called>>
    PROVE  ReadInv'
<1>1. ReadOK'
  BY DEF ReadInv, ReadOK
<1>2. ASSUME NEW t \in Thread, at[t] = "reads"
      PROVE  called[t] <= tick' /\ Fits(loaded[t], called[t], tick')
  <2>1. /\ called[t] \in Nat /\ tick \in Nat
        /\ called[t] <= tick /\ Fits(loaded[t], called[t], tick)
    BY <1>2 DEF ReadInv, ReadOK
  <2> QED
    BY <2>1, FitsLater
<1> QED
  BY <1>1, <1>2 DEF ReadInv

(* A thread that is not in getTick goes elsewhere, but not there.           *)
LEMMA ReadElsewhere ==
    ASSUME ReadInv, NEW c \in Context, at[c] # "reads",
           NEW place \in {"code", "restarted", "owes", "yields"},
           at' = at \/ at' = [at EXCEPT ![c] = place],
           UNCHANGED <<tick, loaded, called>>
    PROVE  ReadInv'
<1>1. ReadOK'
  BY DEF ReadInv, ReadOK
<1>2. \A t \in Thread : at'[t] = "reads" <=> at[t] = "reads"
  BY DEF ReadInv, ReadOK, Context
<1> QED
  BY <1>1, <1>2 DEF ReadInv

LEMMA ReadStep == ReadInv /\ [Next]_vars => ReadInv'
<1> SUFFICES ASSUME ReadInv, [Next]_vars
             PROVE  ReadInv'
  OBVIOUS
<1> USE DEF pauseVars, sleepVars, readVars
<1>1. CASE Tick
  BY <1>1, ReadTick DEF Tick
<1>2. CASE startKernel
  BY <1>2, ReadElsewhere DEF startKernel, Context
<1>3. ASSUME NEW c \in Context,
             disableInterrupts(c) \/ enableInterrupts(c) \/ pauseKernel(c)
      PROVE  ReadInv'
  BY <1>3, ReadTick DEF disableInterrupts, enableInterrupts, pauseKernel, Reboot
<1>4. ASSUME NEW c \in Context,
             restartKernel(c) \/ restarted(c) \/ owes(c) \/ yields(c) \/ yield(c)
      PROVE  ReadInv'
  <2>1. UNCHANGED <<tick, loaded, called>> /\ at[c] # "reads"
    BY <1>4 DEF restartKernel, MayPause, Running, restarted, owes, yields, yield, Reboot
  <2>2. \/ at' = at
        \/ \E place \in {"code", "restarted", "owes", "yields"} :
                at' = [at EXCEPT ![c] = place]
    BY <1>4 DEF restartKernel, restarted, owes, yields, yield, Reboot
  <2> QED
    BY <2>1, <2>2, ReadElsewhere, ReadTick
<1>5. ASSUME NEW t \in Thread,
             \/ \E ms \in SleepTimes : sleep(t, ms)
             \/ \E us \in USleepTimes : usleep(t, us)
             \/ \E time \in 0 .. MaxTick : sleepUntil(t, time)
      PROVE  ReadInv'
  <2>1. UNCHANGED <<tick, loaded, called>> /\ at[t] # "reads" /\ t \in Context
    BY <1>5 DEF sleep, usleep, sleepUntil, InTime, Running, Rest, Context
  <2>2. at' = at \/ \E time : IRQaddToSleepingList(t, time)
    BY <1>5 DEF sleep, usleep, sleepUntil, Sleep
  <2>3. at' = at \/ at' = [at EXCEPT ![t] = "yields"]
    BY <2>2 DEF IRQaddToSleepingList
  <2> QED
    BY <2>1, <2>3, ReadElsewhere
<1>6. ASSUME NEW t \in Thread, getTick(t)
      PROVE  ReadInv'
  <2>1. /\ at' = [at EXCEPT ![t] = "reads"] /\ called' = [called EXCEPT ![t] = tick]
        /\ UNCHANGED <<tick, loaded>> /\ at[t] = "code" /\ t \in Context
    BY <1>6 DEF getTick, Running, Context
  <2>2. ReadOK'
    BY <2>1 DEF ReadInv, ReadOK
  <2>3. loaded[t] = Nothing /\ tick \in Nat
    BY <2>1 DEF ReadInv, ReadOK
  <2>4. Fits(loaded'[t], called'[t], tick') /\ called'[t] <= tick'
    BY <2>1, <2>3, FitsNothing DEF ReadInv, ReadOK
  <2>5. \A u \in Thread \ {t} : at'[u] = at[u] /\ called'[u] = called[u]
    BY <2>1 DEF ReadInv, ReadOK, Context
  <2>6. at'[t] = "reads"
    BY <2>1 DEF ReadInv, ReadOK
  <2> QED
    BY <2>1, <2>2, <2>4, <2>5, <2>6 DEF ReadInv
<1>7. ASSUME NEW t \in Thread, NEW variable \in Variable, NEW half \in Half,
             load(t, variable, half)
      PROVE  ReadInv'
  <2> DEFINE read == IF half = "lo" THEN tick % Word ELSE tick \div Word
  <2>1. /\ at[t] = "reads" /\ loaded[t][variable][half] = Unread
        /\ variable = "b" => Complete(loaded[t]["a"])
        /\ loaded' = [loaded EXCEPT ![t][variable][half] = read]
        /\ UNCHANGED <<tick, at, called>>
    BY <1>7 DEF load
  <2>2. /\ tick \in Nat /\ loaded[t] \in Words /\ called[t] \in Nat /\ read \in Nat
        /\ called[t] <= tick /\ Fits(loaded[t], called[t], tick)
        /\ loaded \in [Thread -> Words]
    BY <2>1, DivMod DEF ReadInv, ReadOK
  <2> HIDE DEF read
  <2>3. Fits([loaded[t] EXCEPT ![variable][half] = read], called[t], tick)
    BY <2>1, <2>2, FitsLoad DEF read
  <2>4. [loaded[t] EXCEPT ![variable][half] = read] \in Words
    BY <2>2 DEF Words
  <2>5. /\ loaded'[t] = [loaded[t] EXCEPT ![variable][half] = read]
        /\ \A u \in Thread \ {t} : loaded'[u] = loaded[u]
        /\ loaded' \in [Thread -> Words]
    BY <2>1, <2>2, <2>4
  <2>6. ReadOK'
    BY <2>1, <2>5 DEF ReadInv, ReadOK
  <2> QED
    BY <2>1, <2>2, <2>3, <2>5, <2>6 DEF ReadInv
<1>8. ASSUME NEW t \in Thread, compare(t)
      PROVE  ReadInv'
  <2>1. /\ at[t] = "reads" /\ loaded' = [loaded EXCEPT ![t] = Nothing] /\ UNCHANGED tick
        /\ t \in Context
    BY <1>8 DEF compare, Context
  <2>2. \/ at' = [at EXCEPT ![t] = "code"] /\ called' = [called EXCEPT ![t] = 0]
        \/ UNCHANGED <<at, called>>
    BY <1>8 DEF compare
  <2>3. ReadOK'
    BY <2>1, <2>2, NothingType DEF ReadInv, ReadOK
  <2>4. \A u \in Thread \ {t} :
            at'[u] = at[u] /\ called'[u] = called[u] /\ loaded'[u] = loaded[u]
    BY <2>1, <2>2 DEF ReadInv, ReadOK, Context
  <2>5. loaded'[t] = Nothing
    BY <2>1 DEF ReadInv, ReadOK
  <2>6. called'[t] \in Nat /\ called'[t] <= tick /\ tick \in Nat
    BY <2>1, <2>2 DEF ReadInv, ReadOK
  <2>7. Fits(Nothing, called'[t], tick)
    BY <2>6, FitsNothing
  <2> QED
    BY <2>1, <2>3, <2>4, <2>5, <2>6, <2>7 DEF ReadInv
<1>9. CASE UNCHANGED vars
  BY <1>9, ReadTick DEF vars
<1> QED
  BY <1>1, <1>2, <1>3, <1>4, <1>5, <1>6, <1>7, <1>8, <1>9 DEF Next

(* Only compare brings a thread out of getTick.                             *)
LEMMA GetTickReturns ==
    ASSUME ReadInv, [Next]_vars, NEW t \in Thread, at[t] = "reads", at'[t] # "reads"
    PROVE  compare(t)
<1>1. at \in [Context -> {"code", "restarted", "owes", "yields", "reads"}] /\ t \in Context
  BY DEF ReadInv, ReadOK, Context
<1>2. ASSUME NEW c \in Context, at[c] # "reads" \/ c # t, NEW place,
             at' = [at EXCEPT ![c] = place]
      PROVE  FALSE
  BY <1>1, <1>2
<1>3. at' # at
  OBVIOUS
<1>4. Thread \subseteq Context /\ Idle \in Context
  BY DEF Context
<1>5. ~Tick /\ ~startKernel /\ ~UNCHANGED vars
  BY <1>2, <1>3, <1>4 DEF Tick, startKernel, vars
<1>6. \A c \in Context : ~(disableInterrupts(c) \/ enableInterrupts(c) \/ pauseKernel(c))
  BY <1>3 DEF disableInterrupts, enableInterrupts, pauseKernel, Reboot
<1>7. \A c \in Context :
        ~(restartKernel(c) \/ restarted(c) \/ owes(c) \/ yields(c) \/ yield(c))
  BY <1>2, <1>3
  DEF restartKernel, MayPause, Running, restarted, owes, yields, yield, Reboot
<1>8. ASSUME NEW u \in Thread,
             \/ \E ms \in SleepTimes : sleep(u, ms)
             \/ \E us \in USleepTimes : usleep(u, us)
             \/ \E time \in 0 .. MaxTick : sleepUntil(u, time)
      PROVE  FALSE
  <2>1. at' = at \/ \E time : IRQaddToSleepingList(u, time)
    BY <1>8 DEF sleep, usleep, sleepUntil, Sleep
  <2>2. at[u] # "reads"
    BY <1>8 DEF sleep, usleep, sleepUntil, InTime, Running
  <2> QED
    BY <1>2, <1>3, <1>4, <2>1, <2>2 DEF IRQaddToSleepingList
<1>9. \A u \in Thread :
        ~(getTick(u) \/ \E variable \in Variable, half \in Half : load(u, variable, half))
  BY <1>2, <1>3, <1>4 DEF getTick, Running, load
<1>10. \A u \in Thread : compare(u) => u = t
  <2>1. SUFFICES ASSUME NEW u \in Thread, compare(u), u # t
                 PROVE  FALSE
    OBVIOUS
  <2> QED
    BY <1>2, <1>3, <1>4, <2>1 DEF compare
<1> QED
  BY <1>5, <1>6, <1>7, <1>8, <1>9, <1>10 DEF Next

(* getTick returns a value that the tick had during the call, or passed.    *)
THEOREM GetTickCorrect == Spec => GetTickExact
<1> DEFINE Exact ==
        \A t \in Thread :
            at[t] = "reads" /\ at'[t] = "code" =>
                called[t] <= Value(loaded[t]["a"]) /\ Value(loaded[t]["a"]) <= tick
<1>1. ReadInv /\ [Next]_vars => Exact
  <2>1. SUFFICES ASSUME ReadInv, [Next]_vars, NEW t \in Thread,
                        at[t] = "reads", at'[t] = "code"
                 PROVE  called[t] <= Value(loaded[t]["a"]) /\ Value(loaded[t]["a"]) <= tick
    OBVIOUS
  <2>2. compare(t) /\ at' # at
    BY <2>1, GetTickReturns
  <2>3. Complete(loaded[t]["b"]) /\ loaded[t]["a"] = loaded[t]["b"]
    BY <2>2 DEF compare, Same
  <2>4. /\ called[t] \in Nat /\ tick \in Nat /\ loaded[t] \in Words
        /\ Fits(loaded[t], called[t], tick)
    BY <2>1 DEF ReadInv, ReadOK
  <2> QED
    BY <2>3, <2>4, FitsExact
<1> QED
  <2>1. Exact => [Exact]_vars
    OBVIOUS
  <2> QED
    BY <1>1, InitRead, ReadStep, PTL DEF Spec, GetTickExact

-----------------------------------------------------------------------------
(* The sleeping list.                                                       *)

(* What the two searches of the list find.                                  *)
LEMMA MinIsFirst ==
    ASSUME NEW L \in Nat, NEW S, S \subseteq 1 .. L, S # {}
    PROVE  Min(S) \in S /\ \A n \in S : Min(S) <= n
<1> DEFINE Below(y) == {x \in S : x < y}
           F == {Below(y) : y \in S}
<1>1. IsFiniteSet(S) /\ S \subseteq Nat
  <2>1. IsFiniteSet(1 .. L)
    BY FS_Interval
  <2>2. S \subseteq Nat
    OBVIOUS
  <2>3. IsFiniteSet(S)
    BY <2>1, FS_Subset
  <2> QED
    BY <2>2, <2>3
<1>2. F \subseteq FiniteSubsetsOf(S)
  BY <1>1, FS_Subset DEF FiniteSubsetsOf
<1>3. PICK A \in F : \A B \in F : ~ (<<B, A>> \in StrictSubsetOrdering(S))
  <2>1. F # {}
    OBVIOUS
  <2>2. IsWellFoundedOn(StrictSubsetOrdering(S), FiniteSubsetsOf(S))
    BY FS_StrictSubsetOrderingWellFounded
  <2> HIDE DEF F
  <2> QED
    BY <1>2, <2>1, <2>2, WFMin
<1>4. PICK m \in S : A = Below(m)
  OBVIOUS
<1>5. \A n \in S : m <= n
  <2>1. SUFFICES ASSUME NEW n \in S, n < m
                 PROVE  FALSE
    BY <1>1
  <2>2. \A x \in S : x < n => x < m
    BY <1>1, <2>1
  <2>3. ~ (n < n)
    BY <1>1
  <2>4. Below(n) \subseteq A /\ n \in A /\ n \notin Below(n)
    BY <1>4, <2>1, <2>2, <2>3, Zenon
  <2>5. <<Below(n), A>> \in StrictSubsetOrdering(S)
    BY <1>4, <2>4 DEF StrictSubsetOrdering
  <2> QED
    BY <1>3, <2>5
<1> QED
  BY <1>5 DEF Min

Element == [p : Thread, wakeup_time : 0 .. MaxTick]

LEMMA WokenFirst ==
    ASSUME sleeping_list \in Seq(Element), NEW now
    PROVE  /\ Woken(now) \in 0 .. Len(sleeping_list)
           /\ \A i \in 1 .. Woken(now) : sleeping_list[i].wakeup_time = now
           /\ Woken(now) < Len(sleeping_list) =>
                sleeping_list[Woken(now) + 1].wakeup_time # now
<1> DEFINE L == Len(sleeping_list)
           T(i) == sleeping_list[i].wakeup_time
           S == {i \in 1 .. L : T(i) # now}
<1>1. /\ L \in Nat /\ S \subseteq 1 .. L /\ \A i \in S : T(i) # now
      /\ \A i \in 1 .. L : i \in S \/ T(i) = now
  OBVIOUS
<1>2. Woken(now) = LET n == IF S # {} THEN Min(S) ELSE 0 IN IF n = 0 THEN L ELSE n - 1
  BY DEF Woken, SelectInSeq
<1> SUFFICES /\ Woken(now) \in 0 .. L
             /\ \A i \in 1 .. Woken(now) : T(i) = now
             /\ Woken(now) < L => T(Woken(now) + 1) # now
  OBVIOUS
<1> HIDE DEF L, T, S
<1>3. CASE S = {}
  BY <1>1, <1>2, <1>3
<1>4. CASE S # {}
  <2>1. Min(S) \in S /\ \A n \in S : Min(S) <= n
    BY <1>1, <1>4, MinIsFirst
  <2>2. Min(S) \in 1 .. L /\ Woken(now) = Min(S) - 1
    <3>1. Min(S) \in 1 .. L
      BY <1>1, <2>1
    <3>2. Min(S) # 0
      BY <3>1
    <3> QED
      BY <1>2, <1>4, <3>1, <3>2
  <2>3. ASSUME NEW i \in 1 .. Woken(now)
        PROVE  T(i) = now
    <3>1. i \in 1 .. L /\ ~ (Min(S) <= i)
      BY <1>1, <2>2
    <3> QED
      BY <1>1, <2>1, <3>1
  <2>4. Woken(now) + 1 = Min(S) /\ Woken(now) \in 0 .. L
    BY <1>1, <2>2
  <2> QED
    BY <1>1, <2>1, <2>3, <2>4
<1> QED
  BY <1>3, <1>4

LEMMA PlaceFirst ==
    ASSUME sleeping_list \in Seq(Element), NEW time \in Nat
    PROVE  /\ Place(time) \in 1 .. Len(sleeping_list) + 1
           /\ \A i \in 1 .. Place(time) - 1 : sleeping_list[i].wakeup_time < time
           /\ Place(time) <= Len(sleeping_list) =>
                time <= sleeping_list[Place(time)].wakeup_time
<1> DEFINE L == Len(sleeping_list)
           T(i) == sleeping_list[i].wakeup_time
           S == {i \in 1 .. L : time <= T(i)}
<1>1. \A i \in 1 .. L : T(i) \in Nat
  <2>1. \A i \in 1 .. L : sleeping_list[i] \in Element
    BY ElementOfSeq
  <2> QED
    BY <2>1 DEF Element
<1>2. /\ L \in Nat /\ S \subseteq 1 .. L /\ \A i \in S : time <= T(i)
      /\ \A i \in 1 .. L : i \in S \/ T(i) < time
  BY <1>1
<1>3. Place(time) = LET n == IF S # {} THEN Min(S) ELSE 0 IN IF n = 0 THEN L + 1 ELSE n
  BY DEF Place, SelectInSeq
<1> SUFFICES /\ Place(time) \in 1 .. L + 1
             /\ \A i \in 1 .. Place(time) - 1 : T(i) < time
             /\ Place(time) <= L => time <= T(Place(time))
  OBVIOUS
<1> HIDE DEF L, T, S
<1>4. CASE S = {}
  BY <1>2, <1>3, <1>4
<1>5. CASE S # {}
  <2>1. Min(S) \in S /\ \A n \in S : Min(S) <= n
    BY <1>2, <1>5, MinIsFirst
  <2>2. Min(S) \in 1 .. L /\ Place(time) = Min(S)
    <3>1. Min(S) \in 1 .. L
      BY <1>2, <2>1
    <3>2. Min(S) # 0
      BY <3>1
    <3> QED
      BY <1>3, <1>5, <3>1, <3>2
  <2>3. ASSUME NEW i \in 1 .. Place(time) - 1
        PROVE  T(i) < time
    <3>1. i \in 1 .. L /\ ~ (Min(S) <= i)
      BY <1>2, <2>2
    <3> QED
      BY <1>2, <2>1, <3>1
  <2> QED
    BY <1>2, <2>1, <2>2, <2>3
<1> QED
  BY <1>4, <1>5

(* InsertAt, element by element.                                            *)
LEMMA InsertedAt ==
    ASSUME NEW S, NEW s \in Seq(S), NEW k \in 1 .. Len(s) + 1, NEW e \in S
    PROVE  /\ InsertAt(s, k, e) \in Seq(S)
           /\ Len(InsertAt(s, k, e)) = Len(s) + 1
           /\ \A i \in 1 .. Len(s) + 1 :
                InsertAt(s, k, e)[i] = IF i < k THEN s[i] ELSE IF i = k THEN e ELSE s[i - 1]
<1> DEFINE front == SubSeq(s, 1, k - 1)
           back == SubSeq(s, k, Len(s))
<1>1. Len(s) \in Nat /\ k \in Nat /\ 1 <= k /\ k <= Len(s) + 1 /\ \A i \in 1 .. Len(s) : s[i] \in S
  OBVIOUS
<1>2. front \in Seq(S) /\ Len(front) = k - 1 /\ \A i \in 1 .. k - 1 : front[i] = s[i]
  BY <1>1, SubSeqProperties
<1>3. /\ back \in Seq(S) /\ Len(back) = Len(s) - k + 1
      /\ \A i \in 1 .. Len(s) - k + 1 : back[i] = s[k + i - 1]
  BY <1>1, SubSeqProperties
<1>4. <<e>> \in Seq(S) /\ Len(<<e>>) = 1 /\ <<e>>[1] = e
  OBVIOUS
<1> HIDE DEF front, back
<1> DEFINE first == front \o <<e>>
<1>5. /\ first \in Seq(S) /\ Len(first) = k
      /\ \A i \in 1 .. k : first[i] = IF i < k THEN s[i] ELSE e
  <2>1. /\ first \in Seq(S) /\ Len(first) = Len(front) + 1
        /\ \A i \in 1 .. Len(front) + 1 :
              first[i] = IF i <= Len(front) THEN front[i] ELSE <<e>>[i - Len(front)]
    BY <1>2, <1>4, ConcatProperties
  <2> QED
    BY <1>1, <1>2, <1>4, <2>1
<1> HIDE DEF first
<1>6. /\ first \o back \in Seq(S) /\ Len(first \o back) = Len(s) + 1
      /\ \A i \in 1 .. Len(s) + 1 :
            (first \o back)[i] = IF i <= k THEN first[i] ELSE back[i - k]
  <2>1. /\ first \o back \in Seq(S) /\ Len(first \o back) = Len(first) + Len(back)
        /\ \A i \in 1 .. Len(first) + Len(back) :
              (first \o back)[i] = IF i <= Len(first) THEN first[i] ELSE back[i - Len(first)]
    BY <1>3, <1>5, ConcatProperties
  <2>2. Len(first) + Len(back) = Len(s) + 1
    BY <1>1, <1>3, <1>5
  <2> QED
    BY <1>5, <2>1, <2>2
<1>7. \A i \in 1 .. Len(s) + 1 :
        (first \o back)[i] = IF i < k THEN s[i] ELSE IF i = k THEN e ELSE s[i - 1]
  <2>1. SUFFICES ASSUME NEW i \in 1 .. Len(s) + 1
                 PROVE  (first \o back)[i] =
                            IF i < k THEN s[i] ELSE IF i = k THEN e ELSE s[i - 1]
    OBVIOUS
  <2>2. CASE i <= k
    <3>1. i \in 1 .. k
      BY <1>1, <2>2
    <3> QED
      BY <1>1, <1>5, <1>6, <2>2, <3>1
  <2>3. CASE i > k
    <3>1. i - k \in 1 .. Len(s) - k + 1 /\ k + (i - k) - 1 = i - 1
      BY <1>1, <2>3
    <3>2. (first \o back)[i] = back[i - k]
      BY <1>1, <1>6, <2>3
    <3>3. back[i - k] = s[i - 1]
      BY <1>3, <3>1
    <3> QED
      BY <1>1, <2>3, <3>2, <3>3
  <2>4. i <= k \/ i > k
    BY <1>1
  <2> QED
    BY <2>2, <2>3, <2>4
<1> QED
  BY <1>6, <1>7 DEF InsertAt, first, front, back

-----------------------------------------------------------------------------
(* The list is ordered by time, no thread is in it twice, the threads in it *)
(* are those that sleep, and all times are to come.  The tick, which looks  *)
(* at the front only and compares for equality, needs all of it.            *)
ListOK(list, asleep, now) ==
    /\ list \in Seq(Element)
    /\ \A i, j \in 1 .. Len(list) : i < j =>
            list[i].wakeup_time <= list[j].wakeup_time /\ list[i].p # list[j].p
    /\ asleep = {list[i].p : i \in 1 .. Len(list)}
    /\ \A i \in 1 .. Len(list) : now < list[i].wakeup_time

LEMMA ListElements ==
    ASSUME NEW list \in Seq(Element)
    PROVE  /\ Len(list) \in Nat /\ DOMAIN list = 1 .. Len(list)
           /\ \A i \in 1 .. Len(list) :
                list[i] \in Element /\ list[i].p \in Thread /\ list[i].wakeup_time \in 0 .. MaxTick
<1>1. \A i \in 1 .. Len(list) : list[i] \in Element
  BY ElementOfSeq
<1> QED
  BY <1>1 DEF Element

(* The tick wakes threads whose time has come, and nobody else, and leaves  *)
(* nobody behind.                                                           *)
LEMMA TickList ==
    ASSUME tick \in Nat, ListOK(sleeping_list, sleeping, tick), Tick
    PROVE  /\ ListOK(sleeping_list', sleeping', tick')
           /\ \A i \in 1 .. Len(sleeping_list) :
                sleeping_list[i].p \notin sleeping' => sleeping_list[i].wakeup_time = tick'
<1> DEFINE L == Len(sleeping_list)
           n == Woken(tick')
           P(i) == sleeping_list[i].p
           T(i) == sleeping_list[i].wakeup_time
           new == SubSeq(sleeping_list, n + 1, L)
<1>1. /\ tick' = tick + 1 /\ sleeping_list' = new
      /\ sleeping' = sleeping \ {P(i) : i \in 1 .. n}
  BY DEF Tick
<1>2. /\ L \in Nat /\ sleeping_list \in Seq(Element)
      /\ \A i \in 1 .. L : sleeping_list[i] \in Element /\ T(i) \in Nat
  BY ListElements DEF ListOK
<1>3. /\ n \in 0 .. L /\ \A i \in 1 .. n : T(i) = tick'
      /\ n < L => T(n + 1) # tick'
  BY <1>2, WokenFirst
<1>4. /\ \A i, j \in 1 .. L : i < j => T(i) <= T(j) /\ P(i) # P(j)
      /\ sleeping = {P(i) : i \in 1 .. L}
      /\ \A i \in 1 .. L : tick < T(i)
  BY DEF ListOK
<1>5. /\ new \in Seq(Element) /\ Len(new) = L - n
      /\ \A i \in 1 .. L - n : new[i] = sleeping_list[n + i]
  <2>1. \A i \in n + 1 .. L : sleeping_list[i] \in Element
    BY <1>2, <1>3
  <2>2. /\ new \in Seq(Element) /\ Len(new) = IF n + 1 <= L THEN L - (n + 1) + 1 ELSE 0
        /\ \A i \in 1 .. L - (n + 1) + 1 : new[i] = sleeping_list[(n + 1) + i - 1]
    BY <1>2, <1>3, <2>1, SubSeqProperties
  <2>3. /\ (IF n + 1 <= L THEN L - (n + 1) + 1 ELSE 0) = L - n /\ L - (n + 1) + 1 = L - n
        /\ \A i \in 1 .. L - n : (n + 1) + i - 1 = n + i
    BY <1>2, <1>3
  <2> HIDE DEF new, n, L
  <2> QED
    BY <2>2, <2>3
<1> HIDE DEF L, n, P, T, new
<1>6. \A i \in 1 .. L - n : n + i \in 1 .. L
  BY <1>2, <1>3
<1>7. \A i \in n + 1 .. L : tick' < T(i)
  <2>1. SUFFICES ASSUME NEW i \in n + 1 .. L
                 PROVE  tick' < T(i)
    OBVIOUS
  <2>2. n + 1 \in 1 .. L /\ i \in 1 .. L /\ n < L /\ n + 1 <= i
    BY <1>2, <1>3
  <2>3. tick' < T(n + 1)
    BY <1>1, <1>2, <1>3, <1>4, <2>2
  <2>4. T(n + 1) <= T(i)
    BY <1>2, <1>4, <2>2
  <2> QED
    BY <1>1, <1>2, <2>2, <2>3, <2>4
<1>8. sleeping' = {P(n + i) : i \in 1 .. L - n}
  <2>1. \A i \in 1 .. n, j \in n + 1 .. L : P(i) # P(j)
    BY <1>2, <1>3, <1>4
  <2>2. \A i \in 1 .. L : i \in 1 .. n \/ i \in n + 1 .. L
    BY <1>2, <1>3
  <2>3. n + 1 .. L \subseteq 1 .. L
    BY <1>2, <1>3
  <2>4. sleeping' = {P(j) : j \in n + 1 .. L}
    BY <1>1, <1>4, <2>1, <2>2, <2>3, Zenon
  <2>5. \A j \in n + 1 .. L : j - n \in 1 .. L - n /\ n + (j - n) = j
    BY <1>2, <1>3
  <2>6. \A i \in 1 .. L - n : n + i \in n + 1 .. L
    BY <1>2, <1>3
  <2> QED
    BY <2>4, <2>5, <2>6
<1>9. \A i \in 1 .. L - n : new[i].p = P(n + i) /\ new[i].wakeup_time = T(n + i)
  BY <1>5 DEF P, T
<1>10. ListOK(sleeping_list', sleeping', tick')
  <2>1. sleeping' = {new[i].p : i \in 1 .. L - n}
    BY <1>8, <1>9
  <2>2. \A i \in 1 .. L - n : tick' < new[i].wakeup_time
    <3>1. \A i \in 1 .. L - n : n + i \in n + 1 .. L
      BY <1>2, <1>3
    <3> QED
      BY <1>7, <1>9, <3>1
  <2>3. ASSUME NEW i \in 1 .. L - n, NEW j \in 1 .. L - n, i < j
        PROVE  new[i].wakeup_time <= new[j].wakeup_time /\ new[i].p # new[j].p
    <3>1. n + i < n + j
      BY <1>2, <1>3, <2>3
    <3> QED
      BY <1>4, <1>6, <1>9, <3>1
  <2>4. \A i, j \in 1 .. Len(new) : i < j =>
            new[i].wakeup_time <= new[j].wakeup_time /\ new[i].p # new[j].p
    BY <1>5, <2>3
  <2>5. ListOK(new, sleeping', tick')
    BY <1>5, <2>1, <2>2, <2>4 DEF ListOK
  <2> QED
    BY <1>1, <2>5
<1>11. \A i \in 1 .. L : P(i) \notin sleeping' => T(i) = tick'
  <2>1. SUFFICES ASSUME NEW i \in 1 .. L, P(i) \notin sleeping'
                 PROVE  T(i) = tick'
    OBVIOUS
  <2>2. i \in 1 .. n
    <3>1. P(i) \in {P(j) : j \in 1 .. n}
      BY <1>1, <1>4, <2>1
    <3>2. PICK j \in 1 .. n : P(i) = P(j)
      BY <3>1
    <3>3. j \in 1 .. L
      BY <1>2, <1>3
    <3>4. ~ (i < j) /\ ~ (j < i)
      BY <1>4, <3>2, <3>3
    <3> QED
      BY <1>2, <1>3, <3>3, <3>4
  <2> QED
    BY <1>3, <2>2
<1> QED
  BY <1>10, <1>11 DEF L, P, T

(* Going to sleep keeps the list in order.                                  *)
LEMMA InsertList ==
    ASSUME tick \in Nat, ListOK(sleeping_list, sleeping, tick),
           NEW t \in Thread, t \notin sleeping, NEW time \in 0 .. MaxTick, tick < time,
           IRQaddToSleepingList(t, time)
    PROVE  ListOK(sleeping_list', sleeping', tick)
<1> DEFINE L == Len(sleeping_list)
           k == Place(time)
           e == [p |-> t, wakeup_time |-> time]
           P(i) == sleeping_list[i].p
           T(i) == sleeping_list[i].wakeup_time
           new == InsertAt(sleeping_list, k, e)
           Old(i) == IF i < k THEN i ELSE i - 1
<1>1. sleeping_list' = new /\ sleeping' = sleeping \union {t}
  BY DEF IRQaddToSleepingList
<1>2. /\ L \in Nat /\ sleeping_list \in Seq(Element) /\ time \in Nat
      /\ \A i \in 1 .. L : T(i) \in Nat
  BY ListElements DEF ListOK
<1>3. /\ k \in 1 .. L + 1 /\ \A i \in 1 .. k - 1 : T(i) < time
      /\ k <= L => time <= T(k)
  BY <1>2, PlaceFirst
<1>4. /\ \A i, j \in 1 .. L : i < j => T(i) <= T(j) /\ P(i) # P(j)
      /\ sleeping = {P(i) : i \in 1 .. L}
      /\ \A i \in 1 .. L : tick < T(i)
  BY DEF ListOK
<1>5. e \in Element /\ e.p = t /\ e.wakeup_time = time
  BY DEF Element
<1> HIDE DEF e, k, P, T
<1>6. /\ new \in Seq(Element) /\ Len(new) = L + 1
      /\ \A i \in 1 .. L + 1 :
            new[i] = IF i < k THEN sleeping_list[i]
                     ELSE IF i = k THEN e ELSE sleeping_list[i - 1]
  BY <1>2, <1>3, <1>5, InsertedAt
<1> HIDE DEF new, L
<1>7. \A i \in 1 .. L + 1 : i # k =>
        /\ new[i] = sleeping_list[Old(i)] /\ Old(i) \in 1 .. L
        /\ new[i].p = P(Old(i)) /\ new[i].wakeup_time = T(Old(i))
  <2>1. SUFFICES ASSUME NEW i \in 1 .. L + 1, i # k
                 PROVE  new[i] = sleeping_list[Old(i)] /\ Old(i) \in 1 .. L
    BY DEF P, T
  <2> QED
    BY <1>2, <1>3, <1>6, <2>1
<1>8. k \in 1 .. L + 1 /\ new[k].p = t /\ new[k].wakeup_time = time
  BY <1>3, <1>5, <1>6
<1>9. \A i \in 1 .. L : (i < k => T(i) <= time) /\ (k <= i => time <= T(i))
  <2>1. SUFFICES ASSUME NEW i \in 1 .. L
                 PROVE  (i < k => T(i) <= time) /\ (k <= i => time <= T(i))
    OBVIOUS
  <2>2. CASE i < k
    <3>1. i \in 1 .. k - 1
      BY <1>2, <1>3, <2>2
    <3> QED
      BY <1>2, <1>3, <2>2, <3>1
  <2>3. CASE k <= i
    <3>1. k \in 1 .. L /\ time <= T(k)
      BY <1>2, <1>3, <2>3
    <3>2. k = i \/ T(k) <= T(i)
      BY <1>2, <1>3, <1>4, <2>3, <3>1
    <3> QED
      BY <1>2, <1>3, <2>3, <3>1, <3>2
  <2> QED
    BY <1>2, <1>3, <2>2, <2>3
<1>10. \A i \in 1 .. L : P(i) # t
  BY <1>4
<1>11. ASSUME NEW i \in 1 .. L + 1, NEW j \in 1 .. L + 1, i < j
       PROVE  new[i].wakeup_time <= new[j].wakeup_time /\ new[i].p # new[j].p
  <2>1. CASE i = k
    <3>1. j # k /\ k <= Old(j) /\ Old(j) \in 1 .. L
      BY <1>2, <1>3, <1>11, <2>1
    <3> QED
      BY <1>7, <1>8, <1>9, <1>10, <2>1, <3>1
  <2>2. CASE j = k
    <3>1. i # k /\ Old(i) < k /\ Old(i) \in 1 .. L
      BY <1>2, <1>3, <1>11, <2>2
    <3> QED
      BY <1>7, <1>8, <1>9, <1>10, <2>2, <3>1
  <2>3. CASE i # k /\ j # k
    <3>1. Old(i) < Old(j) /\ Old(i) \in 1 .. L /\ Old(j) \in 1 .. L
      BY <1>2, <1>3, <1>11, <2>3
    <3> QED
      BY <1>4, <1>7, <2>3, <3>1
  <2> QED
    BY <2>1, <2>2, <2>3
<1>12. sleeping \union {t} = {new[i].p : i \in 1 .. L + 1}
  <2>1. ASSUME NEW i \in 1 .. L
        PROVE  \E j \in 1 .. L + 1 : new[j].p = P(i)
    <3>1. CASE i < k
      <4>1. i \in 1 .. L + 1 /\ i # k /\ Old(i) = i
        BY <1>2, <1>3, <3>1
      <4> QED
        BY <1>7, <4>1
    <3>2. CASE ~ (i < k)
      <4>1. i + 1 \in 1 .. L + 1 /\ i + 1 # k /\ Old(i + 1) = i
        BY <1>2, <1>3, <3>2
      <4> QED
        BY <1>7, <4>1
    <3> QED
      BY <3>1, <3>2
  <2>2. \A i \in 1 .. L + 1 : new[i].p = t \/ \E j \in 1 .. L : new[i].p = P(j)
    BY <1>7, <1>8
  <2> QED
    BY <1>4, <1>8, <2>1, <2>2
<1>13. \A i \in 1 .. L + 1 : tick < new[i].wakeup_time
  BY <1>4, <1>7, <1>8
<1>14. ListOK(new, sleeping \union {t}, tick)
  BY <1>6, <1>11, <1>12, <1>13 DEF ListOK
<1> QED
  BY <1>1, <1>14

-----------------------------------------------------------------------------
(* A sleeping thread has yet to yield, or does not run: it cannot go to     *)
(* sleep twice, which would put it in the list twice.                       *)
SleepersYield ==
    \A t \in sleeping : at[t] \in {"yields", "code"} /\ (cur = t => at[t] = "yields")

SleepInv ==
    /\ FlagsInv
    /\ tick \in 0 .. MaxTick
    /\ ListOK(sleeping_list, sleeping, tick)
    /\ SleepersYield

LEMMA InitSleep == Init => SleepInv
<1> SUFFICES ASSUME Init
             PROVE  SleepInv
  OBVIOUS
<1>1. /\ sleeping_list = <<>> /\ <<>> \in Seq(Element) /\ Len(<<>>) = 0
      /\ sleeping = {} /\ tick = 0
  BY DEF Init
<1>2. \A i \in 1 .. 0 : FALSE
  OBVIOUS
<1>3. ListOK(sleeping_list, sleeping, tick)
  BY <1>1, <1>2 DEF ListOK
<1> QED
  BY <1>1, <1>3, InitFlags, NumberAssumption DEF SleepInv, SleepersYield

LEMMA SleepersAwake ==
    ASSUME SleepInv
    PROVE  /\ tick \in Nat /\ sleeping \subseteq Thread /\ Thread \subseteq Context
           /\ at \in [Context -> {"code", "restarted", "owes", "yields", "reads"}]
  BY ListElements, NumberAssumption DEF SleepInv, FlagsInv, FlagsOK, ListOK, Context

(* A step that leaves the list and the time alone.                          *)
LEMMA SleepElsewhere ==
    ASSUME SleepInv, FlagsInv', NEW c \in Context, cur = c,
           UNCHANGED <<sleeping_list, sleeping, tick>>,
           \/ UNCHANGED <<cur, at>>
           \/ /\ at[c] \in {"code", "restarted", "owes", "reads"} /\ cur' = cur
              /\ \E place : at' = [at EXCEPT ![c] = place]
    PROVE  SleepInv'
<1>1. CASE UNCHANGED <<cur, at>>
  BY <1>1 DEF SleepInv, SleepersYield
<1>2. CASE /\ at[c] \in {"code", "restarted", "owes", "reads"} /\ cur' = cur
           /\ \E place : at' = [at EXCEPT ![c] = place]
  <2>1. c \notin sleeping
    BY <1>2 DEF SleepInv, SleepersYield
  <2>2. \A t \in sleeping : at'[t] = at[t]
    BY <1>2, <2>1, SleepersAwake
  <2>3. SleepersYield'
    BY <1>2, <2>2 DEF SleepInv, SleepersYield
  <2> QED
    BY <2>3 DEF SleepInv
<1> QED
  BY <1>1, <1>2

LEMMA TicksPositive == \A ms \in Nat : Ticks(ms) \in Nat \ {0}
<1>1. \A ms \in Nat : ms * TICK_FREQ \in Nat
  BY NumberAssumption
<1>2. \A x \in Nat : x \div 1000 \in Nat
  OBVIOUS
<1>3. \A ms \in Nat : (ms * TICK_FREQ) \div 1000 \in Nat
  BY <1>1, <1>2
<1> QED
  BY <1>3 DEF Ticks

LEMMA SleepStep == SleepInv /\ [Next]_vars => SleepInv'
<1> SUFFICES ASSUME SleepInv, [Next]_vars
             PROVE  SleepInv'
  OBVIOUS
<1>1. FlagsInv'
  BY FlagsStep DEF SleepInv
<1>2. /\ tick \in Nat /\ sleeping \subseteq Thread /\ Thread \subseteq Context /\ cur \in Context
      /\ at \in [Context -> {"code", "restarted", "owes", "yields", "reads"}]
      /\ kernel_running \in Nat /\ PausedByCurrent
      /\ ListOK(sleeping_list, sleeping, tick) /\ SleepersYield
  BY SleepersAwake, NumberAssumption DEF SleepInv, FlagsInv, FlagsOK
<1>3. CASE Tick
  <2>1. ListOK(sleeping_list', sleeping', tick')
    BY <1>2, <1>3, TickList
  <2>2. tick' \in 0 .. MaxTick /\ sleeping' \subseteq sleeping /\ at' = at
    BY <1>2, <1>3, NumberAssumption DEF Tick
  <2>3. cur' = cur \/ cur' \notin sleeping'
    BY <1>3 DEF Tick, NextThread
  <2>4. SleepersYield'
    BY <1>2, <2>2, <2>3 DEF SleepersYield
  <2> QED
    BY <1>1, <2>1, <2>2, <2>4 DEF SleepInv
<1>4. CASE startKernel
  BY <1>1, <1>2, <1>4, SleepElsewhere DEF startKernel, sleepVars
<1>5. ASSUME NEW c \in Context,
             disableInterrupts(c) \/ enableInterrupts(c) \/ pauseKernel(c)
      PROVE  SleepInv'
  <2>1. UNCHANGED <<sleeping_list, sleeping, tick, cur, at>>
    BY <1>5 DEF disableInterrupts, enableInterrupts, pauseKernel, Reboot, sleepVars
  <2> QED
    BY <1>1, <1>2, <2>1, SleepElsewhere
<1>6. ASSUME NEW c \in Context, restartKernel(c) \/ restarted(c) \/ owes(c) \/ yield(c)
      PROVE  SleepInv'
  <2>1. UNCHANGED <<sleeping_list, sleeping, tick, cur>> /\ cur = c
    BY <1>6
    DEF restartKernel, MayPause, Running, restarted, owes, yield, Reboot, sleepVars
  <2>2. \/ at' = at
        \/ /\ at[c] \in {"code", "restarted", "owes", "reads"}
           /\ \E place : at' = [at EXCEPT ![c] = place]
    BY <1>6 DEF restartKernel, MayPause, Running, restarted, owes, yield, Reboot
  <2> QED
    BY <1>1, <2>1, <2>2, SleepElsewhere
<1>7. ASSUME NEW c \in Context, yields(c)
      PROVE  SleepInv'
  <2>1. kernel_running = 0
    BY <1>2, <1>7 DEF yields, PausedByCurrent
  <2>2. /\ UNCHANGED <<sleeping_list, sleeping, tick>> /\ cur' \notin sleeping
        /\ at' = [at EXCEPT ![c] = "code"]
    BY <1>7, <2>1 DEF yields, NextThread, sleepVars
  <2>3. \A t \in sleeping : at'[t] \in {"yields", "code"}
    BY <1>2, <2>2 DEF SleepersYield
  <2>4. SleepersYield'
    BY <2>2, <2>3 DEF SleepersYield
  <2> QED
    BY <1>1, <2>2, <2>4 DEF SleepInv
<1>8. ASSUME NEW t \in Thread, NEW time \in 0 .. MaxTick, tick < time, InTime(t), Rest,
             IRQaddToSleepingList(t, time)
      PROVE  SleepInv'
  <2>1. /\ cur = t /\ at[t] = "code" /\ UNCHANGED <<tick, cur>>
        /\ sleeping' = sleeping \union {t} /\ at' = [at EXCEPT ![t] = "yields"]
    BY <1>8 DEF InTime, Running, Rest, IRQaddToSleepingList
  <2>2. t \notin sleeping
    BY <1>2, <2>1 DEF SleepersYield
  <2>3. ListOK(sleeping_list', sleeping', tick)
    BY <1>2, <1>8, <2>2, InsertList
  <2>4. SleepersYield'
    BY <1>2, <2>1, <2>2 DEF SleepersYield
  <2> QED
    BY <1>1, <2>1, <2>3, <2>4 DEF SleepInv
<1>9. ASSUME NEW t \in Thread, NEW ms \in Nat, InTime(t), Rest, Sleep(t, ms),
             tick + Ticks(ms) <= MaxTick
      PROVE  SleepInv'
  <2>1. CASE ms = 0
    <3>1. UNCHANGED <<sleeping_list, sleeping, at, tick, cur>>
      BY <1>9, <2>1 DEF Sleep, Rest
    <3> QED
      BY <1>1, <1>2, <3>1, SleepElsewhere
  <2>2. CASE ms # 0
    <3>1. tick + Ticks(ms) \in 0 .. MaxTick /\ tick < tick + Ticks(ms)
      BY <1>2, <1>9, TicksPositive, NumberAssumption
    <3>2. IRQaddToSleepingList(t, tick + Ticks(ms))
      BY <1>9, <2>2 DEF Sleep
    <3> QED
      BY <1>8, <1>9, <3>1, <3>2
  <2> QED
    BY <2>1, <2>2
<1>10. ASSUME NEW t \in Thread, NEW ms \in SleepTimes, sleep(t, ms)
       PROVE  SleepInv'
  BY <1>9, <1>10, NumberAssumption DEF sleep
<1>11. ASSUME NEW t \in Thread, NEW us \in USleepTimes, usleep(t, us)
       PROVE  SleepInv'
  <2>1. us \in Nat /\ us \div 1000 \in Nat
    BY NumberAssumption
  <2>2. CASE us > 1000
    BY <1>9, <1>11, <2>1, <2>2 DEF usleep
  <2>3. CASE ~ (us > 1000)
    <3>1. UNCHANGED <<sleeping_list, sleeping, at, tick, cur>>
      BY <1>11, <2>3 DEF usleep, Sleep, Rest
    <3> QED
      BY <1>1, <1>2, <3>1, SleepElsewhere
  <2> QED
    BY <2>2, <2>3
<1>12. ASSUME NEW t \in Thread, NEW time \in 0 .. MaxTick, sleepUntil(t, time)
       PROVE  SleepInv'
  <2>1. CASE time <= tick
    <3>1. UNCHANGED <<sleeping_list, sleeping, at, tick, cur>>
      BY <1>12, <2>1 DEF sleepUntil, Rest
    <3> QED
      BY <1>1, <1>2, <3>1, SleepElsewhere
  <2>2. CASE ~ (time <= tick)
    <3>1. tick < time
      BY <1>2, <2>2
    <3> QED
      BY <1>8, <1>12, <2>2, <3>1 DEF sleepUntil
  <2> QED
    BY <2>1, <2>2
<1>13. ASSUME NEW t \in Thread, getTick(t) \/ compare(t)
       PROVE  SleepInv'
  <2>1. UNCHANGED <<sleeping_list, sleeping, tick, cur>> /\ cur = t /\ t \in Context
    BY <1>2, <1>13 DEF getTick, compare, Running, sleepVars
  <2>2. \/ at' = at
        \/ /\ at[t] \in {"code", "restarted", "owes", "reads"}
           /\ \E place : at' = [at EXCEPT ![t] = place]
    BY <1>13 DEF getTick, compare, Running
  <2> QED
    BY <1>1, <2>1, <2>2, SleepElsewhere
<1>14. ASSUME NEW t \in Thread, NEW variable \in Variable, NEW half \in Half,
              load(t, variable, half)
       PROVE  SleepInv'
  <2>1. UNCHANGED <<sleeping_list, sleeping, tick, cur, at>>
    BY <1>14 DEF load, sleepVars
  <2> QED
    BY <1>1, <1>2, <2>1, SleepElsewhere
<1>15. CASE UNCHANGED vars
  <2>1. UNCHANGED <<sleeping_list, sleeping, tick, cur, at>>
    BY <1>15 DEF vars, sleepVars
  <2> QED
    BY <1>1, <1>2, <2>1, SleepElsewhere
<1> QED
  BY <1>3, <1>4, <1>5, <1>6, <1>7, <1>10, <1>11, <1>12, <1>13, <1>14, <1>15 DEF Next

LEMMA SleepCorrect == Spec => []SleepInv
  BY InitSleep, SleepStep, PTL DEF Spec

(* Nobody sleeps past its time.                                             *)
THEOREM NobodyLeftAsleep == Spec => []NobodyOversleeps
<1>1. SleepInv => NobodyOversleeps
  BY ListElements DEF SleepInv, ListOK, NobodyOversleeps
<1> QED
  BY <1>1, SleepCorrect, PTL

(* Only the tick wakes, ...                                                 *)
LEMMA OnlyTickWakes ==
    ASSUME [Next]_vars, ~Tick
    PROVE  sleeping \subseteq sleeping'
<1> USE DEF sleepVars
<1>1. CASE startKernel \/ UNCHANGED vars
  BY <1>1 DEF startKernel, vars
<1>2. ASSUME NEW c \in Context,
             \/ disableInterrupts(c) \/ enableInterrupts(c) \/ pauseKernel(c) \/ restartKernel(c)
             \/ restarted(c) \/ owes(c) \/ yields(c) \/ yield(c)
      PROVE  sleeping' = sleeping
  BY <1>2 DEF disableInterrupts, enableInterrupts, pauseKernel, restartKernel, Reboot, restarted,
              owes, yields, yield
<1>3. ASSUME NEW t \in Thread,
             \/ getTick(t) \/ compare(t)
             \/ \E variable \in Variable, half \in Half : load(t, variable, half)
      PROVE  sleeping' = sleeping
  BY <1>3 DEF getTick, compare, load
<1>4. ASSUME NEW t \in Thread,
             \/ \E ms \in SleepTimes : sleep(t, ms)
             \/ \E us \in USleepTimes : usleep(t, us)
             \/ \E time \in 0 .. MaxTick : sleepUntil(t, time)
      PROVE  sleeping \subseteq sleeping'
  <2>1. sleeping' = sleeping \/ \E time : IRQaddToSleepingList(t, time)
    BY <1>4 DEF sleep, usleep, sleepUntil, Sleep
  <2> QED
    BY <2>1 DEF IRQaddToSleepingList
<1> QED
  BY <1>1, <1>2, <1>3, <1>4 DEF Next

(* ... and it wakes each thread at its time.                                *)
THEOREM SleepersWokenOnTime == Spec => WakesOnTime
<1> DEFINE OnTime ==
        \A i \in DOMAIN sleeping_list :
            sleeping_list[i].p \notin sleeping' => tick' = sleeping_list[i].wakeup_time
<1>1. SleepInv /\ [Next]_vars => OnTime
  <2>1. SUFFICES ASSUME SleepInv, [Next]_vars
                 PROVE  OnTime
    OBVIOUS
  <2>2. /\ ListOK(sleeping_list, sleeping, tick) /\ tick \in Nat
        /\ DOMAIN sleeping_list = 1 .. Len(sleeping_list)
        /\ \A i \in 1 .. Len(sleeping_list) : sleeping_list[i].p \in sleeping
    BY <2>1, SleepersAwake, ListElements DEF SleepInv, ListOK
  <2>3. CASE Tick
    BY <2>2, <2>3, TickList
  <2>4. CASE ~Tick
    BY <2>1, <2>2, <2>4, OnlyTickWakes
  <2> QED
    BY <2>3, <2>4
<1> QED
  <2>1. OnTime => [OnTime]_vars
    OBVIOUS
  <2> QED
    BY <1>1, <2>1, InitSleep, SleepStep, PTL DEF Spec, WakesOnTime

-----------------------------------------------------------------------------
(* The histories have their types too.                                      *)
HistoryOK ==
    /\ called \in [Thread -> 0 .. MaxTick]
    /\ promised \in [Thread -> Nat]

LEMMA HistoryStep ==
    ASSUME tick \in 0 .. MaxTick, HistoryOK, [Next]_vars
    PROVE  HistoryOK'
<1>1. tick \in Nat /\ 0 \in 0 .. MaxTick
  BY NumberAssumption
<1>2. called' \in [Thread -> 0 .. MaxTick]
  <2>1. \/ called' = called
        \/ \E t \in Thread, c \in {0, tick} : called' = [called EXCEPT ![t] = c]
    BY DEF Next, vars, sleepVars, readVars, Tick, startKernel, disableInterrupts,
           enableInterrupts, pauseKernel, restartKernel, Reboot, restarted, owes, yields, yield,
           sleep, usleep, sleepUntil, Rest, getTick, load, compare
  <2> QED
    BY <1>1, <2>1 DEF HistoryOK
<1>3. promised' \in [Thread -> Nat]
  <2>1. \/ promised' = promised
        \/ promised' = [t \in Thread |-> IF promised[t] > tick' THEN promised[t] ELSE 0]
        \/ \E t \in Thread, ms \in Nat : Promises(t, (ms * TICK_FREQ) \div 1000)
        \/ \E t \in Thread : Promises(t, 0)
    <3>1. \A us \in USleepTimes : us \div 1000 \in Nat
      <4>1. \A us \in Nat : us \div 1000 \in Nat
        OBVIOUS
      <4> QED
        BY <4>1, NumberAssumption
    <3>2. SleepTimes \subseteq Nat
      BY NumberAssumption
    <3>3. \A t \in Thread, us \in USleepTimes :
            usleep(t, us) =>
                \E ms \in Nat : Promises(t, (ms * TICK_FREQ) \div 1000)
      BY <3>1 DEF usleep
    <3> QED
      BY <3>2, <3>3
      DEF Next, vars, sleepVars, readVars, Tick, startKernel, disableInterrupts,
          enableInterrupts, pauseKernel, restartKernel, Reboot, restarted, owes, yields, yield,
          sleep, sleepUntil, Rest, getTick, load, compare
  <2>2. \A ms \in Nat : (ms * TICK_FREQ) \div 1000 \in Nat
    <3>1. \A x \in Nat : x \div 1000 \in Nat
      OBVIOUS
    <3>2. \A ms \in Nat : ms * TICK_FREQ \in Nat
      BY NumberAssumption
    <3> QED
      BY <3>1, <3>2
  <2> QED
    BY <1>1, <2>1, <2>2 DEF HistoryOK, Promises
<1> QED
  BY <1>2, <1>3 DEF HistoryOK

(* Every reachable state is well typed.                                     *)
THEOREM TypeCorrect == Spec => []TypeOK
<1>1. Init => HistoryOK
  BY NumberAssumption DEF Init, HistoryOK
<1>2. SleepInv /\ HistoryOK /\ [Next]_vars => HistoryOK'
  BY HistoryStep DEF SleepInv
<1>3. SleepInv /\ ReadInv /\ HistoryOK => TypeOK
  <2>1. SUFFICES ASSUME SleepInv, ReadInv, HistoryOK
                 PROVE  TypeOK
    OBVIOUS
  <2>2. sleeping \subseteq Thread /\ sleeping_list \in Seq([p : Thread, wakeup_time : 0 .. MaxTick])
    BY <2>1, SleepersAwake DEF SleepInv, ListOK, Element
  <2> QED
    BY <2>1, <2>2 DEF TypeOK, SleepInv, FlagsInv, FlagsOK, ReadInv, ReadOK, Words, HistoryOK
<1> QED
  BY <1>1, <1>2, <1>3, InitSleep, SleepStep, InitRead, ReadStep, PTL DEF Spec

-----------------------------------------------------------------------------
(* Where the elements of the list come from.                                *)
LEMMA TickLeaves ==
    ASSUME sleeping_list \in Seq(Element), Tick
    PROVE  \A i \in 1 .. Len(sleeping_list') :
                \E j \in 1 .. Len(sleeping_list) : sleeping_list'[i] = sleeping_list[j]
<1> DEFINE L == Len(sleeping_list)
           n == Woken(tick')
           new == SubSeq(sleeping_list, n + 1, L)
<1>1. sleeping_list' = new /\ L \in Nat /\ n \in 0 .. L
  BY WokenFirst DEF Tick
<1>2. Len(new) = L - n /\ \A i \in 1 .. L - n : new[i] = sleeping_list[n + i]
  <2>1. \A i \in n + 1 .. L : sleeping_list[i] \in Element
    BY <1>1, ListElements
  <2>2. /\ Len(new) = IF n + 1 <= L THEN L - (n + 1) + 1 ELSE 0
        /\ \A i \in 1 .. L - (n + 1) + 1 : new[i] = sleeping_list[(n + 1) + i - 1]
    BY <1>1, <2>1, SubSeqProperties
  <2>3. /\ (IF n + 1 <= L THEN L - (n + 1) + 1 ELSE 0) = L - n /\ L - (n + 1) + 1 = L - n
        /\ \A i \in 1 .. L - n : (n + 1) + i - 1 = n + i
    BY <1>1
  <2> HIDE DEF new, n, L
  <2> QED
    BY <2>2, <2>3
<1> HIDE DEF new, n
<1>3. \A i \in 1 .. L - n : n + i \in 1 .. L
  BY <1>1
<1> QED
  BY <1>1, <1>2, <1>3

LEMMA InsertAdds ==
    ASSUME sleeping_list \in Seq(Element), NEW t \in Thread, NEW time \in 0 .. MaxTick,
           IRQaddToSleepingList(t, time)
    PROVE  \A i \in 1 .. Len(sleeping_list') :
                \/ sleeping_list'[i] = [p |-> t, wakeup_time |-> time]
                \/ \E j \in 1 .. Len(sleeping_list) : sleeping_list'[i] = sleeping_list[j]
<1> DEFINE L == Len(sleeping_list)
           k == Place(time)
           e == [p |-> t, wakeup_time |-> time]
           new == InsertAt(sleeping_list, k, e)
<1>1. sleeping_list' = new /\ e \in Element /\ L \in Nat
  BY DEF IRQaddToSleepingList, Element
<1>2. k \in 1 .. L + 1
  BY PlaceFirst
<1>3. /\ Len(new) = L + 1
      /\ \A i \in 1 .. L + 1 :
            new[i] = IF i < k THEN sleeping_list[i] ELSE IF i = k THEN e ELSE sleeping_list[i - 1]
  BY <1>1, <1>2, InsertedAt
<1> HIDE DEF k, e, new
<1>4. \A i \in 1 .. L + 1 : (i < k => i \in 1 .. L) /\ (i > k => i - 1 \in 1 .. L)
  BY <1>1, <1>2
<1>5. \A i \in 1 .. L + 1 : new[i] = e \/ \E j \in 1 .. L : new[i] = sleeping_list[j]
  BY <1>2, <1>3, <1>4
<1> QED
  BY <1>1, <1>3, <1>5 DEF e

(* A thread that was promised more ticks sleeps, and its time in the list   *)
(* is not before the one it was promised.                                   *)
PromiseInv ==
    \A t \in Thread :
        \/ promised[t] <= tick
        \/ /\ t \in sleeping
           /\ \A i \in 1 .. Len(sleeping_list) :
                sleeping_list[i].p = t => promised[t] <= sleeping_list[i].wakeup_time

LEMMA TickKeepsPromises ==
    ASSUME SleepInv, HistoryOK, PromiseInv, Tick
    PROVE  PromiseInv'
<1>1. /\ tick \in Nat /\ ListOK(sleeping_list, sleeping, tick) /\ sleeping_list \in Seq(Element)
      /\ tick' = tick + 1 /\ promised \in [Thread -> Nat]
      /\ promised' = [t \in Thread |-> IF promised[t] > tick' THEN promised[t] ELSE 0]
  BY SleepersAwake DEF SleepInv, ListOK, HistoryOK, Tick
<1>2. SUFFICES ASSUME NEW t \in Thread, promised[t] > tick'
               PROVE  /\ t \in sleeping'
                      /\ \A i \in 1 .. Len(sleeping_list') :
                            sleeping_list'[i].p = t => promised[t] <= sleeping_list'[i].wakeup_time
  BY <1>1 DEF PromiseInv
<1>3. /\ promised[t] \in Nat /\ t \in sleeping
      /\ \A i \in 1 .. Len(sleeping_list) :
            sleeping_list[i].p = t => promised[t] <= sleeping_list[i].wakeup_time
  BY <1>1, <1>2 DEF PromiseInv
<1>4. PICK j \in 1 .. Len(sleeping_list) : sleeping_list[j].p = t
  BY <1>1, <1>3 DEF ListOK
<1>5. sleeping_list[j].wakeup_time # tick'
  BY <1>1, <1>2, <1>3, <1>4
<1>6. t \in sleeping'
  BY <1>1, <1>4, <1>5, TickList
<1> QED
  BY <1>1, <1>3, <1>6, TickLeaves

(* Going to sleep until a time that is not before the promised one.         *)
LEMMA SleepKeepsPromises ==
    ASSUME SleepInv, HistoryOK, PromiseInv,
           NEW t \in Thread, InTime(t), Rest, NEW time \in 0 .. MaxTick,
           NEW ticks \in Nat, Promises(t, ticks), ticks = 0 \/ tick + ticks <= time,
           IRQaddToSleepingList(t, time)
    PROVE  PromiseInv'
<1>1. /\ tick \in Nat /\ ListOK(sleeping_list, sleeping, tick) /\ sleeping_list \in Seq(Element)
      /\ tick' = tick /\ promised \in [Thread -> Nat] /\ sleeping' = sleeping \union {t}
      /\ promised' = [promised EXCEPT ![t] = IF ticks = 0 THEN 0 ELSE tick + ticks]
  BY SleepersAwake DEF SleepInv, ListOK, HistoryOK, Promises, Rest, IRQaddToSleepingList
<1>2. t \notin sleeping
  BY DEF SleepInv, SleepersYield, InTime, Running
<1>3. \A j \in 1 .. Len(sleeping_list) : sleeping_list[j].p # t
  BY <1>1, <1>2 DEF ListOK
<1>4. ASSUME NEW u \in Thread, u # t
      PROVE  \/ promised'[u] <= tick'
             \/ /\ u \in sleeping'
                /\ \A i \in 1 .. Len(sleeping_list') :
                     sleeping_list'[i].p = u => promised'[u] <= sleeping_list'[i].wakeup_time
  <2>1. promised'[u] = promised[u] /\ [p |-> t, wakeup_time |-> time].p # u
    BY <1>1, <1>4
  <2> QED
    BY <1>1, <2>1, InsertAdds DEF PromiseInv
<1>5. \/ promised'[t] <= tick'
      \/ /\ t \in sleeping'
         /\ \A i \in 1 .. Len(sleeping_list') :
              sleeping_list'[i].p = t => promised'[t] <= sleeping_list'[i].wakeup_time
  <2>1. CASE ticks = 0
    BY <1>1, <2>1
  <2>2. CASE ticks # 0
    <3>1. promised'[t] <= time /\ [p |-> t, wakeup_time |-> time].wakeup_time = time
      BY <1>1, <2>2
    <3> QED
      BY <1>1, <1>3, <3>1, InsertAdds
  <2> QED
    BY <2>1, <2>2
<1> QED
  BY <1>4, <1>5 DEF PromiseInv

(* Thread::sleep with its argument in milliseconds, as usleep calls it too. *)
LEMMA SleepPromises ==
    ASSUME SleepInv, HistoryOK, PromiseInv,
           NEW t \in Thread, InTime(t), Rest, NEW ms \in Nat, tick + Ticks(ms) <= MaxTick,
           Sleep(t, ms), Promises(t, (ms * TICK_FREQ) \div 1000)
    PROVE  PromiseInv'
<1>1. /\ tick \in Nat /\ promised \in [Thread -> Nat] /\ tick' = tick
  BY SleepersAwake DEF HistoryOK, Rest
<1>2. (ms * TICK_FREQ) \div 1000 \in Nat
  <2>1. ms * TICK_FREQ \in Nat /\ \A x \in Nat : x \div 1000 \in Nat
    BY NumberAssumption
  <2> QED
    BY <2>1
<1>3. CASE ms = 0
  <2>1. (0 * TICK_FREQ) \div 1000 = 0
    BY NumberAssumption
  <2>2. UNCHANGED <<sleeping_list, sleeping>> /\ promised' = [promised EXCEPT ![t] = 0]
    BY <1>3, <2>1 DEF Sleep, Promises
  <2>3. \A u \in Thread : promised'[u] = promised[u] \/ promised'[u] = 0
    BY <1>1, <2>2
  <2> QED
    BY <1>1, <2>2, <2>3 DEF PromiseInv
<1>4. CASE ms # 0
  <2>1. /\ Ticks(ms) \in Nat /\ (ms * TICK_FREQ) \div 1000 <= Ticks(ms)
        /\ tick + Ticks(ms) \in 0 .. MaxTick
    BY <1>1, <1>2, TicksPositive, NumberAssumption DEF Ticks
  <2>2. tick + ((ms * TICK_FREQ) \div 1000) <= tick + Ticks(ms)
    BY <1>1, <1>2, <2>1
  <2>3. IRQaddToSleepingList(t, tick + Ticks(ms))
    BY <1>4 DEF Sleep
  <2> QED
    BY <1>2, <2>1, <2>2, <2>3, SleepKeepsPromises
<1> QED
  BY <1>3, <1>4

(* usleep(1000) returns at once: with ticks of a millisecond or less it     *)
(* does not keep what it promises.                                          *)
NotExactlyOne == 1000 \notin USleepTimes \/ TICK_FREQ < 1000

LEMMA PromiseStep ==
    ASSUME NotExactlyOne
    PROVE  SleepInv /\ HistoryOK /\ PromiseInv /\ [Next]_vars => PromiseInv'
<1> SUFFICES ASSUME SleepInv, HistoryOK, PromiseInv, [Next]_vars
             PROVE  PromiseInv'
  OBVIOUS
<1>1. CASE Tick
  BY <1>1, TickKeepsPromises
<1>2. ASSUME NEW t \in Thread, NEW ms \in SleepTimes, sleep(t, ms)
      PROVE  PromiseInv'
  BY <1>2, SleepPromises, NumberAssumption DEF sleep
<1>3. ASSUME NEW t \in Thread, NEW us \in USleepTimes, usleep(t, us)
      PROVE  PromiseInv'
  <2>1. us \in Nat /\ us \div 1000 \in Nat
    BY NumberAssumption
  <2>2. CASE us > 1000
    BY <1>3, <2>1, <2>2, SleepPromises DEF usleep
  <2>3. CASE ~ (us > 1000)
    <3>1. UNCHANGED <<sleeping_list, sleeping, tick>>
      BY <1>3, <2>3 DEF usleep, Sleep, Rest
    <3>2. ((us \div 1000) * TICK_FREQ) \div 1000 = 0
      <4>1. TICK_FREQ \in Nat /\ (us = 1000 => TICK_FREQ < 1000)
        BY NumberAssumption DEF NotExactlyOne
      <4>2. us \div 1000 = 0 \/ (us = 1000 /\ us \div 1000 = 1)
        BY <2>1, <2>3
      <4>3. (us \div 1000) * TICK_FREQ \in 0 .. 999
        BY <4>1, <4>2
      <4> QED
        BY <4>3
    <3>3. /\ promised \in [Thread -> Nat] /\ tick \in Nat
          /\ promised' = [promised EXCEPT ![t] = 0]
      <4>1. Promises(t, ((us \div 1000) * TICK_FREQ) \div 1000)
        BY <1>3 DEF usleep
      <4>2. Promises(t, 0)
        BY <3>2, <4>1
      <4> QED
        BY <4>2, SleepersAwake DEF HistoryOK, Promises
    <3>4. \A u \in Thread : promised'[u] = promised[u] \/ promised'[u] = 0
      BY <3>3
    <3> QED
      BY <3>1, <3>3, <3>4 DEF PromiseInv
  <2> QED
    BY <2>2, <2>3
<1>4. ASSUME NEW t \in Thread, NEW time \in 0 .. MaxTick, sleepUntil(t, time)
      PROVE  PromiseInv'
  <2>1. InTime(t) /\ Rest /\ Promises(t, 0)
    BY <1>4 DEF sleepUntil
  <2>2. CASE time <= tick
    <3>1. /\ UNCHANGED <<sleeping_list, sleeping, tick>> /\ tick \in Nat
          /\ promised \in [Thread -> Nat] /\ promised' = [promised EXCEPT ![t] = 0]
      BY <1>4, <2>1, <2>2, SleepersAwake DEF sleepUntil, Promises, Rest, HistoryOK
    <3>2. \A u \in Thread : promised'[u] = promised[u] \/ promised'[u] = 0
      BY <3>1
    <3> QED
      BY <3>1, <3>2 DEF PromiseInv
  <2>3. CASE ~ (time <= tick)
    BY <1>4, <2>1, <2>3, SleepKeepsPromises DEF sleepUntil
  <2> QED
    BY <2>2, <2>3
<1>5. CASE /\ ~Tick
           /\ \A t \in Thread :
                /\ \A ms \in SleepTimes : ~sleep(t, ms)
                /\ \A us \in USleepTimes : ~usleep(t, us)
                /\ \A time \in 0 .. MaxTick : ~sleepUntil(t, time)
  <2>1. UNCHANGED <<sleeping_list, sleeping, promised, tick>>
    BY <1>5 DEF Next, vars, sleepVars, startKernel, disableInterrupts, enableInterrupts,
                pauseKernel, restartKernel, Reboot, restarted, owes, yields, yield, getTick, load,
                compare
  <2> QED
    BY <2>1 DEF PromiseInv
<1> QED
  BY <1>1, <1>2, <1>3, <1>4, <1>5

(* unistd.cpp:42, 51: no switch, tick or other sleeper brings a thread back *)
(* to its own code before the ticks it asked for have passed.               *)
THEOREM SleepsLongEnough == ASSUME NotExactlyOne PROVE Spec => []SleepsAtLeast
<1>1. Init => HistoryOK /\ PromiseInv
  BY NumberAssumption DEF Init, HistoryOK, PromiseInv
<1>2. SleepInv /\ HistoryOK /\ [Next]_vars => HistoryOK'
  BY HistoryStep DEF SleepInv
<1>3. SleepInv /\ PromiseInv => SleepsAtLeast
  BY DEF SleepInv, SleepersYield, PromiseInv, SleepsAtLeast
<1> QED
  BY <1>1, <1>2, <1>3, InitSleep, SleepStep, PromiseStep, PTL DEF Spec

=============================================================================
