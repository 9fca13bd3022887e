----------------------------- MODULE FlasherProofs -----------------------------
(***************************************************************************)
(* "Done." means that the file is in the flash, for every size of file,    *)
(* page, block and flash, every option and every number of retries, and    *)
(* whatever goes wrong on the line.  Retries stay within their bound, and  *)
(* an error is reported only for one of its reasons.                       *)
(***************************************************************************)
EXTENDS Flasher, TLAPS

-----------------------------------------------------------------------------
(* Multiples.                                                              *)
LEMMA Quotient ==
    ASSUME NEW a \in Int, NEW d \in Nat \ {0}
    PROVE  a = (d * (a \div d)) + (a % d) /\ a \div d \in Int /\ a % d \in 0 .. d - 1
OBVIOUS

LEMMA Multiple ==
    ASSUME NEW q \in Int, NEW d \in Nat \ {0}
    PROVE  (d * q) % d = 0
<1> DEFINE a == d * q
           p == a \div d
           r == a % d
<1>1. d * q = (d * p) + r /\ p \in Int /\ r \in 0 .. d - 1
    <2>1. a \in Int
        OBVIOUS
    <2> QED
        BY <2>1, Quotient
<1> HIDE DEF p, r
<1>2. d * (q - p) = r
    BY <1>1
<1>3. CASE q - p >= 1
    <2>1. d * (q - p) >= d
        BY <1>1, <1>3
    <2> QED
        BY <1>1, <1>2, <2>1
<1>4. CASE q - p <= -1
    <2>1. d * (q - p) <= -d
        BY <1>1, <1>4
    <2> QED
        BY <1>1, <1>2, <2>1
<1>5. CASE q = p
    BY <1>1, <1>5 DEF r
<1> QED
    BY <1>1, <1>3, <1>4, <1>5

LEMMA IsMultiple ==
    ASSUME NEW a \in Int, NEW d \in Nat \ {0}, a % d = 0
    PROVE  \E q \in Int : a = d * q
<1>1. a = d * (a \div d) /\ a \div d \in Int
    BY Quotient
<1> QED
    BY <1>1

LEMMA SumOfMultiples ==
    ASSUME NEW a \in Int, NEW b \in Int, NEW d \in Nat \ {0}, a % d = 0, b % d = 0
    PROVE  (a + b) % d = 0
<1>1. PICK p \in Int : a = d * p
    BY IsMultiple
<1>2. PICK q \in Int : b = d * q
    BY IsMultiple
<1>3. a + b = d * (p + q) /\ p + q \in Int
    BY <1>1, <1>2
<1> QED
    BY <1>3, Multiple

LEMMA MultipleOfMultiple ==
    ASSUME NEW s \in Int, NEW a \in Int, NEW b \in Nat \ {0}, NEW d \in Nat \ {0},
           a % b = 0, b % d = 0
    PROVE  (s * a) % d = 0
<1>1. PICK p \in Int : a = b * p
    BY Quotient
<1>2. PICK q \in Int : b = d * q
    BY Quotient
<1>3. s * a = d * (q * p * s) /\ q * p * s \in Int
    BY <1>1, <1>2
<1> QED
    BY <1>3, Multiple

-----------------------------------------------------------------------------
(* The run is in the loop over the blocks, and has one in the buffer.      *)
InLoop == stage \in {"load", "write", "verify", "advance"}
InBlock == stage \in {"write", "verify", "advance"}

(* Where the next byte of the file goes; every block begins where the ROM  *)
(* takes it.                                                               *)
Position ==
    /\ stage \in {"check", "erase"} => offset = 0
    /\ InLoop => addr = Start + offset
    /\ stage = "load" /\ More => addr % Align = 0
    /\ InBlock => More /\ len = NextLen /\ addr % Align = 0

(* What must be in the flash is told of two kinds of runs.                 *)
Watched == opt.verify \/ (~fault /\ FilePages \subseteq PagesNamed)

(* The bytes that are written, and how many of them when the block is.     *)
Upto == IF stage = "advance" THEN offset + len ELSE offset
Written == \A i \in Fitting : i < Upto => flash[Start + i] = i

(* Without -v nothing is looked at again: a block is as it should be       *)
(* because its cells were erased before.                                   *)
StillErased == ~opt.verify => \A i \in Fitting : i >= Upto => flash[Start + i] = Erased

Success ==
    ret = 0 =>
        /\ stage \in {"close", "gone"}
        /\ Watched => Written
        /\ \A i \in Fitting : i < offset

FlashInv ==
    /\ TypeOK
    /\ Position
    /\ InLoop /\ Watched => Written /\ StillErased
    /\ Success

(* The parts of the options that the proofs use.                           *)
LEMMA OptionTypes ==
    ASSUME TypeOK
    PROVE  /\ opt.spage \in Nat /\ opt.size \in Nat /\ opt.verify \in BOOLEAN
           /\ Start \in Nat /\ FlashSize \in Nat /\ FlashPages \in Nat \ {0}
           /\ PageSize \in Nat \ {0} /\ BufferSize \in Nat \ {0} /\ Align \in Nat \ {0}
           /\ Retry \in Nat
           /\ Fitting \subseteq Nat /\ \A i \in Fitting : i < opt.size /\ Start + i < FlashSize
<1>1. /\ opt.spage \in Nat /\ opt.size \in Nat /\ opt.verify \in BOOLEAN
      /\ FlashPages \in Nat \ {0} /\ PageSize \in Nat \ {0} /\ BufferSize \in Nat \ {0}
      /\ Align \in Nat \ {0} /\ Retry \in Nat
    BY FlashAssumption DEF FlashAssumption, TypeOK, Options
<1>2. opt.spage * PageSize \in Nat /\ FlashPages * PageSize \in Nat
    BY <1>1
<1> QED
    BY <1>1, <1>2 DEF Start, FlashSize, Fitting

LEMMA InitFlashInv == Init => FlashInv
<1> SUFFICES ASSUME Init PROVE FlashInv
    OBVIOUS
<1>1. Retry \in Nat /\ BufferSize \in Nat
    BY FlashAssumption DEF FlashAssumption
<1>2. opt \in Options /\ flash \in [0 .. FlashSize - 1 -> Cell]
    BY DEF Init, Cell
<1>3. /\ stage = "check" /\ addr = 0 /\ offset = 0 /\ len = 0 /\ failed = 0 /\ ret = 1
      /\ device = "rom" /\ fault = FALSE
    BY DEF Init
<1>4. 0 \in 0 .. Retry /\ 0 \in 0 .. BufferSize
    BY <1>1
<1>5. TypeOK
    BY <1>2, <1>3, <1>4 DEF TypeOK
<1> QED
    BY <1>5 DEF Init, FlashInv, Position, Success, InLoop, InBlock

(* Before the loop, and when it is left with an error, nothing is promised. *)
LEMMA OutsideKeeps ==
    ASSUME FlashInv, TypeOK', UNCHANGED <<opt, offset>>, ret # 0, ret' # 0,
           stage' \in {"spin", "close", "gone"} \/ (stage = "check" /\ stage' = "erase")
    PROVE  FlashInv'
BY DEF FlashInv, Position, Success, InLoop, InBlock

-----------------------------------------------------------------------------
(* Types, for the steps that go on with the line at fault.                 *)
LEMMA FailingTypes ==
    ASSUME FlashInv, LineFault \/ Failure, flash' \in [0 .. FlashSize - 1 -> Cell],
           UNCHANGED <<opt, block, device>>, fault' \in BOOLEAN
    PROVE  TypeOK' /\ ret' = ret /\ stage' \in {"close", "gone"}
<1>1. stage' \in {"close", "gone"} /\ ret' = ret
    BY DEF LineFault, Failure, Abort
<1> QED
    BY <1>1 DEF FlashInv, TypeOK, block, FlashSize

(* In the loop the run has not been said to have succeeded.                *)
LEMMA NotYet == ASSUME FlashInv, stage \notin {"close", "gone"} PROVE ret = 1
BY DEF FlashInv, TypeOK, Success

(* A step that gives up, whatever it leaves in the flash.                  *)
LEMMA FailKeeps ==
    ASSUME FlashInv, stage \notin {"close", "gone"}, LineFault \/ Failure,
           flash' \in [0 .. FlashSize - 1 -> Cell],
           UNCHANGED <<opt, block, device>>, fault' \in BOOLEAN
    PROVE  FlashInv'
<1>1. TypeOK' /\ ret' = ret /\ stage' \in {"close", "gone"} /\ ret = 1
    BY FailingTypes, NotYet
<1> QED
    BY <1>1, OutsideKeeps DEF block

LEMMA CheckKeeps == ASSUME FlashInv, check PROVE FlashInv'
<1>1. TypeOK' /\ ret = 1 /\ ret' = ret /\ UNCHANGED <<opt, offset>>
    BY NotYet DEF FlashInv, TypeOK, check, block, FlashSize
<1> QED
    BY <1>1, OutsideKeeps DEF check

(* The loop over the page numbers that never ends.                         *)
LEMMA EraseLoopsKeeps == ASSUME FlashInv, eraseLoops PROVE FlashInv'
<1>1. TypeOK' /\ ret = 1 /\ ret' = ret /\ UNCHANGED <<opt, offset>>
    BY NotYet DEF FlashInv, TypeOK, eraseLoops, block, FlashSize
<1> QED
    BY <1>1, OutsideKeeps DEF eraseLoops

(* The pages of the file are erased if they are named.                     *)
LEMMA EraseKeeps == ASSUME FlashInv, erase PROVE FlashInv'
<1>1. /\ stage = "erase" /\ stage' = "load" /\ addr' = Start /\ offset = 0
      /\ UNCHANGED <<opt, offset, len, failed, ret, device, fault>> /\ ret = 1
    BY NotYet DEF FlashInv, Position, erase
<1>2. flash' \in [0 .. FlashSize - 1 -> Cell]
      /\ \A j \in 0 .. FlashSize - 1 : j \div PageSize \in PagesNamed => flash'[j] = Erased
    BY DEF FlashInv, TypeOK, erase, Cell
<1>3. Start \in Nat /\ Start % Align = 0
    <2>1. PageSize % BufferSize = 0 /\ BufferSize % Align = 0
        BY FlashAssumption DEF FlashAssumption
    <2> QED
        BY <2>1, OptionTypes, MultipleOfMultiple DEF FlashInv, Start
<1>4. TypeOK'
    BY <1>1, <1>2, <1>3 DEF FlashInv, TypeOK, FlashSize
<1>5. Position'
    BY <1>1, <1>3, OptionTypes DEF FlashInv, Position, InLoop, InBlock, Start
<1>6. Written'
    BY <1>1, OptionTypes DEF FlashInv, Written, Upto, Fitting
<1>7. Watched' => StillErased'
    <2>1. SUFFICES ASSUME FilePages \subseteq PagesNamed, NEW i \in Fitting
                   PROVE  flash'[Start + i] = Erased
        BY <1>1 DEF Watched, StillErased, Fitting, Start, FlashSize, FilePages, PagesNamed,
                    FirstPage, MassErase
    <2>2. (Start + i) \div PageSize \in PagesNamed
        BY <2>1 DEF FilePages
    <2>3. Start + i \in 0 .. FlashSize - 1
        BY OptionTypes DEF FlashInv
    <2> QED
        BY <1>2, <2>2, <2>3
<1> QED
    BY <1>1, <1>4, <1>5, <1>6, <1>7 DEF FlashInv, Success

-----------------------------------------------------------------------------
(* The length of the next block.                                           *)
LEMMA NextBlock ==
    ASSUME TypeOK, More
    PROVE  /\ NextLen \in 1 .. BufferSize
           /\ addr + NextLen <= FlashSize /\ offset + NextLen <= opt.size
           /\ NextLen = BufferSize \/ addr + NextLen = FlashSize \/ offset + NextLen = opt.size
<1>1. addr \in Nat /\ offset \in Nat
    BY DEF TypeOK
<1> QED
    BY <1>1, OptionTypes DEF More, NextLen, Smaller

LEMMA LoadKeeps == ASSUME FlashInv, load PROVE FlashInv'
<1>1. /\ stage = "load" /\ More /\ len' = NextLen /\ stage' \in {"write", "spin"}
      /\ UNCHANGED <<opt, flash, addr, offset, failed, ret, device, fault>> /\ ret = 1
    BY NotYet DEF FlashInv, load
<1>2. NextLen \in 0 .. BufferSize
    BY <1>1, NextBlock, OptionTypes DEF FlashInv
<1>3. addr % Align = 0
    BY <1>1 DEF FlashInv, Position
<1>4. TypeOK'
    BY <1>1, <1>2, <1>3 DEF FlashInv, TypeOK, FlashSize
<1>5. Position'
    BY <1>1, <1>3 DEF FlashInv, Position, InLoop, InBlock, Start, More, NextLen, FlashSize
<1>6. (Watched' => Written' /\ StillErased')
    BY <1>1 DEF FlashInv, InLoop, Watched, Written, StillErased, Upto, Fitting, Start, FlashSize,
                FilePages, PagesNamed, FirstPage, MassErase
<1> QED
    BY <1>1, <1>4, <1>5, <1>6 DEF FlashInv, Success

(* All that fits was written.                                              *)
LEMMA DoneKeeps == ASSUME FlashInv, done PROVE FlashInv'
<1>1. /\ stage = "load" /\ ~More /\ ret' = 0 /\ stage' = "close" /\ addr = Start + offset
      /\ UNCHANGED <<opt, flash, addr, offset, len, failed, device, fault>>
    BY DEF FlashInv, Position, InLoop, done, block
<1>2. TypeOK'
    BY <1>1 DEF FlashInv, TypeOK, FlashSize
<1>3. \A i \in Fitting : i < offset
    <2>1. offset \in Nat
        BY DEF FlashInv, TypeOK
    <2> QED
        BY <1>1, <2>1, OptionTypes DEF FlashInv, More
<1>4. Watched' => Written'
    BY <1>1 DEF FlashInv, InLoop, Watched, Written, Upto, Fitting, Start, FlashSize, FilePages,
                PagesNamed, FirstPage, MassErase
<1>5. Success'
    BY <1>1, <1>3, <1>4 DEF Success, Fitting, Start, FlashSize
<1> QED
    BY <1>1, <1>2, <1>5 DEF FlashInv, Position, InLoop, InBlock

-----------------------------------------------------------------------------
(* The cells of a block, and what a write leaves of the flash.             *)
LEMMA BlockCells ==
    ASSUME FlashInv, InBlock
    PROVE  /\ addr = Start + offset /\ addr \in Nat /\ offset \in Nat /\ len \in 1 .. BufferSize
           /\ addr + len <= FlashSize /\ offset + len <= opt.size /\ addr % Align = 0
           /\ \A i \in Fitting : Start + i \in 0 .. FlashSize - 1
           /\ \A i \in Fitting : Start + i \in Block <=> offset <= i /\ i < offset + len
<1>1. /\ addr = Start + offset /\ addr \in Nat /\ offset \in Nat /\ len \in 1 .. BufferSize
      /\ addr + len <= FlashSize /\ offset + len <= opt.size /\ addr % Align = 0
    BY NextBlock DEF FlashInv, TypeOK, Position, InLoop, InBlock
<1> QED
    BY <1>1, OptionTypes DEF FlashInv, Block

LEMMA ProgrammedCells ==
    ASSUME FlashInv, stage = "write", NEW weak
    PROVE  /\ Programmed(weak) \in [0 .. FlashSize - 1 -> Cell]
           /\ \A j \in 0 .. FlashSize - 1 : j \notin Block => Programmed(weak)[j] = flash[j]
           /\ \A j \in Block : weak = {} /\ flash[j] = Erased => Programmed(weak)[j] = offset + j - addr
<1>1. /\ addr \in Nat /\ offset \in Nat /\ len \in Nat /\ flash \in [0 .. FlashSize - 1 -> Cell]
      /\ addr + len <= FlashSize
    BY BlockCells, OptionTypes DEF InBlock, FlashInv, TypeOK
<1>2. FlashSize \in Nat
    BY OptionTypes DEF FlashInv
<1>3. \A j \in Block : j \in 0 .. FlashSize - 1 /\ offset + j - addr \in Nat
    BY <1>1, <1>2 DEF Block
<1>4. DOMAIN flash = 0 .. FlashSize - 1
    BY <1>1
<1>5. \A j \in 0 .. FlashSize - 1 :
        Programmed(weak)[j] \in {flash[j], Clash, Weak} \union
            (IF j \in Block THEN {offset + j - addr} ELSE {})
    BY <1>4 DEF Programmed
<1>6. Clash \in Cell /\ Weak \in Cell /\ Nat \subseteq Cell /\ Erased \notin Nat
    BY DEF Clash, Weak, Cell, Erased
<1>7. \A j \in 0 .. FlashSize - 1 : Programmed(weak)[j] \in Cell
    BY <1>1, <1>3, <1>5, <1>6
<1>8. Programmed(weak) = [j \in 0 .. FlashSize - 1 |-> Programmed(weak)[j]]
    BY <1>4 DEF Programmed
<1>9. \A j \in 0 .. FlashSize - 1 : j \notin Block => Programmed(weak)[j] = flash[j]
    BY <1>4 DEF Programmed
<1>10. \A j \in Block : weak = {} /\ flash[j] = Erased => Programmed(weak)[j] = offset + j - addr
    BY <1>3, <1>4 DEF Programmed
<1> QED
    BY <1>7, <1>8, <1>9, <1>10

(* Without -v the block was erased, and is as it should be if no cell of   *)
(* it failed; with -v that is left to the verification.                    *)
LEMMA WriteKeeps == ASSUME FlashInv, write PROVE FlashInv'
<1>1. PICK weak \in Failing :
        /\ stage = "write" /\ stage' = AfterWrite /\ flash' = Programmed(weak)
        /\ fault' = (fault \/ weak # {})
        /\ UNCHANGED <<opt, addr, offset, len, failed, ret, device>>
    BY DEF write, block
<1>2. ret = 1 /\ InLoop /\ InBlock /\ opt.verify \in BOOLEAN
    BY <1>1, NotYet, OptionTypes DEF InLoop, InBlock, FlashInv
<1>3. stage' \in {"verify", "advance"} /\ (stage' = "verify" <=> opt.verify)
    BY <1>1, <1>2 DEF AfterWrite
<1>4. flash' \in [0 .. FlashSize - 1 -> Cell]
    BY <1>1, ProgrammedCells
<1>5. addr % Align = 0 /\ fault' \in BOOLEAN
    BY <1>1, <1>2, BlockCells DEF FlashInv, TypeOK
<1>6. TypeOK'
    BY <1>1, <1>3, <1>4, <1>5 DEF FlashInv, TypeOK, FlashSize
<1>7. Position'
    BY <1>1, <1>2, <1>3 DEF FlashInv, Position, InLoop, InBlock, Start, More, NextLen, FlashSize
<1>8. ASSUME Watched' PROVE Written' /\ StillErased'
    <2>1. Watched /\ Fitting' = Fitting /\ Start' = Start /\ (opt.verify \/ weak = {})
        BY <1>1, <1>8 DEF Watched, Fitting, Start, FlashSize, FilePages, PagesNamed, FirstPage,
                          MassErase
    <2>2. /\ \A i \in Fitting : i < offset => flash[Start + i] = i
          /\ ~opt.verify => \A i \in Fitting : i >= offset => flash[Start + i] = Erased
        BY <1>1, <1>2, <2>1 DEF FlashInv, Written, StillErased, Upto
    <2>3. \A i \in Fitting : i < offset \/ i >= offset + len => flash'[Start + i] = flash[Start + i]
        <3>1. SUFFICES ASSUME NEW i \in Fitting, i < offset \/ i >= offset + len
                       PROVE  flash'[Start + i] = flash[Start + i]
            OBVIOUS
        <3>2. i \in Nat /\ offset \in Nat /\ len \in Nat
            BY <1>2, BlockCells, OptionTypes DEF FlashInv
        <3>3. Start + i \in 0 .. FlashSize - 1 /\ Start + i \notin Block
            BY <1>2, <3>1, <3>2, BlockCells
        <3> QED
            BY <1>1, <3>3, ProgrammedCells
    <2>4. ASSUME ~opt.verify, NEW i \in Fitting, offset <= i, i < offset + len
          PROVE  flash'[Start + i] = i
        <3>1. Start + i \in Block /\ flash[Start + i] = Erased /\ weak = {}
            BY <1>2, <2>1, <2>2, <2>4, BlockCells
        <3>2. flash'[Start + i] = offset + (Start + i) - addr
            BY <1>1, <3>1, ProgrammedCells
        <3> QED
            BY <1>2, <3>2, BlockCells, OptionTypes DEF FlashInv
    <2>5. offset \in Nat /\ len \in Nat /\ Fitting \subseteq Nat
        BY <1>2, BlockCells, OptionTypes DEF FlashInv
    <2>6. CASE opt.verify
        <3>1. Upto' = offset
            BY <1>1, <1>3, <2>6 DEF Upto
        <3> QED
            BY <1>1, <2>1, <2>2, <2>3, <2>6, <3>1 DEF Written, StillErased
    <2>7. CASE ~opt.verify
        <3>1. Upto' = offset + len
            BY <1>1, <1>3, <2>7 DEF Upto
        <3>2. \A i \in Fitting : i < offset + len => flash'[Start + i] = i
            BY <2>2, <2>3, <2>4, <2>5, <2>7
        <3>3. \A i \in Fitting : i >= offset + len => flash'[Start + i] = Erased
            BY <2>2, <2>3, <2>5, <2>7
        <3> QED
            BY <2>1, <3>1, <3>2, <3>3 DEF Written, StillErased
    <2> QED
        BY <2>6, <2>7
<1> QED
    BY <1>1, <1>2, <1>6, <1>7, <1>8 DEF FlashInv, Success

-----------------------------------------------------------------------------
(* The block was read back as it should be: it is written.                 *)
LEMMA SameKeeps == ASSUME FlashInv, verifySame PROVE FlashInv'
<1>1. /\ stage = "verify" /\ stage' = "advance" /\ failed' = 0 /\ Same(FALSE)
      /\ UNCHANGED <<opt, flash, addr, offset, len, ret, device, fault>>
    BY DEF verifySame
<1>2. ret = 1 /\ InLoop /\ InBlock /\ 0 \in 0 .. Retry
    BY <1>1, NotYet, OptionTypes DEF InLoop, InBlock, FlashInv
<1>3. TypeOK'
    BY <1>1, <1>2 DEF FlashInv, TypeOK, FlashSize
<1>4. Position'
    BY <1>1, <1>2 DEF FlashInv, Position, InLoop, InBlock, Start, More, NextLen, FlashSize
<1>5. ASSUME Watched' PROVE Written' /\ StillErased'
    <2>1. Watched /\ Fitting' = Fitting /\ Start' = Start /\ Upto = offset /\ Upto' = offset + len
        BY <1>1, <1>5 DEF Watched, Fitting, Start, FlashSize, FilePages, PagesNamed, FirstPage,
                          MassErase, Upto
    <2>2. Written /\ StillErased
        BY <1>2, <2>1 DEF FlashInv
    <2>3. offset \in Nat /\ len \in Nat /\ Fitting \subseteq Nat /\ Start \in Nat /\ addr = Start + offset
        BY <1>2, BlockCells, OptionTypes DEF FlashInv
    <2>4. ASSUME NEW i \in Fitting, offset <= i, i < offset + len PROVE flash[Start + i] = i
        <3>1. Start + i \in Block
            BY <1>2, <2>4, BlockCells
        <3>2. flash[Start + i] = offset + (Start + i) - addr
            BY <1>1, <3>1 DEF Same
        <3> QED
            BY <2>3, <3>2
    <2>5. \A i \in Fitting : i < offset + len => flash[Start + i] = i
        BY <2>1, <2>2, <2>3, <2>4 DEF Written
    <2>6. ~opt.verify => \A i \in Fitting : i >= offset + len => flash[Start + i] = Erased
        BY <2>1, <2>2, <2>3 DEF StillErased
    <2> QED
        BY <1>1, <2>1, <2>5, <2>6 DEF Written, StillErased
<1> QED
    BY <1>1, <1>2, <1>3, <1>4, <1>5 DEF FlashInv, Success

(* A step of the loop that leaves flash and position as they are, and does *)
(* not say that all went well.                                             *)
LEMMA AgainKeeps ==
    ASSUME FlashInv, stage = "verify", stage' = "write",
           UNCHANGED <<opt, flash, addr, offset, len, ret, device>>,
           failed' \in 0 .. Retry, fault' \in BOOLEAN, fault => fault'
    PROVE  FlashInv'
<1>1. ret = 1 /\ InLoop /\ InBlock
    BY NotYet DEF InLoop, InBlock
<1>2. addr % Align = 0
    BY <1>1, BlockCells
<1>3. TypeOK'
    BY <1>2 DEF FlashInv, TypeOK, FlashSize
<1>4. Position'
    BY <1>1 DEF FlashInv, Position, InLoop, InBlock, Start, More, NextLen, FlashSize
<1>5. Watched' => Watched
    BY DEF Watched, FilePages, PagesNamed, FirstPage, MassErase, Fitting, Start, FlashSize
<1>6. Written /\ StillErased => Written' /\ StillErased'
    BY DEF Written, StillErased, Upto, Fitting, Start, FlashSize
<1> QED
    BY <1>1, <1>3, <1>4, <1>5, <1>6 DEF FlashInv, Success

LEMMA DiffersKeeps == ASSUME FlashInv, verifyDiffers PROVE FlashInv'
<1>1. /\ stage = "verify" /\ UNCHANGED <<opt, flash, addr, offset, len, device>>
      /\ fault' \in BOOLEAN /\ (fault => fault')
    BY DEF FlashInv, TypeOK, verifyDiffers
<1>2. CASE GiveUp
    <2>1. Failure /\ UNCHANGED failed
        BY <1>2 DEF verifyDiffers
    <2>2. flash' \in [0 .. FlashSize - 1 -> Cell]
        BY <1>1 DEF FlashInv, TypeOK
    <2> QED
        BY <1>1, <2>1, <2>2, FailKeeps DEF block
<1>3. CASE ~GiveUp
    <2>1. failed' = failed + 1 /\ stage' = "write" /\ UNCHANGED ret
        BY <1>3 DEF verifyDiffers, Again
    <2>2. failed' \in 0 .. Retry
        BY <1>3, <2>1, OptionTypes DEF GiveUp, FlashInv, TypeOK
    <2> QED
        BY <1>1, <2>1, <2>2, AgainKeeps
<1> QED
    BY <1>2, <1>3

-----------------------------------------------------------------------------
(* The next block begins at a multiple again, unless this was the last.    *)
LEMMA AdvanceKeeps == ASSUME FlashInv, advance PROVE FlashInv'
<1>1. /\ stage = "advance" /\ stage' = "load" /\ addr' = addr + len /\ offset' = offset + len
      /\ UNCHANGED <<opt, flash, len, failed, ret, device, fault>>
    BY DEF advance
<1>2. ret = 1 /\ InLoop /\ InBlock
    BY <1>1, NotYet DEF InLoop, InBlock
<1>3. /\ addr = Start + offset /\ addr \in Nat /\ offset \in Nat /\ len \in 1 .. BufferSize
      /\ addr % Align = 0 /\ len = NextLen /\ More
    BY <1>2, BlockCells DEF FlashInv, Position
<1>4. TypeOK'
    <2>1. addr' \in Nat /\ offset' \in Nat
        BY <1>1, <1>3, OptionTypes DEF FlashInv
    <2> QED
        BY <1>1, <2>1 DEF FlashInv, TypeOK, FlashSize
<1>5. More' => addr' % Align = 0
    <2>1. len = BufferSize \/ addr + len = FlashSize \/ offset + len = opt.size
        BY <1>3, NextBlock DEF FlashInv
    <2>2. More' => len = BufferSize
        BY <1>1, <1>3, <2>1, OptionTypes DEF FlashInv, More, FlashSize
    <2>3. BufferSize % Align = 0
        BY FlashAssumption DEF FlashAssumption
    <2>4. (addr + BufferSize) % Align = 0
        BY <1>3, <2>3, OptionTypes, SumOfMultiples DEF FlashInv
    <2> QED
        BY <1>1, <2>2, <2>4
<1>6. Position'
    BY <1>1, <1>3, <1>5, OptionTypes DEF FlashInv, Position, InLoop, InBlock, Start
<1>7. Watched' /\ Written /\ StillErased => Watched /\ Written' /\ StillErased'
    BY <1>1 DEF Watched, Written, StillErased, Upto, Fitting, Start, FlashSize, FilePages,
                PagesNamed, FirstPage, MassErase
<1>8. Watched' => Watched
    BY <1>1 DEF Watched, FilePages, PagesNamed, FirstPage, MassErase, Fitting, Start, FlashSize
<1> QED
    BY <1>1, <1>2, <1>4, <1>6, <1>7, <1>8 DEF FlashInv, Success

(* What was told stays told.                                               *)
LEMMA CloseKeeps == ASSUME FlashInv, close PROVE FlashInv'
<1>1. /\ stage = "close" /\ stage' = "gone" /\ device' \in {"rom", "reset", "program"}
      /\ UNCHANGED <<opt, flash, addr, offset, len, failed, ret, fault>>
    BY DEF close, block
<1>2. TypeOK'
    BY <1>1 DEF FlashInv, TypeOK, FlashSize
<1>3. Success'
    BY <1>1 DEF FlashInv, Success, Watched, Written, Upto, Fitting, Start, FlashSize, FilePages,
                PagesNamed, FirstPage, MassErase
<1> QED
    BY <1>1, <1>2, <1>3 DEF FlashInv, Position, InLoop, InBlock

-----------------------------------------------------------------------------
LEMMA NextFlashInv == FlashInv /\ [Next]_vars => FlashInv'
<1> SUFFICES ASSUME FlashInv, [Next]_vars PROVE FlashInv'
    OBVIOUS
<1>1. flash \in [0 .. FlashSize - 1 -> Cell] /\ fault \in BOOLEAN
    BY DEF FlashInv, TypeOK
<1>2. CASE check \/ eraseLoops \/ erase
    BY <1>2, CheckKeeps, EraseLoopsKeeps, EraseKeeps
<1>3. CASE eraseRefused \/ eraseFails \/ writeRefused \/ verifyFails \/ loadFails
    <2>1. /\ stage \notin {"close", "gone"} /\ (LineFault \/ Failure) /\ fault' \in BOOLEAN
          /\ UNCHANGED <<opt, flash, block, device>>
        BY <1>1, <1>3 DEF eraseRefused, eraseFails, writeRefused, verifyFails, loadFails, LineFault
    <2> QED
        BY <1>1, <2>1, FailKeeps
<1>4. CASE writeFails
    <2>1. /\ stage = "write" /\ LineFault /\ fault' = TRUE /\ flash' \in {flash, Programmed({})}
          /\ UNCHANGED <<opt, block, device>>
        BY <1>4 DEF writeFails, LineFault
    <2>2. flash' \in [0 .. FlashSize - 1 -> Cell]
        BY <1>1, <2>1, ProgrammedCells
    <2> QED
        BY <2>1, <2>2, FailKeeps
<1>5. CASE load \/ done \/ write \/ verifySame \/ verifyDiffers \/ advance \/ close
    BY <1>5, LoadKeeps, DoneKeeps, WriteKeeps, SameKeeps, DiffersKeeps, AdvanceKeeps, CloseKeeps
<1>6. CASE UNCHANGED vars
    BY <1>6 DEF vars, block, FlashInv, TypeOK, Position, Success, InLoop, InBlock, More, NextLen,
                Start, FlashSize, Watched, Written, StillErased, Upto, Fitting, FilePages,
                PagesNamed, FirstPage, MassErase
<1> QED
    BY <1>2, <1>3, <1>4, <1>5, <1>6 DEF Next

(* The loop of main (main.c:205-262) keeps its place in file and flash     *)
(* together, whatever blocks are written again.                            *)
THEOREM LoopKeepsPlace == Spec => []FlashInv
<1>1. Init => FlashInv
    BY InitFlashInv
<1>2. FlashInv /\ [Next]_vars => FlashInv'
    BY NextFlashInv
<1> QED
    BY <1>1, <1>2, PTL DEF Spec

(* A block is tried again no more often than -n allows (main.c:237-251),   *)
(* and every block is sent to an address that the ROM takes.               *)
THEOREM TypeCorrect == Spec => []TypeOK
<1>1. FlashInv => TypeOK
    BY DEF FlashInv
<1> QED
    BY <1>1, LoopKeepsPlace, PTL

(* main.c:265, 266: a run that tells success has put into the flash what   *)
(* fits of the file, with -v whatever failed on the way.                   *)
THEOREM SuccessMeansProgrammed == Spec => []DoneMeansProgrammed
<1>1. FlashInv => DoneMeansProgrammed
    <2>1. SUFFICES ASSUME FlashInv, stage = "gone", ret = 0, Watched, NEW i \in Fitting
                   PROVE  flash[Start + i] = i
        BY DEF DoneMeansProgrammed, Watched
    <2> QED
        BY <2>1 DEF FlashInv, Success, Written, Upto
<1> QED
    BY <1>1, LoopKeepsPlace, PTL

-----------------------------------------------------------------------------
(* An error has a reason.                                                  *)
LEMMA Remainder ==
    ASSUME NEW q \in Int, NEW d \in Nat \ {0}, NEW rest \in 0 .. d - 1
    PROVE  (d * q + rest) % d = rest
<1> DEFINE a == d * q + rest
           p == a \div d
           s == a % d
<1>1. d * q + rest = (d * p) + s /\ p \in Int /\ s \in 0 .. d - 1
    <2>1. a \in Int
        OBVIOUS
    <2> QED
        BY <2>1, Quotient
<1> HIDE DEF p, s
<1>2. d * (q - p) = s - rest
    BY <1>1
<1>3. CASE q - p >= 1
    <2>1. d * (q - p) >= d
        BY <1>1, <1>3
    <2> QED
        BY <1>1, <1>2, <2>1
<1>4. CASE q - p <= -1
    <2>1. d * (q - p) <= -d
        BY <1>1, <1>4
    <2> QED
        BY <1>1, <1>2, <2>1
<1>5. CASE q = p
    BY <1>1, <1>5 DEF s
<1> QED
    BY <1>1, <1>3, <1>4, <1>5

(* Only the length that is one less than the buffer has a padding that     *)
(* does not fit into the byte.                                             *)
LEMMA PaddingFits ==
    ASSUME NEW n \in 1 .. BufferSize, n % Align = 0 \/ n # BufferSize - 1
    PROVE  Told(n) = n + Extra(n)
<1>1. Align \in 1 .. 4 /\ BufferSize \in Nat \ {0} /\ BufferSize % Align = 0
    BY FlashAssumption DEF FlashAssumption
<1> DEFINE more == n % Align
<1>2. PICK k \in Int : BufferSize = Align * k
    BY <1>1, IsMultiple
<1>3. PICK j \in Int : n = Align * j + more /\ more \in 0 .. Align - 1
    <2>1. n \in Int /\ Align \in Nat \ {0}
        BY <1>1
    <2>2. n = (Align * (n \div Align)) + (n % Align) /\ n \div Align \in Int /\ n % Align \in 0 .. Align - 1
        BY <2>1, Quotient
    <2> QED
        BY <2>2
<1> HIDE DEF more
<1>4. n + more <= BufferSize
    <2>1. CASE more = 0
        BY <2>1
    <2>2. ASSUME more # 0 PROVE n <= BufferSize - 2
        <3>1. n # BufferSize
            <4>1. SUFFICES ASSUME n = BufferSize PROVE FALSE
                OBVIOUS
            <4> QED
                BY <1>1, <2>2, <4>1 DEF more
        <3> QED
            BY <1>1, <2>2, <3>1 DEF more
    <2>3. CASE more # 0 /\ Align = 2
        BY <1>1, <1>2, <1>3, <2>2, <2>3
    <2>4. CASE more # 0 /\ Align = 3
        BY <1>1, <1>2, <1>3, <2>2, <2>4
    <2>5. CASE more # 0 /\ Align = 4
        BY <1>1, <1>2, <1>3, <2>2, <2>5
    <2>6. Align = 1 => more = 0
        BY <1>3
    <2> QED
        BY <1>1, <2>1, <2>3, <2>4, <2>5, <2>6
<1>5. (n - 1 + more) % BufferSize = n - 1 + more
    <2>1. n - 1 + more \in 0 .. BufferSize - 1 /\ BufferSize * 0 + (n - 1 + more) = n - 1 + more
        BY <1>1, <1>3, <1>4
    <2> QED
        BY <1>1, <2>1, Remainder
<1> QED
    BY <1>1, <1>3, <1>5 DEF Told, Extra, more

Reason ==
    \/ fault
    \/ opt.size > FlashSize
    \/ NoPages
    \/ opt.size % BufferSize = BufferSize - 1
    \/ opt.verify /\ ~(FilePages \subseteq PagesNamed)

(* Every block but the last is a full one.                                 *)
WholeBlocks == (stage = "load" /\ More) \/ InBlock => offset % BufferSize = 0

(* As long as nothing failed, and when the pages were erased, the flash    *)
(* has what was put there, verified or not, and is erased behind it.       *)
Clean == ~fault /\ FilePages \subseteq PagesNamed
Put == IF stage \in {"verify", "advance"} THEN offset + len ELSE offset
AsItShouldBe ==
    InLoop /\ Clean => \A i \in Fitting : flash[Start + i] = IF i < Put THEN i ELSE Erased

ReasonInv ==
    /\ WholeBlocks
    /\ AsItShouldBe
    /\ stage = "verify" => opt.verify
    /\ stage \in {"close", "gone"} /\ ret = 1 => Reason

(* None of these changes during a run.                                     *)
LEMMA SameOptions ==
    ASSUME UNCHANGED opt
    PROVE  /\ Fitting' = Fitting /\ Start' = Start /\ FlashSize' = FlashSize
           /\ FilePages' = FilePages /\ PagesNamed' = PagesNamed /\ NoPages' = NoPages
BY DEF Fitting, Start, FlashSize, FilePages, PagesNamed, FirstPage, MassErase, NoPages

(* A step that ends with an error ends with a reason.                      *)
LEMMA EndsForAReason ==
    ASSUME FlashInv, ReasonInv, UNCHANGED opt, stage' \in {"close", "gone", "spin"},
           ret' = 1 /\ stage' # "spin" => Reason'
    PROVE  ReasonInv'
BY DEF ReasonInv, WholeBlocks, AsItShouldBe, InLoop, InBlock

LEMMA FaultIsReason ==
    ASSUME FlashInv, ReasonInv, UNCHANGED opt, LineFault \/ (fault' = TRUE /\ Failure)
    PROVE  ReasonInv'
<1>1. stage' \in {"close", "gone"} /\ fault'
    BY DEF LineFault, Failure, Abort
<1> QED
    BY <1>1, EndsForAReason DEF Reason

(* The page of a byte of the file that fits was erased.                    *)
LEMMA EraseReason == ASSUME FlashInv, ReasonInv, erase PROVE ReasonInv'
<1>1. /\ stage' = "load" /\ offset' = 0
      /\ UNCHANGED <<opt, ret, fault>>
      /\ flash' = [i \in DOMAIN flash |-> IF i \div PageSize \in PagesNamed THEN Erased ELSE flash[i]]
    BY DEF FlashInv, Position, erase
<1>2. WholeBlocks'
    <2>1. BufferSize \in Nat \ {0} /\ BufferSize * 0 = 0
        BY OptionTypes DEF FlashInv
    <2>2. 0 % BufferSize = 0
        BY <2>1, Multiple
    <2> QED
        BY <1>1, <2>2 DEF WholeBlocks
<1>3. ASSUME Clean', NEW i \in Fitting PROVE flash'[Start + i] = IF i < 0 THEN i ELSE Erased
    <2>1. (Start + i) \div PageSize \in PagesNamed
        BY <1>1, <1>3, SameOptions DEF Clean, FilePages
    <2>2. Start \in Nat /\ i \in Nat /\ FlashSize \in Nat /\ Start + i < FlashSize
        BY OptionTypes DEF FlashInv
    <2>3. Start + i \in 0 .. FlashSize - 1 /\ ~(i < 0)
        BY <2>2
    <2>4. flash \in [0 .. FlashSize - 1 -> Cell]
        BY DEF FlashInv, TypeOK
    <2> QED
        BY <1>1, <2>1, <2>3, <2>4
<1>4. AsItShouldBe'
    BY <1>1, <1>3, SameOptions DEF AsItShouldBe, Put
<1> QED
    BY <1>1, <1>2, <1>4 DEF ReasonInv

(* The block was erased before, and no cell of it failed.                  *)
LEMMA WriteReason == ASSUME FlashInv, ReasonInv, write PROVE ReasonInv'
<1>1. PICK weak \in Failing :
        /\ stage = "write" /\ stage' = AfterWrite /\ flash' = Programmed(weak)
        /\ fault' = (fault \/ weak # {})
        /\ UNCHANGED <<opt, addr, offset, len, failed, ret>>
    BY DEF write, block
<1>2. stage' \in {"verify", "advance"} /\ (stage' = "verify" => opt.verify) /\ InLoop /\ InBlock
    BY <1>1 DEF AfterWrite, InLoop, InBlock
<1>3. offset \in Nat /\ len \in Nat /\ addr = Start + offset /\ Start \in Nat /\ Fitting \subseteq Nat
    BY <1>2, BlockCells, OptionTypes DEF FlashInv
<1>4. WholeBlocks'
    BY <1>1, <1>2 DEF ReasonInv, WholeBlocks, InBlock
<1>5. ASSUME Clean', NEW i \in Fitting
      PROVE  flash'[Start + i] = IF i < offset + len THEN i ELSE Erased
    <2>1. Clean /\ weak = {}
        BY <1>1, <1>5, SameOptions DEF Clean
    <2>2. flash[Start + i] = IF i < offset THEN i ELSE Erased
        BY <1>1, <1>2, <2>1 DEF ReasonInv, AsItShouldBe, Put
    <2>3. Start + i \in 0 .. FlashSize - 1 /\ (Start + i \in Block <=> offset <= i /\ i < offset + len)
        BY <1>2, BlockCells
    <2>4. CASE Start + i \in Block
        <3>1. flash'[Start + i] = offset + (Start + i) - addr
            BY <1>1, <1>3, <2>1, <2>2, <2>3, <2>4, ProgrammedCells
        <3> QED
            BY <1>3, <2>3, <2>4, <3>1
    <2>5. CASE Start + i \notin Block
        <3>1. flash'[Start + i] = flash[Start + i]
            BY <1>1, <2>3, <2>5, ProgrammedCells
        <3> QED
            BY <1>3, <2>2, <2>3, <2>5, <3>1
    <2> QED
        BY <2>4, <2>5
<1>6. AsItShouldBe'
    BY <1>1, <1>2, <1>5, SameOptions DEF AsItShouldBe, Put
<1> QED
    BY <1>1, <1>2, <1>4, <1>6 DEF ReasonInv

(* The ROM refuses the last block only, and only of one length.            *)
LEMMA RefusedReason == ASSUME FlashInv, ReasonInv, writeRefused PROVE ReasonInv'
<1>1. /\ stage = "write" /\ Told(len) # len + Extra(len) /\ stage' = "close"
      /\ UNCHANGED <<opt, fault>> /\ InBlock
    BY DEF writeRefused, Failure, InBlock
<1>2. /\ addr \in Nat /\ offset \in Nat /\ len \in 1 .. BufferSize /\ addr % Align = 0
      /\ len = BufferSize \/ addr + len = FlashSize \/ offset + len = opt.size
      /\ offset % BufferSize = 0
    <2>1. More /\ len = NextLen /\ offset % BufferSize = 0
        BY <1>1 DEF FlashInv, Position, ReasonInv, WholeBlocks
    <2> QED
        BY <1>1, <2>1, BlockCells, NextBlock DEF FlashInv
<1>3. /\ BufferSize \in Nat \ {0} /\ Align \in Nat \ {0} /\ FlashSize \in Nat
      /\ PageSize \in Nat \ {0} /\ FlashPages \in Nat
    BY OptionTypes DEF FlashInv
<1>4. len % Align # 0 /\ len = BufferSize - 1
    BY <1>1, <1>2, PaddingFits
<1>5. addr + len # FlashSize
    <2>1. SUFFICES ASSUME addr + len = FlashSize PROVE len % Align = 0
        BY <1>4
    <2>2. FlashSize % Align = 0
        <3>1. PageSize % BufferSize = 0 /\ BufferSize % Align = 0
            BY FlashAssumption DEF FlashAssumption
        <3>2. FlashPages \in Int /\ PageSize \in Int
            BY <1>3
        <3>3. (FlashPages * PageSize) % Align = 0
            BY <1>3, <3>1, <3>2, MultipleOfMultiple
        <3> QED
            BY <3>3 DEF FlashSize
    <2>3. (-addr) % Align = 0
        <3>1. PICK q \in Int : addr = Align * q
            <4>1. addr \in Int /\ Align \in Nat \ {0} /\ addr % Align = 0
                BY <1>2, <1>3
            <4> QED
                BY <4>1, IsMultiple
        <3>2. -addr = Align * (-q) /\ -q \in Int
            BY <1>3, <3>1
        <3> QED
            BY <1>3, <3>2, Multiple
    <2>4. len = FlashSize + (-addr) /\ -addr \in Int /\ FlashSize \in Int
        BY <1>2, <1>3, <2>1
    <2>5. (FlashSize + (-addr)) % Align = 0
        <3> DEFINE minus == -addr
        <3>1. minus \in Int /\ minus % Align = 0
            BY <2>3, <2>4
        <3> HIDE DEF minus
        <3>2. (FlashSize + minus) % Align = 0
            BY <1>3, <2>2, <2>4, <3>1, SumOfMultiples
        <3> QED
            BY <3>2 DEF minus
    <2> QED
        BY <2>4, <2>5
<1>6. opt.size % BufferSize = BufferSize - 1
    <2>1. offset + len = opt.size
        BY <1>2, <1>3, <1>4, <1>5
    <2>2. PICK q \in Int : offset = BufferSize * q
        <3>1. offset \in Int /\ BufferSize \in Nat \ {0} /\ offset % BufferSize = 0
            BY <1>2, <1>3
        <3> QED
            BY <3>1, IsMultiple
    <2>3. opt.size = BufferSize * q + (BufferSize - 1) /\ BufferSize - 1 \in 0 .. BufferSize - 1
        BY <1>3, <1>4, <2>1, <2>2
    <2> QED
        BY <1>3, <2>3, Remainder
<1> QED
    BY <1>1, <1>6, EndsForAReason DEF Reason

(* What is read back differs for a reason.                                 *)
LEMMA DiffersReason == ASSUME FlashInv, ReasonInv, verifyDiffers PROVE ReasonInv'
<1>1. PICK noise \in BOOLEAN : stage = "verify" /\ ~Same(noise) /\ fault' = (fault \/ noise)
    BY DEF verifyDiffers
<1>2. UNCHANGED <<opt, flash, addr, offset, len>> /\ InLoop /\ InBlock /\ opt.verify
    BY <1>1 DEF verifyDiffers, InLoop, InBlock, ReasonInv
<1>3. ~Clean'
    <2>1. SUFFICES ASSUME ~fault', FilePages \subseteq PagesNamed PROVE FALSE
        BY <1>2, SameOptions DEF Clean
    <2>2. ~noise /\ Clean
        BY <1>1, <2>1 DEF Clean
    <2>3. PICK j \in Block : flash[j] # offset + j - addr
        BY <1>1, <2>2 DEF Same
    <2>4. /\ addr = Start + offset /\ offset \in Nat /\ len \in Nat /\ Start \in Nat /\ opt.size \in Nat
          /\ addr + len <= FlashSize /\ offset + len <= opt.size /\ FlashSize \in Nat
        BY <1>2, BlockCells, OptionTypes DEF FlashInv
    <2>5. j - Start \in Fitting /\ Start + (j - Start) = j /\ j - Start < offset + len
        BY <2>3, <2>4 DEF Block, Fitting
    <2>6. flash[j] = j - Start
        BY <1>1, <1>2, <2>2, <2>5 DEF ReasonInv, AsItShouldBe, Put
    <2> QED
        BY <2>3, <2>4, <2>6 DEF Block
<1>4. Reason'
    BY <1>2, <1>3, SameOptions DEF Reason, Clean
<1>5. CASE GiveUp
    <2>1. stage' = "close"
        BY <1>5 DEF verifyDiffers, Failure
    <2> QED
        BY <1>2, <1>4, <2>1, EndsForAReason
<1>6. CASE ~GiveUp
    <2>1. stage' = "write"
        BY <1>6 DEF verifyDiffers
    <2>2. WholeBlocks'
        BY <1>2, <2>1 DEF ReasonInv, WholeBlocks, InBlock
    <2>3. AsItShouldBe'
        BY <1>3 DEF AsItShouldBe
    <2> QED
        BY <2>1, <2>2, <2>3 DEF ReasonInv
<1> QED
    BY <1>5, <1>6

LEMMA AdvanceReason == ASSUME FlashInv, ReasonInv, advance PROVE ReasonInv'
<1>1. /\ stage = "advance" /\ stage' = "load" /\ addr' = addr + len /\ offset' = offset + len
      /\ UNCHANGED <<opt, flash, ret, fault>> /\ InLoop /\ InBlock
    BY DEF advance, InLoop, InBlock
<1>2. /\ addr \in Nat /\ offset \in Nat /\ len \in 1 .. BufferSize /\ offset % BufferSize = 0
      /\ len = NextLen /\ More
    BY <1>1, BlockCells DEF FlashInv, Position, ReasonInv, WholeBlocks
<1>3. BufferSize \in Nat \ {0} /\ FlashSize \in Nat /\ opt.size \in Nat
    BY OptionTypes DEF FlashInv
<1>4. WholeBlocks'
    <2>1. SUFFICES ASSUME More' PROVE (offset + len) % BufferSize = 0
        BY <1>1 DEF WholeBlocks, InBlock
    <2>2. len = BufferSize \/ addr + len = FlashSize \/ offset + len = opt.size
        BY <1>2, NextBlock DEF FlashInv
    <2>3. len = BufferSize
        BY <1>1, <1>2, <1>3, <2>1, <2>2, SameOptions DEF More
    <2>4. BufferSize * 1 = BufferSize
        BY <1>3
    <2>5. BufferSize % BufferSize = 0
        BY <1>3, <2>4, Multiple
    <2>6. offset \in Int /\ BufferSize \in Int /\ BufferSize \in Nat \ {0} /\ offset % BufferSize = 0
        BY <1>2, <1>3
    <2>7. (offset + BufferSize) % BufferSize = 0
        BY <2>5, <2>6, SumOfMultiples
    <2> QED
        BY <2>3, <2>7
<1>5. AsItShouldBe'
    BY <1>1, SameOptions DEF ReasonInv, AsItShouldBe, Clean, Put
<1> QED
    BY <1>1, <1>4, <1>5 DEF ReasonInv

LEMMA NextReasonInv == FlashInv /\ ReasonInv /\ [Next]_vars => ReasonInv'
<1> SUFFICES ASSUME FlashInv, ReasonInv, [Next]_vars PROVE ReasonInv'
    OBVIOUS
<1>1. CASE check
    <2>1. UNCHANGED <<opt, fault>> /\ stage' = IF opt.size > FlashSize THEN "close" ELSE "erase"
        BY <1>1 DEF check
    <2>2. CASE opt.size > FlashSize
        BY <2>1, <2>2, SameOptions, EndsForAReason DEF Reason
    <2>3. CASE ~(opt.size > FlashSize)
        BY <2>1, <2>3 DEF ReasonInv, WholeBlocks, AsItShouldBe, InLoop, InBlock
    <2> QED
        BY <2>2, <2>3
<1>2. CASE eraseLoops
    BY <1>2, EndsForAReason DEF eraseLoops
<1>3. CASE eraseRefused
    <2>1. NoPages /\ stage' = "close" /\ UNCHANGED opt
        BY <1>3 DEF eraseRefused, Failure
    <2> QED
        BY <2>1, SameOptions, EndsForAReason DEF Reason
<1>4. CASE eraseFails \/ loadFails \/ writeFails \/ verifyFails
    <2>1. UNCHANGED opt /\ (LineFault \/ (fault' = TRUE /\ Failure))
        BY <1>4 DEF eraseFails, loadFails, writeFails, verifyFails, LineFault
    <2> QED
        BY <2>1, FaultIsReason
<1>5. CASE load
    <2>1. /\ stage = "load" /\ More /\ len' = NextLen /\ stage' \in {"write", "spin"}
          /\ UNCHANGED <<opt, flash, addr, offset, ret, fault>>
        BY <1>5 DEF load
    <2>2. WholeBlocks'
        BY <2>1 DEF ReasonInv, WholeBlocks
    <2>3. AsItShouldBe'
        BY <2>1, SameOptions DEF ReasonInv, AsItShouldBe, InLoop, Clean, Put
    <2> QED
        BY <2>1, <2>2, <2>3 DEF ReasonInv
<1>6. CASE done
    <2>1. stage' = "close" /\ ret' = 0 /\ UNCHANGED opt
        BY <1>6 DEF done
    <2> QED
        BY <2>1, EndsForAReason
<1>7. CASE verifySame
    <2>1. /\ stage = "verify" /\ stage' = "advance"
          /\ UNCHANGED <<opt, flash, addr, offset, len, ret, fault>>
        BY <1>7 DEF verifySame
    <2>2. WholeBlocks'
        BY <2>1 DEF ReasonInv, WholeBlocks, InBlock
    <2>3. AsItShouldBe'
        BY <2>1, SameOptions DEF ReasonInv, AsItShouldBe, InLoop, Clean, Put
    <2> QED
        BY <2>1, <2>2, <2>3 DEF ReasonInv
<1>8. CASE close
    <2>1. stage = "close" /\ stage' = "gone" /\ UNCHANGED <<opt, ret, fault>>
        BY <1>8 DEF close
    <2>2. ret = 1 => Reason'
        BY <2>1, SameOptions DEF ReasonInv, Reason
    <2> QED
        BY <2>1, <2>2, EndsForAReason
<1>9. CASE UNCHANGED vars
    <2>1. UNCHANGED <<opt, stage, flash, addr, offset, len, ret, fault>>
        BY <1>9 DEF vars
    <2> QED
        BY <2>1, SameOptions DEF ReasonInv, WholeBlocks, AsItShouldBe, Reason, InLoop, InBlock, Clean,
                                 Put, More
<1> QED
    BY <1>1, <1>2, <1>3, <1>4, <1>5, <1>6, <1>7, <1>8, <1>9, EraseReason, WriteReason, RefusedReason,
       DiffersReason, AdvanceReason DEF Next

(* stm32flash does not fail without one of the five reasons, whatever the  *)
(* sizes of file, page, block and flash: with -v, what is read back from   *)
(* pages that were erased is what was written unless something failed.     *)
THEOREM ErrorsHaveReasons == Spec => []FailsForAReason
<1>1. Init => ReasonInv
    BY DEF Init, ReasonInv, WholeBlocks, AsItShouldBe, InLoop, InBlock
<1>2. FlashInv /\ ReasonInv /\ [Next]_vars => ReasonInv'
    BY NextReasonInv
<1>3. ReasonInv => FailsForAReason
    BY DEF ReasonInv, Reason, FailsForAReason
<1> QED
    BY <1>1, <1>2, <1>3, LoopKeepsPlace, PTL DEF Spec

=============================================================================
