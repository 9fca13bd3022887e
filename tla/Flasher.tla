-------------------------------- MODULE Flasher --------------------------------
(***************************************************************************)
(* stm32flash -w: the tool that puts the firmware into the board.  From    *)
(* the moment the boot ROM of the chip has answered (stm32_init), main     *)
(* compares the size of the file with the flash, erases, and then takes    *)
(* the file block by block: read, write, and with -v read back and write   *)
(* again what differs.                                                     *)
(*                                                                         *)
(* The chip is part of the model: what its ROM does with a command, and    *)
(* that a cell of the flash takes a value only when it is erased.  The     *)
(* numbers are scaled: a block has BufferSize bytes and not 256, and its   *)
(* length is told in a byte with as many values; a page number is told in  *)
(* a byte with PageByte values and not 256.                                *)
(***************************************************************************)
EXTENDS Integers, FiniteSets

CONSTANTS
    FlashPages, PageSize,   \* the flash: fl_end - fl_start, and fl_ps
    BufferSize,             \* sizeof(buffer), and the values of a uint8_t length
    Align,                  \* a write has a multiple of that many bytes: 4
    PageByte,               \* the values of a uint8_t page number
    UltraLowPages,          \* 0xF8
    Retry,                  \* -n
    Sizes, Spages           \* bounds on the file and on -s

FlashAssumption ==
    /\ {FlashPages, PageSize, BufferSize, Align, PageByte} \subseteq Nat \ {0}
    /\ PageSize % BufferSize = 0 /\ BufferSize % Align = 0
    /\ Align <= 4
    /\ UltraLowPages \in 1 .. PageByte - 2
    /\ Retry \in Nat /\ Sizes \subseteq Nat /\ Spages \subseteq Nat

ASSUME FlashAssumption

FlashSize == FlashPages * PageSize
Mass == PageByte - 1        \* 0xFF pages stands for the whole flash

(* What a cell holds other than a byte of the file, which is given by its  *)
(* offset.                                                                 *)
Old == -1       \* what was there before the run
Erased == -2
Weak == -3      \* programming it went wrong; it may succeed another time
Clash == -4     \* programmed over something that was not erased
Cell == {Old, Erased, Weak, Clash} \union Nat

VARIABLES
    opt,        \* the options, the file and the kind of chip
    stage,      \* what main does next; "gone" when the process is
    flash,      \* the cells of the flash
    addr,       \* the next address to write, from the start of the flash
    offset,     \* how much of the file was written
    len,        \* the bytes in the buffer
    failed,     \* how often the block was written in vain
    ret,        \* what main will return
    device,     \* "rom", "reset", or "program" once it was started
    fault       \* history: a cell, the line, the ROM or a read failed

vars == <<opt, stage, flash, addr, offset, len, failed, ret, device, fault>>
block == <<addr, offset, len, failed>>

(* -e, -s, -v and -g; the size that stat told, or that the hex file has,   *)
(* and what the file still holds when it is read.  The kinds of chip are   *)
(* those that stm32_erase_memory tells apart.                              *)
Options ==
    {o \in [chip : {"regular", "extended", "ultralow"}, spage : Spages, npages : 0 .. Mass,
            verify : BOOLEAN, exec : BOOLEAN, size : Sizes, holds : Sizes] :
        o.holds <= o.size}

Start == opt.spage * PageSize

Init ==
    /\ opt \in Options
    /\ stage = "check"
    /\ flash = [i \in 0 .. FlashSize - 1 |-> Old]
    /\ addr = 0 /\ offset = 0 /\ len = 0 /\ failed = 0
    /\ ret = 1
    /\ device = "rom"
    /\ fault = FALSE

(* Faulty variants of the definitions below, with the mistake each makes.  *)
(* They are not part of the model: they show that a property can fail.     *)
AgainUncounted == failed' = failed                   \* a retry is not counted
ToldUnpadded(n) == ((n - 1) % BufferSize) + 1        \* the padding is not told
SameOneByte(noise) ==                                \* one equal byte is enough
    \E i \in addr .. addr + len - 1 : ~noise /\ flash[i] = offset + i - addr

-----------------------------------------------------------------------------
(* goto close with an error; an assertion fails when nothing comes.        *)
Failure == stage' = "close" /\ UNCHANGED ret
Abort == stage' = "gone" /\ UNCHANGED ret

(* The ROM refuses, or the answer gets lost.                               *)
LineFault == fault' = TRUE /\ (Failure \/ Abort) /\ UNCHANGED <<opt, device>>

check ==
    /\ stage = "check"
    /\ IF opt.size > FlashSize THEN stage' = "close" ELSE stage' = "erase"
    /\ UNCHANGED <<opt, flash, block, ret, device, fault>>

-----------------------------------------------------------------------------
(* stm32_erase_memory.  Its spage is a uint8_t.                            *)
FirstPage == opt.spage % PageByte

(* 0xFF pages are a mass erase, which the ultra low power chips lack.      *)
MassErase == opt.npages = Mass /\ opt.chip # "ultralow"

(* Extended erase names the pages from 0 on, and one more than asked; the  *)
(* regular erase those from spage on.                                      *)
PagesNamed ==
    CASE MassErase              -> 0 .. FlashPages - 1
      [] opt.chip = "regular"   -> FirstPage .. FirstPage + opt.npages - 1
      [] OTHER                  -> 0 .. (IF opt.npages = Mass THEN UltraLowPages ELSE opt.npages)

(* The page number, a uint8_t, never reaches the end of the loop.          *)
NumberWraps ==
    /\ opt.chip = "regular" /\ opt.npages # Mass
    /\ FirstPage + opt.npages >= PageByte

(* No pages: 0 - 1 in a byte tells the ROM that all are to be erased, and  *)
(* what follows is not the checksum of that.                               *)
NoPages == opt.chip = "regular" /\ opt.npages = 0

eraseLoops ==
    /\ stage = "erase"
    /\ NumberWraps
    /\ stage' = "spin"
    /\ UNCHANGED <<opt, flash, block, ret, device, fault>>

eraseRefused ==
    /\ stage = "erase"
    /\ NoPages
    /\ Failure
    /\ UNCHANGED <<opt, flash, block, device, fault>>

erase ==
    /\ stage = "erase"
    /\ ~NumberWraps /\ ~NoPages
    /\ flash' = [i \in DOMAIN flash |-> IF i \div PageSize \in PagesNamed THEN Erased ELSE flash[i]]
    /\ stage' = "load"
    /\ addr' = Start
    /\ UNCHANGED <<opt, offset, len, failed, ret, device, fault>>

eraseFails ==
    /\ stage = "erase"
    /\ ~NumberWraps
    /\ LineFault
    /\ UNCHANGED <<flash, block>>

-----------------------------------------------------------------------------
(* The head of the loop, and the parser's read.                            *)
Smaller(a, b) == IF a < b THEN a ELSE b
NextLen == Smaller(Smaller(BufferSize, FlashSize - addr), opt.size - offset)
More == addr < FlashSize /\ offset < opt.size

load ==
    /\ stage = "load"
    /\ More
    /\ len' = NextLen
    \* binary_read asks again for ever when the file ends before its size
    /\ stage' = IF offset + NextLen <= opt.holds THEN "write" ELSE "spin"
    /\ UNCHANGED <<opt, flash, addr, offset, failed, ret, device, fault>>

loadFails ==
    /\ stage = "load"
    /\ More
    /\ fault' = TRUE
    /\ Failure
    /\ UNCHANGED <<opt, flash, block, device>>

done ==
    /\ stage = "load"
    /\ ~More
    /\ ret' = 0
    /\ stage' = "close"
    /\ UNCHANGED <<opt, flash, block, device, fault>>

-----------------------------------------------------------------------------
(* stm32_write_memory: len % 4 more bytes follow the data, and the length  *)
(* that is told is a byte.                                                 *)
Extra(n) == n % Align
Told(n) == ((n - 1 + Extra(n)) % BufferSize) + 1

Block == addr .. addr + len - 1

(* What programming the block may leave: a cell that is not erased is not  *)
(* what it should be after it, and one that is may fail.                   *)
Programmed(weak) ==
    [i \in DOMAIN flash |->
        LET byte == offset + i - addr
        IN IF i \notin Block \/ flash[i] = byte THEN flash[i]
           ELSE IF flash[i] \notin {Erased, Weak} THEN Clash
           ELSE IF i \in weak THEN Weak ELSE byte]

(* The cells that may fail: one at either end of the block, or none.       *)
Failing == {{}, {addr}, {addr + len - 1}}

AfterWrite == IF opt.verify THEN "verify" ELSE "advance"

write ==
    /\ stage = "write"
    /\ Told(len) = len + Extra(len)
    /\ \E weak \in Failing :
        /\ flash' = Programmed(weak)
        /\ fault' = (fault \/ weak # {})
    /\ stage' = AfterWrite
    /\ UNCHANGED <<opt, block, ret, device>>

(* The ROM takes the byte behind the ones it was told of for the checksum. *)
writeRefused ==
    /\ stage = "write"
    /\ Told(len) # len + Extra(len)
    /\ Failure
    /\ UNCHANGED <<opt, flash, block, device, fault>>

writeFails ==
    /\ stage = "write"
    /\ LineFault
    /\ flash' \in {flash, Programmed({})}
    /\ UNCHANGED block

-----------------------------------------------------------------------------
(* Verification.  The line may spoil what is read back.                    *)
Same(noise) == ~noise /\ \A i \in Block : flash[i] = offset + i - addr

GiveUp == failed = Retry
Again == failed' = failed + 1

verifySame ==
    /\ stage = "verify"
    /\ Same(FALSE)
    /\ failed' = 0
    /\ stage' = "advance"
    /\ UNCHANGED <<opt, flash, addr, offset, len, ret, device, fault>>

verifyDiffers ==
    /\ stage = "verify"
    /\ \E noise \in BOOLEAN :
        /\ ~Same(noise)
        /\ fault' = (fault \/ noise)
    /\ IF GiveUp
       THEN Failure /\ UNCHANGED failed
       ELSE Again /\ stage' = "write" /\ UNCHANGED ret
    /\ UNCHANGED <<opt, flash, addr, offset, len, device>>

verifyFails ==
    /\ stage = "verify"
    /\ LineFault
    /\ UNCHANGED <<flash, block>>

advance ==
    /\ stage = "advance"
    /\ addr' = addr + len
    /\ offset' = offset + len
    /\ stage' = "load"
    /\ UNCHANGED <<opt, flash, len, failed, ret, device, fault>>

(* close: start the program if that was asked and all went well, else let  *)
(* a little program that is put into the RAM reset the chip.               *)
close ==
    /\ stage = "close"
    /\ stage' = "gone"
    /\ device' \in {"rom", "reset"} \union (IF opt.exec /\ ret = 0 THEN {"program"} ELSE {})
    /\ UNCHANGED <<opt, flash, block, ret, fault>>

Next ==
    \/ check
    \/ eraseLoops \/ eraseRefused \/ erase \/ eraseFails
    \/ load \/ loadFails \/ done
    \/ write \/ writeRefused \/ writeFails
    \/ verifySame \/ verifyDiffers \/ verifyFails
    \/ advance \/ close

(* The process is not stopped from outside.                                *)
Spec == Init /\ [][Next]_vars /\ WF_vars(Next)

-----------------------------------------------------------------------------
TypeOK ==
    /\ opt \in Options
    /\ stage \in {"check", "erase", "spin", "load", "write", "verify", "advance", "close", "gone"}
    /\ flash \in [0 .. FlashSize - 1 -> Cell]
    /\ addr \in Nat /\ (stage \in {"write", "verify"} => addr % Align = 0)
    /\ offset \in Nat /\ len \in 0 .. BufferSize
    /\ failed \in 0 .. Retry
    /\ ret \in {0, 1}
    /\ device \in {"rom", "reset", "program"}
    /\ fault \in BOOLEAN

(* The bytes of the file that have a place in the flash, and the pages     *)
(* they are put in.                                                        *)
Fitting == {i \in 0 .. opt.size - 1 : Start + i < FlashSize}
FilePages == {(Start + i) \div PageSize : i \in Fitting}

(* main.c:265: "Done." and 0 mean that the file is in the flash, as far as *)
(* it fits behind its first page: with -v always, and without it when no   *)
(* cell failed and the pages were erased before.                           *)
DoneMeansProgrammed ==
    stage = "gone" /\ ret = 0 /\ (opt.verify \/ (~fault /\ FilePages \subseteq PagesNamed))
        => \A i \in Fitting : flash[Start + i] = i

(* An error has a reason: something failed on the way; the file is larger  *)
(* than the flash; -e 0 on a chip with regular erase; the last block has   *)
(* the one length whose padding does not fit into a byte; or -v met a page *)
(* that -e and -s did not have erased.                                     *)
FailsForAReason ==
    stage = "gone" /\ ret = 1 =>
        \/ fault
        \/ opt.size > FlashSize
        \/ NoPages
        \/ opt.size % BufferSize = BufferSize - 1
        \/ opt.verify /\ ~(FilePages \subseteq PagesNamed)

(* The run comes to an end, however often a block has to be written again, *)
(* if the file is not cut short under way and the page numbers of a        *)
(* regular erase stay below 0xFF.                                          *)
Ends ==
    opt.holds = opt.size /\ ~NumberWraps => <>(stage = "gone")

=============================================================================
