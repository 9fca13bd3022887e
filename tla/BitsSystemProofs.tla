--------------------------- MODULE BitsSystemProofs ---------------------------
(***************************************************************************)
(* The way of a report of a key from the button to the daemon, for every   *)
(* number of presses, sizes of the queues of the board and behaviour of    *)
(* the lines and the network: the presses arrive in their order, and a     *)
(* report that no echo came into the middle of is understood.  Then the    *)
(* way of an order back: when nothing is under way, the board and the      *)
(* server hold the same to be switched on.                                 *)
(***************************************************************************)
EXTENDS BitsSystem, TLAPS, FiniteSetTheorems, SequenceTheorems, WellFoundedInduction

-----------------------------------------------------------------------------
(* Whatever is on a line is one of these; only the report of a key has a   *)
(* number.                                                                 *)
AnyPiece == Pieces(Nat \ {0})
Unnumbered(wire) == \A i \in DOMAIN wire : wire[i][2] = 0
Numbers(wire) == {wire[i][2] : i \in DOMAIN wire} \ {0}

Types ==
    /\ toBoard \in Seq(AnyPiece) /\ fromBoard \in Seq(AnyPiece)
    /\ rxQueue \in Seq(AnyPiece) /\ line \in Seq(AnyPiece)
    /\ presses \in Nat
    /\ keyPressed \in Seq(Nat \ {0})
    /\ key \in Nat
    /\ decoded \in Seq(Nat \ {0})
    /\ unread \subseteq Nat \ {0} /\ hit \subseteq Nat \ {0}

(* Only the board puts numbers on the line.                                *)
CommandsUnnumbered == Unnumbered(toBoard) /\ Unnumbered(rxQueue) /\ Unnumbered(line)

(* What is left of a printf is the rest of a report.                       *)
OutputIsReport ==
    \/ output = <<>> \/ output = <<Newline>>
    \/ \E piece \in AnyPiece : output = <<piece, Newline>> \/ output = <<Newline, piece, Newline>>

(* Where the number of a press may be, from the daemon back to the button; *)
(* the last stage is that of the presses to come.                          *)
Stage ==
    <<ToSet(decoded), Numbers(fromBoard), Numbers(output), {key} \ {0}, ToSet(keyPressed),
      {n \in Nat : n > presses}>>

(* A press that is further on was made before one that is not as far, ...  *)
EarlierAhead(stage) ==
    \A i, j \in 1 .. 6 : i < j => \A m \in stage[i], n \in stage[j] : m < n

(* ... and so it is within a stage.                                        *)
Rising(presses_) == \A i, j \in DOMAIN presses_ : i < j => presses_[i] < presses_[j]
RisingOn(wire) ==
    \A i, j \in DOMAIN wire : i < j /\ wire[i][2] # 0 /\ wire[j][2] # 0 => wire[i][2] < wire[j][2]

InOrder == EarlierAhead(Stage) /\ Rising(decoded) /\ Rising(keyPressed) /\ RisingOn(fromBoard)

(* The report of a key begins a line, or is about to, unless an echo came  *)
(* in between.                                                             *)
BeginsLine(i) == i = 1 \/ fromBoard[i - 1] = Newline

ReportsBeginLines ==
    /\ \A i \in DOMAIN fromBoard : fromBoard[i][2] \notin hit \union {0} => BeginsLine(i)
    /\ output # <<>> /\ output[1][2] \notin hit \union {0} => BeginsLine(Len(fromBoard) + 1)

IInv ==
    /\ Types /\ CommandsUnnumbered /\ OutputIsReport
    /\ InOrder
    /\ ReportsBeginLines /\ ReportsUnderstood

-----------------------------------------------------------------------------
(* A non empty set of numbers up to L has a least element: among the sets  *)
(* {n \in S : n < m}, m \in S, one is minimal for strict inclusion.        *)
LEMMA LeastExists ==
    ASSUME NEW L \in Nat, NEW S \in SUBSET (0 .. L), S # {}
    PROVE  \E m \in S : \A n \in S : m <= n
<1> DEFINE Below(m) == {n \in S : n < m}
           F == {Below(m) : m \in S}
<1>1. IsFiniteSet(S) /\ S \subseteq Nat
    <2>1. IsFiniteSet(0 .. L)
        BY FS_Interval
    <2>2. IsFiniteSet(S)
        BY <2>1, FS_Subset
    <2> QED
        BY <2>2
<1>2. F \subseteq FiniteSubsetsOf(S)
    BY <1>1, FS_Subset DEF FiniteSubsetsOf
<1>3. PICK A \in F : \A B \in F : ~(<<B, A>> \in StrictSubsetOrdering(S))
    <2>1. F # {} /\ IsWellFoundedOn(StrictSubsetOrdering(S), FiniteSubsetsOf(S))
        BY FS_StrictSubsetOrderingWellFounded
    <2> HIDE DEF F
    <2> QED
        BY <1>2, <2>1, WFMin
<1>4. PICK m \in S : A = Below(m)
    OBVIOUS
<1>5. \A n \in S : m <= n
    <2>1. SUFFICES ASSUME NEW n \in S, n < m PROVE FALSE
        BY <1>1
    <2>2. (\A x \in S : x < n => x < m) /\ ~(n < n)
        BY <1>1, <2>1
    <2>3. Below(n) \subseteq A /\ n \in A /\ n \notin Below(n)
        BY <1>4, <2>1, <2>2, Zenon
    <2>4. <<Below(n), A>> \in StrictSubsetOrdering(S)
        BY <1>4, <2>3 DEF StrictSubsetOrdering
    <2> QED
        BY <1>3, <2>4
<1> QED
    BY <1>5

(* Pieces of text and sequences of them.                                   *)
LEMMA PieceIs ==
    /\ Newline \in AnyPiece /\ Newline[2] = 0
    /\ Temperature \in AnyPiece /\ Temperature[2] = 0
    /\ \A s : Text(CommandFor(s)) \in AnyPiece /\ Text(CommandFor(s))[2] = 0
    /\ \A n \in Nat \ {0} : Key(n) \in AnyPiece /\ Key(n)[2] = n
    /\ \A piece \in AnyPiece : piece[2] \in Nat /\ (piece[2] # 0 => piece = Key(piece[2]))
    /\ \A piece \in AnyPiece : piece[2] # 0 <=> piece[1] \in {"A", "C"}
BY DEF AnyPiece, Pieces, Newline, Temperature, Text, Key, CommandFor

LEMMA AppendWire ==
    ASSUME NEW T, NEW s \in Seq(T), NEW x \in T
    PROVE  /\ Append(s, x) \in Seq(T)
           /\ DOMAIN Append(s, x) = 1 .. Len(s) + 1
           /\ Len(Append(s, x)) = Len(s) + 1
           /\ DOMAIN s = 1 .. Len(s) /\ Len(s) \in Nat
           /\ Append(s, x)[Len(s) + 1] = x
           /\ \A i \in DOMAIN s : i \in DOMAIN Append(s, x) /\ Append(s, x)[i] = s[i]
           /\ \A i \in DOMAIN Append(s, x) : i \in DOMAIN s \/ i = Len(s) + 1
           /\ Append(s, x) # <<>>
OBVIOUS

(* What is left when n pieces have been taken from the front.              *)
LEMMA DropWire ==
    ASSUME NEW T, NEW s \in Seq(T), NEW n \in 1 .. Len(s), NEW rest,
           rest = SubSeq(s, n + 1, Len(s))
    PROVE  /\ rest \in Seq(T)
           /\ Len(rest) = Len(s) - n /\ Len(rest) \in Nat
           /\ DOMAIN rest = 1 .. Len(rest)
           /\ \A i \in DOMAIN rest : i + n \in DOMAIN s /\ i \in Nat /\ i >= 1 /\ rest[i] = s[i + n]
OBVIOUS

LEMMA TailWire ==
    ASSUME NEW T, NEW s \in Seq(T), s # <<>>
    PROVE  /\ Tail(s) = SubSeq(s, 1 + 1, Len(s)) /\ 1 \in 1 .. Len(s) /\ 1 \in DOMAIN s
           /\ Head(s) = s[1] /\ Head(s) \in T
OBVIOUS

LEMMA ConcatWire ==
    ASSUME NEW T, NEW s \in Seq(T), NEW u \in Seq(T)
    PROVE  /\ s \o u \in Seq(T) /\ DOMAIN (s \o u) = 1 .. Len(s) + Len(u)
           /\ Len(s \o u) = Len(s) + Len(u)
           /\ \A i \in 1 .. Len(s) + Len(u) :
                (s \o u)[i] = IF i <= Len(s) THEN s[i] ELSE u[i - Len(s)]
OBVIOUS

LEMMA WireIs ==
    ASSUME NEW T, NEW s \in Seq(T)
    PROVE  /\ DOMAIN s = 1 .. Len(s) /\ Len(s) \in Nat
           /\ \A i \in DOMAIN s : s[i] \in T /\ i \in Nat /\ i >= 1
           /\ ToSet(s) = {s[i] : i \in DOMAIN s} /\ ToSet(s) \subseteq T
BY DEF ToSet

-----------------------------------------------------------------------------
(* A press that moves to the next stage, first in its own, keeps the order *)
(* if others only disappear.                                               *)
LEMMA StageMoves ==
    ASSUME NEW a \in [1 .. 6 -> SUBSET Nat], NEW b, EarlierAhead(a),
           NEW k \in 1 .. 5, NEW x \in a[k + 1],
           \A i \in 1 .. 6 : i # k => b[i] \subseteq a[i],
           b[k] \subseteq a[k] \union {x},
           \A y \in b[k + 1] : x < y
    PROVE  EarlierAhead(b)
<1> SUFFICES ASSUME NEW i \in 1 .. 6, NEW j \in 1 .. 6, i < j, NEW m \in b[i], NEW n \in b[j]
             PROVE  m < n
    BY DEF EarlierAhead
<1>1. CASE m \in a[i] /\ n \in a[j]
    BY <1>1 DEF EarlierAhead
<1>2. CASE i = k /\ m = x
    <2>1. CASE j = k + 1
        BY <1>2, <2>1
    <2>2. CASE j # k + 1
        <3>1. k + 1 \in 1 .. 6 /\ k + 1 < j /\ n \in a[j]
            BY <1>2, <2>2
        <3> QED
            BY <1>2, <3>1 DEF EarlierAhead
    <2> QED
        BY <2>1, <2>2
<1>3. CASE j = k /\ n = x
    <2>1. k + 1 \in 1 .. 6 /\ i < k + 1 /\ m \in a[i]
        BY <1>3
    <2> QED
        BY <1>3, <2>1 DEF EarlierAhead
<1> QED
    BY <1>1, <1>2, <1>3

LEMMA StagesShrink ==
    ASSUME NEW a, NEW b, EarlierAhead(a), \A i \in 1 .. 6 : b[i] \subseteq a[i]
    PROVE  EarlierAhead(b)
BY DEF EarlierAhead

LEMMA OutputTyped ==
    ASSUME OutputIsReport
    PROVE  output \in Seq(AnyPiece) /\ Len(output) <= 3
<1>1. Newline \in AnyPiece
    BY PieceIs
<1>2. CASE output = <<>>
    BY <1>2
<1>3. CASE output = <<Newline>>
    BY <1>1, <1>3
<1>4. ASSUME NEW piece \in AnyPiece, output = <<piece, Newline>> PROVE output \in Seq(AnyPiece) /\ Len(output) <= 3
    BY <1>1, <1>4
<1>5. ASSUME NEW piece \in AnyPiece, output = <<Newline, piece, Newline>>
      PROVE  output \in Seq(AnyPiece) /\ Len(output) <= 3
    BY <1>1, <1>5
<1> QED
    BY <1>2, <1>3, <1>4, <1>5 DEF OutputIsReport

LEMMA StageTypes == ASSUME Types, OutputIsReport PROVE Stage \in [1 .. 6 -> SUBSET Nat]
<1>1. ToSet(decoded) \subseteq Nat /\ ToSet(keyPressed) \subseteq Nat
    BY WireIs DEF Types
<1>2. Numbers(fromBoard) \subseteq Nat /\ Numbers(output) \subseteq Nat
    BY WireIs, PieceIs, OutputTyped DEF Types, Numbers
<1> QED
    BY <1>1, <1>2 DEF Stage, Types

-----------------------------------------------------------------------------
(* Steps that only carry commands.                                         *)
reportState == <<fromBoard, presses, keyPressed, key, output, decoded, unread, hit>>

LEMMA CommandStep ==
    ASSUME IInv, UNCHANGED reportState,
           toBoard' \in Seq(AnyPiece), rxQueue' \in Seq(AnyPiece), line' \in Seq(AnyPiece),
           Unnumbered(toBoard'), Unnumbered(rxQueue'), Unnumbered(line')
    PROVE  IInv'
<1>1. Types' /\ CommandsUnnumbered' /\ OutputIsReport'
    BY DEF IInv, Types, CommandsUnnumbered, OutputIsReport, reportState
<1>2. Stage' = Stage
    BY DEF Stage, reportState, Numbers
<1>3. InOrder'
    BY <1>2 DEF IInv, InOrder, reportState
<1>4. ReportsBeginLines' /\ ReportsUnderstood'
    BY DEF IInv, ReportsBeginLines, ReportsUnderstood, BeginsLine, reportState
<1> QED
    BY <1>1, <1>3, <1>4 DEF IInv

(* A command has no number, wherever it goes.                              *)
LEMMA CommandSent ==
    ASSUME NEW wire \in Seq(AnyPiece), Unnumbered(wire), NEW s
    PROVE  /\ wire \o <<Text(CommandFor(s)), Newline>> \in Seq(AnyPiece)
           /\ Unnumbered(wire \o <<Text(CommandFor(s)), Newline>>)
<1> DEFINE command == <<Text(CommandFor(s)), Newline>>
           sent == wire \o command
<1>1. command \in Seq(AnyPiece) /\ Len(command) = 2 /\ Unnumbered(command)
    BY PieceIs DEF Unnumbered
<1> HIDE DEF command
<1>2. /\ sent \in Seq(AnyPiece) /\ DOMAIN sent = 1 .. Len(wire) + 2 /\ Len(wire) \in Nat
      /\ DOMAIN wire = 1 .. Len(wire) /\ DOMAIN command = 1 .. 2
      /\ \A i \in DOMAIN sent : sent[i] = IF i <= Len(wire) THEN wire[i] ELSE command[i - Len(wire)]
    <2>1. DOMAIN wire = 1 .. Len(wire) /\ Len(wire) \in Nat /\ DOMAIN command = 1 .. 2
        BY <1>1
    <2>2. /\ sent \in Seq(AnyPiece) /\ DOMAIN sent = 1 .. Len(wire) + Len(command)
          /\ \A i \in 1 .. Len(wire) + Len(command) :
                sent[i] = IF i <= Len(wire) THEN wire[i] ELSE command[i - Len(wire)]
        BY <1>1, ConcatWire
    <2> HIDE DEF sent
    <2> QED
        BY <1>1, <2>1, <2>2
<1> HIDE DEF sent
<1>3. ASSUME NEW i \in DOMAIN sent PROVE sent[i][2] = 0
    <2>1. CASE i <= Len(wire)
        BY <1>2, <1>3, <2>1 DEF Unnumbered
    <2>2. CASE i > Len(wire)
        <3>1. i - Len(wire) \in DOMAIN command
            BY <1>2, <1>3, <2>2
        <3> QED
            BY <1>1, <1>2, <1>3, <2>2, <3>1 DEF Unnumbered
    <2> QED
        BY <1>2, <2>1, <2>2
<1>4. sent \in Seq(AnyPiece) /\ Unnumbered(sent)
    BY <1>2, <1>3 DEF Unnumbered
<1> QED
    BY <1>4 DEF sent, command

LEMMA UnnumberedAppend ==
    ASSUME NEW wire \in Seq(AnyPiece), Unnumbered(wire), NEW x \in AnyPiece, x[2] = 0
    PROVE  Append(wire, x) \in Seq(AnyPiece) /\ Unnumbered(Append(wire, x))
BY AppendWire DEF Unnumbered

LEMMA UnnumberedTail ==
    ASSUME NEW wire \in Seq(AnyPiece), Unnumbered(wire), wire # <<>>
    PROVE  /\ Tail(wire) \in Seq(AnyPiece) /\ Unnumbered(Tail(wire))
           /\ Head(wire) \in AnyPiece /\ Head(wire)[2] = 0
<1>1. Head(wire) \in AnyPiece /\ Head(wire)[2] = 0
    BY TailWire DEF Unnumbered
<1>2. Tail(wire) \in Seq(AnyPiece) /\ \A i \in DOMAIN Tail(wire) : i + 1 \in DOMAIN wire /\ Tail(wire)[i] = wire[i + 1]
    BY TailWire, DropWire
<1> QED
    BY <1>1, <1>2 DEF Unnumbered

LEMMA serialIrqImplStep == ASSUME IInv, serialIrqImpl, UNCHANGED daemonVars PROVE IInv'
<1>1. /\ UNCHANGED reportState /\ line' = line
      /\ toBoard # <<>> /\ toBoard' = Tail(toBoard)
      /\ rxQueue' = rxQueue \/ rxQueue' = Append(rxQueue, Head(toBoard))
    BY DEF serialIrqImpl, daemonVars, reportState, reportVars
<1>2. toBoard \in Seq(AnyPiece) /\ rxQueue \in Seq(AnyPiece) /\ line \in Seq(AnyPiece)
      /\ Unnumbered(toBoard) /\ Unnumbered(rxQueue) /\ Unnumbered(line)
    BY DEF IInv, Types, CommandsUnnumbered
<1>3. toBoard' \in Seq(AnyPiece) /\ Unnumbered(toBoard') /\ Head(toBoard) \in AnyPiece /\ Head(toBoard)[2] = 0
    BY <1>1, <1>2, UnnumberedTail
<1>4. rxQueue' \in Seq(AnyPiece) /\ Unnumbered(rxQueue')
    BY <1>1, <1>2, <1>3, UnnumberedAppend
<1>5. line' \in Seq(AnyPiece) /\ Unnumbered(line')
    BY <1>1, <1>2
<1> QED
    BY <1>1, <1>3, <1>4, <1>5, CommandStep

LEMMA obeyStep == ASSUME IInv, obey, UNCHANGED daemonVars PROVE IInv'
<1>1. UNCHANGED <<reportState, toBoard, rxQueue>> /\ line' = <<>>
    BY DEF obey, daemonVars, reportState, reportVars
<1>2. <<>> \in Seq(AnyPiece) /\ Unnumbered(<<>>)
    BY DEF Unnumbered
<1>3. /\ toBoard' \in Seq(AnyPiece) /\ rxQueue' \in Seq(AnyPiece) /\ line' \in Seq(AnyPiece)
      /\ Unnumbered(toBoard') /\ Unnumbered(rxQueue') /\ Unnumbered(line')
    BY <1>1, <1>2 DEF IInv, Types, CommandsUnnumbered
<1> QED
    BY <1>1, <1>3, CommandStep

LEMMA CommandsSame ==
    ASSUME IInv, UNCHANGED <<toBoard, rxQueue, line>>
    PROVE  /\ toBoard' \in Seq(AnyPiece) /\ rxQueue' \in Seq(AnyPiece) /\ line' \in Seq(AnyPiece)
           /\ Unnumbered(toBoard') /\ Unnumbered(rxQueue') /\ Unnumbered(line')
BY DEF IInv, Types, CommandsUnnumbered

(* The steps of the daemon, the server and the network that send nothing   *)
(* to the board and read nothing from it.                                  *)
LEMMA ElsewhereStep ==
    ASSUME IInv, UNCHANGED boardVars,
           connect \/ cannotConnect \/ serverUpdate \/ serverReceives \/ linkBreaks
    PROVE  IInv'
<1>1. UNCHANGED <<reportState, toBoard, rxQueue, line>>
    BY DEF connect, cannotConnect, serverUpdate, serverReceives, linkBreaks, boardVars, reportState, wires
<1> QED
    BY <1>1, CommandsSame, CommandStep

LEMMA SkipStep == ASSUME IInv, UNCHANGED vars PROVE IInv'
<1>1. UNCHANGED <<reportState, toBoard, rxQueue, line>>
    BY DEF vars, boardVars, daemonVars, wires, reportState
<1> QED
    BY <1>1, CommandsSame, CommandStep

LEMMA socketReadStep == ASSUME IInv, socketRead, UNCHANGED boardVars PROVE IInv'
<1>1. /\ UNCHANGED <<reportState, rxQueue, line>>
      /\ toBoard' = toBoard \o <<Text(CommandFor(Head(toDaemon))), Newline>>
    BY DEF socketRead, serialWrite, boardVars, reportState
<1>2. toBoard \in Seq(AnyPiece) /\ Unnumbered(toBoard)
    BY DEF IInv, Types, CommandsUnnumbered
<1>3. toBoard' \in Seq(AnyPiece) /\ Unnumbered(toBoard')
    BY <1>1, <1>2, CommandSent
<1>4. rxQueue' \in Seq(AnyPiece) /\ line' \in Seq(AnyPiece) /\ Unnumbered(rxQueue') /\ Unnumbered(line')
    BY <1>1 DEF IInv, Types, CommandsUnnumbered
<1> QED
    BY <1>1, <1>3, <1>4, CommandStep

-----------------------------------------------------------------------------
(* The report of a press, from the button to the line.                     *)
LEMMA StageSame ==
    ASSUME IInv
    PROVE  /\ Stage \in [1 .. 6 -> SUBSET Nat] /\ EarlierAhead(Stage)
           /\ \A n \in ToSet(decoded) \union Numbers(fromBoard) \union Numbers(output)
                       \union ({key} \ {0}) \union ToSet(keyPressed) : n \in 1 .. presses
<1>1. Stage \in [1 .. 6 -> SUBSET Nat] /\ EarlierAhead(Stage)
    BY StageTypes DEF IInv, InOrder
<1>2. presses + 1 \in Stage[6] /\ presses \in Nat
    BY DEF Stage, IInv, Types
<1>3. ASSUME NEW i \in 1 .. 5, NEW n \in Stage[i] PROVE n <= presses /\ n \in Nat
    <2>1. n < presses + 1 /\ n \in Nat
        BY <1>1, <1>2, <1>3 DEF EarlierAhead
    <2> QED
        BY <1>2, <2>1
<1>4. \A n \in ToSet(decoded) \union Numbers(fromBoard) \union Numbers(output)
                       \union ({key} \ {0}) \union ToSet(keyPressed) : n # 0 /\ \E i \in 1 .. 5 : n \in Stage[i]
    <2>1. ToSet(decoded) = Stage[1] /\ Numbers(fromBoard) = Stage[2] /\ Numbers(output) = Stage[3]
          /\ {key} \ {0} = Stage[4] /\ ToSet(keyPressed) = Stage[5]
        BY DEF Stage
    <2>2. 0 \notin ToSet(decoded) /\ 0 \notin ToSet(keyPressed) /\ 0 \notin Numbers(fromBoard) /\ 0 \notin Numbers(output)
        BY WireIs DEF IInv, Types, Numbers
    <2> QED
        BY <2>1, <2>2
<1> QED
    BY <1>1, <1>2, <1>3, <1>4

LEMMA keybThreadStep == ASSUME IInv, keybThread, UNCHANGED daemonVars PROVE IInv'
<1>1. /\ presses' = presses + 1 /\ presses \in Nat
      /\ keyPressed' = keyPressed \/ keyPressed' = Append(keyPressed, presses + 1)
      /\ UNCHANGED <<fromBoard, key, output, decoded, unread, hit, toBoard, rxQueue, line>>
    BY DEF keybThread, daemonVars, commandVars, IInv, Types
<1>2. keyPressed \in Seq(Nat \ {0}) /\ presses + 1 \in Nat \ {0} /\ Rising(keyPressed)
    BY <1>1 DEF IInv, Types, InOrder
<1>3. keyPressed' \in Seq(Nat \ {0}) /\ ToSet(keyPressed') \subseteq ToSet(keyPressed) \union {presses + 1}
    <2> DEFINE s == Append(keyPressed, presses + 1)
    <2>1. /\ s \in Seq(Nat \ {0}) /\ s[Len(keyPressed) + 1] = presses + 1
          /\ \A i \in DOMAIN keyPressed : s[i] = keyPressed[i]
          /\ \A i \in DOMAIN s : i \in DOMAIN keyPressed \/ i = Len(keyPressed) + 1
        BY <1>2, AppendWire
    <2>2. ToSet(s) = {s[i] : i \in DOMAIN s} /\ ToSet(keyPressed) = {keyPressed[i] : i \in DOMAIN keyPressed}
        BY DEF ToSet
    <2>3. keyPressed' = keyPressed \/ keyPressed' = s
        BY <1>1
    <2> HIDE DEF s
    <2>4. ToSet(s) \subseteq ToSet(keyPressed) \union {presses + 1}
        BY <2>1, <2>2
    <2> QED
        BY <1>2, <2>1, <2>3, <2>4
<1>4. Types'
    BY <1>1, <1>3 DEF IInv, Types
<1>5. CommandsUnnumbered' /\ OutputIsReport' /\ ReportsBeginLines' /\ ReportsUnderstood'
    BY <1>1 DEF IInv, CommandsUnnumbered, OutputIsReport, ReportsBeginLines, BeginsLine, ReportsUnderstood
<1>6. Rising(keyPressed')
    <2>1. CASE keyPressed' = keyPressed
        BY <1>2, <2>1
    <2>2. CASE keyPressed' = Append(keyPressed, presses + 1)
        <3>1. \A i \in DOMAIN keyPressed : keyPressed[i] \in 1 .. presses
            BY <1>2, StageSame, WireIs
        <3> QED
            BY <1>1, <1>2, <2>2, <3>1, AppendWire DEF Rising
    <2> QED
        BY <1>1, <2>1, <2>2
<1>7. EarlierAhead(Stage')
    <2> DEFINE a == Stage
               b == Stage'
    <2>1. a \in [1 .. 6 -> SUBSET Nat] /\ EarlierAhead(a)
        BY StageSame
    <2>2. presses + 1 \in a[5 + 1] /\ \A y \in b[5 + 1] : presses + 1 < y
        BY <1>1 DEF Stage
    <2>3. b[5] \subseteq a[5] \union {presses + 1}
        BY <1>3 DEF Stage
    <2>4. b[1] = a[1] /\ b[2] = a[2] /\ b[3] = a[3] /\ b[4] = a[4] /\ b[6] \subseteq a[6]
        BY <1>1 DEF Stage, Numbers
    <2> HIDE DEF a, b
    <2>5. \A i \in 1 .. 6 : i # 5 => b[i] \subseteq a[i]
        BY <2>4
    <2>6. EarlierAhead(b)
        BY <2>1, <2>2, <2>3, <2>5, StageMoves
    <2> QED
        BY <2>6 DEF b
<1> QED
    BY <1>1, <1>4, <1>5, <1>6, <1>7 DEF IInv, InOrder, Rising, RisingOn

LEMMA RisingTail ==
    ASSUME NEW s \in Seq(Nat \ {0}), s # <<>>, Rising(s)
    PROVE  /\ Tail(s) \in Seq(Nat \ {0}) /\ Rising(Tail(s))
           /\ Head(s) \in Nat \ {0} /\ Head(s) \in ToSet(s)
           /\ ToSet(Tail(s)) \subseteq ToSet(s)
           /\ \A n \in ToSet(Tail(s)) : Head(s) < n
<1>1. /\ Head(s) = s[1] /\ 1 \in DOMAIN s /\ Head(s) \in Nat \ {0}
      /\ Tail(s) \in Seq(Nat \ {0})
      /\ \A i \in DOMAIN Tail(s) : i + 1 \in DOMAIN s /\ i \in Nat /\ i >= 1 /\ Tail(s)[i] = s[i + 1]
    BY TailWire, DropWire
<1>2. ToSet(s) = {s[i] : i \in DOMAIN s} /\ ToSet(Tail(s)) = {Tail(s)[i] : i \in DOMAIN Tail(s)}
    BY <1>1, WireIs
<1>3. Rising(Tail(s))
    BY <1>1 DEF Rising
<1>4. \A n \in ToSet(Tail(s)) : n \in ToSet(s) /\ Head(s) < n
    BY <1>1, <1>2 DEF Rising
<1> QED
    BY <1>1, <1>2, <1>3, <1>4

LEMMA getKeyStep == ASSUME IInv, getKey, UNCHANGED daemonVars PROVE IInv'
<1>1. /\ key = 0 /\ keyPressed # <<>>
      /\ key' = Head(keyPressed) /\ keyPressed' = Tail(keyPressed)
      /\ UNCHANGED <<presses, fromBoard, output, decoded, unread, hit, toBoard, rxQueue, line>>
    BY DEF getKey, Taken, daemonVars, commandVars
<1>2. keyPressed \in Seq(Nat \ {0}) /\ Rising(keyPressed)
    BY DEF IInv, Types, InOrder
<1>3. /\ keyPressed' \in Seq(Nat \ {0}) /\ Rising(keyPressed')
      /\ key' \in Nat \ {0} /\ key' \in ToSet(keyPressed)
      /\ ToSet(keyPressed') \subseteq ToSet(keyPressed)
      /\ \A n \in ToSet(keyPressed') : key' < n
    BY <1>1, <1>2, RisingTail
<1>4. Types'
    BY <1>1, <1>3 DEF IInv, Types
<1>5. CommandsUnnumbered' /\ OutputIsReport' /\ ReportsBeginLines' /\ ReportsUnderstood'
    BY <1>1 DEF IInv, CommandsUnnumbered, OutputIsReport, ReportsBeginLines, BeginsLine, ReportsUnderstood
<1>6. EarlierAhead(Stage')
    <2> DEFINE a == Stage
               b == Stage'
               x == key'
    <2>1. a \in [1 .. 6 -> SUBSET Nat] /\ EarlierAhead(a)
        BY StageSame
    <2>2. x \in a[4 + 1] /\ \A y \in b[4 + 1] : x < y
        BY <1>3 DEF Stage
    <2>3. b[4] \subseteq a[4] \union {x}
        BY DEF Stage
    <2>4. b[1] = a[1] /\ b[2] = a[2] /\ b[3] = a[3] /\ b[5] \subseteq a[5] /\ b[6] = a[6]
        BY <1>1, <1>3 DEF Stage, Numbers
    <2> HIDE DEF a, b, x
    <2>5. \A i \in 1 .. 6 : i # 4 => b[i] \subseteq a[i]
        BY <2>4
    <2>6. EarlierAhead(b)
        BY <2>1, <2>2, <2>3, <2>5, StageMoves
    <2> QED
        BY <2>6 DEF b
<1> QED
    BY <1>1, <1>3, <1>4, <1>5, <1>6 DEF IInv, InOrder, Rising, RisingOn

LEMMA ReportNumbers ==
    ASSUME NEW piece \in AnyPiece
    PROVE  /\ Report(piece) = <<Newline, piece, Newline>>
           /\ Report(piece) # <<>> /\ Report(piece)[1][2] = 0
           /\ Numbers(Report(piece)) = {piece[2]} \ {0}
<1>1. Report(piece) = <<Newline, piece, Newline>> /\ Newline[2] = 0
    BY PieceIs DEF Report
<1>2. DOMAIN Report(piece) = {1, 2, 3}
    BY <1>1
<1> QED
    BY <1>1, <1>2 DEF Numbers

LEMMA printKeyStep == ASSUME IInv, printKey, UNCHANGED daemonVars PROVE IInv'
<1>1. /\ key # 0 /\ key \in Nat \ {0} /\ key' = 0
      /\ output = <<>> /\ output' = Report(Key(key))
      /\ UNCHANGED <<presses, fromBoard, keyPressed, decoded, unread, hit, toBoard, rxQueue, line>>
    BY DEF printKey, daemonVars, commandVars, IInv, Types
<1>2. Key(key) \in AnyPiece /\ Key(key)[2] = key
    BY <1>1, PieceIs
<1>3. /\ output' = <<Newline, Key(key), Newline>> /\ output' # <<>> /\ output'[1][2] = 0
      /\ Numbers(output') = {key}
    BY <1>1, <1>2, ReportNumbers
<1>4. Types' /\ CommandsUnnumbered' /\ ReportsUnderstood'
    BY <1>1 DEF IInv, Types, CommandsUnnumbered, ReportsUnderstood
<1>5. OutputIsReport'
    BY <1>2, <1>3 DEF OutputIsReport
<1>6. ReportsBeginLines'
    BY <1>1, <1>3 DEF IInv, ReportsBeginLines, BeginsLine
<1>7. EarlierAhead(Stage')
    <2> DEFINE a == Stage
               b == Stage'
    <2>1. a \in [1 .. 6 -> SUBSET Nat] /\ EarlierAhead(a)
        BY StageSame
    <2>2. key \in a[3 + 1] /\ \A y \in b[3 + 1] : key < y
        BY <1>1 DEF Stage
    <2>3. b[3] \subseteq a[3] \union {key}
        BY <1>3 DEF Stage
    <2>4. b[1] = a[1] /\ b[2] = a[2] /\ b[4] \subseteq a[4] /\ b[5] = a[5] /\ b[6] = a[6]
        BY <1>1 DEF Stage, Numbers
    <2> HIDE DEF a, b
    <2>5. \A i \in 1 .. 6 : i # 3 => b[i] \subseteq a[i]
        BY <2>4
    <2>6. EarlierAhead(b)
        BY <2>1, <2>2, <2>3, <2>5, StageMoves
    <2> QED
        BY <2>6 DEF b
<1> QED
    BY <1>1, <1>4, <1>5, <1>6, <1>7 DEF IInv, InOrder, Rising, RisingOn

LEMMA tempThreadStep == ASSUME IInv, tempThread, UNCHANGED daemonVars PROVE IInv'
<1>1. /\ output = <<>> /\ output' = Report(Temperature)
      /\ UNCHANGED <<presses, key, fromBoard, keyPressed, decoded, unread, hit, toBoard, rxQueue, line>>
    BY DEF tempThread, daemonVars, commandVars
<1>2. Temperature \in AnyPiece /\ Temperature[2] = 0
    BY PieceIs
<1>3. /\ output' = <<Newline, Temperature, Newline>> /\ output' # <<>> /\ output'[1][2] = 0
      /\ Numbers(output') = {}
    BY <1>1, <1>2, ReportNumbers
<1>4. Types' /\ CommandsUnnumbered' /\ ReportsUnderstood'
    BY <1>1 DEF IInv, Types, CommandsUnnumbered, ReportsUnderstood
<1>5. OutputIsReport'
    BY <1>2, <1>3 DEF OutputIsReport
<1>6. ReportsBeginLines'
    BY <1>1, <1>3 DEF IInv, ReportsBeginLines, BeginsLine
<1>7. EarlierAhead(Stage')
    <2> DEFINE a == Stage
               b == Stage'
    <2>1. EarlierAhead(a)
        BY StageSame
    <2>2. b[1] = a[1] /\ b[2] = a[2] /\ b[3] \subseteq a[3] /\ b[4] = a[4] /\ b[5] = a[5] /\ b[6] = a[6]
        BY <1>1, <1>3 DEF Stage, Numbers
    <2> HIDE DEF a, b
    <2>3. \A i \in 1 .. 6 : b[i] \subseteq a[i]
        BY <2>2
    <2>4. EarlierAhead(b)
        BY <2>1, <2>3, StagesShrink
    <2> QED
        BY <2>4 DEF b
<1> QED
    BY <1>1, <1>4, <1>5, <1>6, <1>7 DEF IInv, InOrder, Rising, RisingOn

-----------------------------------------------------------------------------
(* What is on the line.                                                    *)
LEMMA AppendNumbers ==
    ASSUME NEW wire \in Seq(AnyPiece), NEW x \in AnyPiece
    PROVE  Numbers(Append(wire, x)) \subseteq Numbers(wire) \union ({x[2]} \ {0})
<1> DEFINE s == Append(wire, x)
<1>1. /\ s[Len(wire) + 1] = x
      /\ \A i \in DOMAIN wire : s[i] = wire[i]
      /\ \A i \in DOMAIN s : i \in DOMAIN wire \/ i = Len(wire) + 1
    BY AppendWire
<1> HIDE DEF s
<1>2. Numbers(s) \subseteq Numbers(wire) \union ({x[2]} \ {0})
    BY <1>1 DEF Numbers
<1> QED
    BY <1>2 DEF s

LEMMA AppendRises ==
    ASSUME NEW wire \in Seq(AnyPiece), NEW x \in AnyPiece, RisingOn(wire),
           \A n \in Numbers(wire) : x[2] # 0 => n < x[2]
    PROVE  RisingOn(Append(wire, x))
<1> DEFINE s == Append(wire, x)
<1>1. /\ s[Len(wire) + 1] = x /\ Len(wire) \in Nat /\ DOMAIN wire = 1 .. Len(wire)
      /\ \A i \in DOMAIN wire : s[i] = wire[i]
      /\ \A i \in DOMAIN s : i \in DOMAIN wire \/ i = Len(wire) + 1
    BY AppendWire
<1> HIDE DEF s
<1>2. \A i \in DOMAIN wire : wire[i][2] # 0 => wire[i][2] \in Numbers(wire)
    BY DEF Numbers
<1>3. RisingOn(s)
    <2> SUFFICES ASSUME NEW i \in DOMAIN s, NEW j \in DOMAIN s, i < j, s[i][2] # 0, s[j][2] # 0
                 PROVE  s[i][2] < s[j][2]
        BY DEF RisingOn
    <2>1. i \in DOMAIN wire
        BY <1>1
    <2>2. CASE j \in DOMAIN wire
        BY <1>1, <2>1, <2>2 DEF RisingOn
    <2>3. CASE j = Len(wire) + 1
        BY <1>1, <1>2, <2>1, <2>3
    <2> QED
        BY <1>1, <2>2, <2>3
<1> QED
    BY <1>3 DEF s

(* What is taken from the front leaves the rest in order.                  *)
LEMMA RestRises ==
    ASSUME NEW wire \in Seq(AnyPiece), RisingOn(wire), NEW n \in 1 .. Len(wire), NEW rest,
           rest = SubSeq(wire, n + 1, Len(wire))
    PROVE  /\ rest \in Seq(AnyPiece) /\ RisingOn(rest)
           /\ Numbers(rest) \subseteq Numbers(wire)
           /\ \A i \in 1 .. n : wire[i][2] # 0 => \A m \in Numbers(rest) : wire[i][2] < m
<1>1. /\ rest \in Seq(AnyPiece) /\ DOMAIN wire = 1 .. Len(wire) /\ Len(wire) \in Nat
      /\ \A i \in DOMAIN rest : i + n \in DOMAIN wire /\ i \in Nat /\ i >= 1 /\ rest[i] = wire[i + n]
    BY DropWire
<1>2. RisingOn(rest)
    <2> SUFFICES ASSUME NEW i \in DOMAIN rest, NEW j \in DOMAIN rest, i < j, rest[i][2] # 0, rest[j][2] # 0
                 PROVE  rest[i][2] < rest[j][2]
        BY DEF RisingOn
    <2>1. i + n \in DOMAIN wire /\ j + n \in DOMAIN wire /\ i + n < j + n
          /\ rest[i] = wire[i + n] /\ rest[j] = wire[j + n]
        BY <1>1
    <2> QED
        BY <2>1 DEF RisingOn
<1>3. Numbers(rest) \subseteq Numbers(wire)
    BY <1>1 DEF Numbers
<1>4. ASSUME NEW i \in 1 .. n, wire[i][2] # 0, NEW m \in Numbers(rest) PROVE wire[i][2] < m
    <2>1. PICK j \in DOMAIN rest : m = rest[j][2] /\ m # 0
        BY DEF Numbers
    <2>2. j + n \in DOMAIN wire /\ i \in DOMAIN wire /\ i < j + n /\ m = wire[j + n][2]
        BY <1>1, <2>1
    <2> QED
        BY <1>4, <2>1, <2>2 DEF RisingOn
<1> QED
    BY <1>1, <1>2, <1>3, <1>4

(* Reports that begin a line still do in what is left.                     *)
LEMMA RestBegins ==
    ASSUME IInv, NEW n \in 1 .. Len(fromBoard),
           fromBoard' = SubSeq(fromBoard, n + 1, Len(fromBoard)),
           UNCHANGED <<hit, output>>
    PROVE  ReportsBeginLines'
<1>1. /\ fromBoard \in Seq(AnyPiece) /\ DOMAIN fromBoard = 1 .. Len(fromBoard) /\ Len(fromBoard) \in Nat
      /\ Len(fromBoard') = Len(fromBoard) - n /\ Len(fromBoard') \in Nat
      /\ DOMAIN fromBoard' = 1 .. Len(fromBoard')
      /\ \A i \in DOMAIN fromBoard' : i + n \in DOMAIN fromBoard /\ i \in Nat /\ i >= 1
                                      /\ fromBoard'[i] = fromBoard[i + n]
    BY DropWire DEF IInv, Types
<1>0. /\ n \in Nat /\ n >= 1 /\ n <= Len(fromBoard) /\ Len(fromBoard) \in Nat
      /\ Len(fromBoard') = Len(fromBoard) - n /\ Len(fromBoard') \in Nat
      /\ DOMAIN fromBoard' = 1 .. Len(fromBoard')
    <2>1. Len(fromBoard) \in Nat
        BY <1>1
    <2>2. n \in Nat /\ n >= 1 /\ n <= Len(fromBoard)
        BY <2>1
    <2> QED
        BY <1>1, <2>1, <2>2
<1>2. ASSUME NEW i \in 1 .. Len(fromBoard') + 1, BeginsLine(i + n) PROVE BeginsLine(i)'
    <2>1. CASE i = 1
        BY <2>1 DEF BeginsLine
    <2>2. CASE i # 1
        <3>1. i - 1 \in DOMAIN fromBoard' /\ (i - 1) + n = (i + n) - 1 /\ i + n # 1
            BY <1>0, <2>2
        <3>2. fromBoard[(i + n) - 1] = Newline
            BY <1>2, <3>1 DEF BeginsLine
        <3>3. fromBoard'[i - 1] = Newline
            BY <1>1, <3>1, <3>2
        <3> QED
            BY <3>3 DEF BeginsLine
    <2> QED
        BY <2>1, <2>2
<1>3. ASSUME NEW i \in DOMAIN fromBoard', fromBoard'[i][2] \notin hit \union {0} PROVE BeginsLine(i)'
    <2>1. BeginsLine(i + n)
        BY <1>1, <1>3 DEF IInv, ReportsBeginLines
    <2>2. i \in 1 .. Len(fromBoard') + 1
        BY <1>0
    <2> QED
        BY <1>2, <2>1, <2>2
<1>4. ASSUME output # <<>>, output[1][2] \notin hit \union {0} PROVE BeginsLine(Len(fromBoard) + 1)'
    <2>1. BeginsLine(Len(fromBoard) + 1)
        BY <1>4 DEF IInv, ReportsBeginLines
    <2>2. Len(fromBoard) + 1 = (Len(fromBoard') + 1) + n /\ Len(fromBoard') + 1 \in 1 .. Len(fromBoard') + 1
        BY <1>0
    <2> QED
        BY <1>2, <2>1, <2>2
<1> QED
    BY <1>3, <1>4 DEF ReportsBeginLines

(* What a write leaves of a report.                                        *)
LEMMA OutputRest ==
    ASSUME OutputIsReport, output # <<>>
    PROVE  /\ Head(output) \in AnyPiece /\ Head(output) = output[1]
           /\ \/ Tail(output) = <<>> \/ Tail(output) = <<Newline>>
              \/ \E piece \in AnyPiece : Tail(output) = <<piece, Newline>> /\ Head(output) = Newline
           /\ Head(output)[2] # 0 => Head(output)[2] \in Numbers(output) /\ Numbers(Tail(output)) = {}
           /\ Numbers(Tail(output)) \subseteq Numbers(output)
<1>1. Newline \in AnyPiece /\ Newline[2] = 0
    BY PieceIs
<1>2. CASE output = <<Newline>>
    <2>1. Head(output) = Newline /\ Tail(output) = <<>> /\ output[1] = Newline
        BY <1>2
    <2>2. Numbers(Tail(output)) = {}
        BY <2>1 DEF Numbers
    <2> QED
        BY <1>1, <2>1, <2>2
<1>3. ASSUME NEW piece \in AnyPiece, output = <<piece, Newline>>
      PROVE  /\ Head(output) = piece /\ Tail(output) = <<Newline>> /\ output[1] = piece
             /\ piece[2] # 0 => piece[2] \in Numbers(output)
             /\ Numbers(Tail(output)) = {}
    <2>1. Head(output) = piece /\ Tail(output) = <<Newline>> /\ output[1] = piece /\ 1 \in DOMAIN output
        BY <1>3
    <2>2. Numbers(Tail(output)) = {}
        <3> DEFINE s == <<Newline>>
        <3>1. s[1] = Newline /\ DOMAIN s = {1} /\ Tail(output) = s
            BY <2>1
        <3> HIDE DEF s
        <3> QED
            BY <1>1, <3>1 DEF Numbers
    <2>3. piece[2] # 0 => piece[2] \in Numbers(output)
        BY <2>1 DEF Numbers
    <2> QED
        BY <2>1, <2>2, <2>3
<1>4. ASSUME NEW piece \in AnyPiece, output = <<Newline, piece, Newline>>
      PROVE  /\ Head(output) = Newline /\ Tail(output) = <<piece, Newline>> /\ output[1] = Newline
             /\ Numbers(Tail(output)) \subseteq Numbers(output)
    <2>1. Head(output) = Newline /\ Tail(output) = <<piece, Newline>> /\ output[1] = Newline
        BY <1>4
    <2>2. DOMAIN Tail(output) = {1, 2} /\ DOMAIN output = {1, 2, 3}
          /\ Tail(output)[1] = output[2] /\ Tail(output)[2] = output[3]
        BY <1>4, <2>1
    <2>3. Numbers(Tail(output)) \subseteq Numbers(output)
        BY <2>2 DEF Numbers
    <2> QED
        BY <2>1, <2>3
<1> QED
    BY <1>1, <1>2, <1>3, <1>4 DEF OutputIsReport

LEMMA writeStep == ASSUME IInv, write, UNCHANGED daemonVars PROVE IInv'
<1> DEFINE x == Head(output)
<1>1. /\ output # <<>>
      /\ fromBoard' = Append(fromBoard, x) /\ output' = Tail(output)
      /\ UNCHANGED <<presses, key, keyPressed, decoded, unread, hit, toBoard, rxQueue, line>>
    BY DEF write, daemonVars, commandVars
<1>2. /\ x \in AnyPiece /\ x = output[1]
      /\ \/ output' = <<>> \/ output' = <<Newline>>
         \/ \E piece \in AnyPiece : output' = <<piece, Newline>> /\ x = Newline
      /\ x[2] # 0 => x[2] \in Numbers(output) /\ Numbers(output') = {}
      /\ Numbers(output') \subseteq Numbers(output)
    BY <1>1, OutputRest DEF IInv
<1> HIDE DEF x
<1>3. /\ fromBoard \in Seq(AnyPiece) /\ RisingOn(fromBoard)
      /\ x[2] \in Nat
    BY <1>2, PieceIs DEF IInv, Types, InOrder
<1>4. /\ fromBoard' \in Seq(AnyPiece)
      /\ Len(fromBoard') = Len(fromBoard) + 1 /\ Len(fromBoard) \in Nat
      /\ fromBoard'[Len(fromBoard) + 1] = x
      /\ DOMAIN fromBoard = 1 .. Len(fromBoard)
      /\ \A i \in DOMAIN fromBoard : fromBoard'[i] = fromBoard[i]
      /\ \A i \in DOMAIN fromBoard' : i \in DOMAIN fromBoard \/ i = Len(fromBoard) + 1
    BY <1>1, <1>2, <1>3, AppendWire
<1>5. Types' /\ CommandsUnnumbered' /\ ReportsUnderstood'
    BY <1>1, <1>4 DEF IInv, Types, CommandsUnnumbered, ReportsUnderstood
<1>6. OutputIsReport'
    BY <1>2 DEF OutputIsReport
<1>7. ASSUME NEW i \in 1 .. Len(fromBoard) + 1, BeginsLine(i) PROVE BeginsLine(i)'
    <2>1. CASE i = 1
        BY <2>1 DEF BeginsLine
    <2>2. CASE i # 1
        <3>1. i - 1 \in DOMAIN fromBoard
            BY <1>4, <2>2
        <3> QED
            BY <1>4, <1>7, <2>2, <3>1 DEF BeginsLine
    <2> QED
        BY <2>1, <2>2
<1>8. ReportsBeginLines'
    <2>1. ASSUME NEW i \in DOMAIN fromBoard', fromBoard'[i][2] \notin hit \union {0} PROVE BeginsLine(i)'
        <3>1. CASE i \in DOMAIN fromBoard
            <4>1. BeginsLine(i)
                BY <1>4, <2>1, <3>1 DEF IInv, ReportsBeginLines
            <4>2. i \in 1 .. Len(fromBoard) + 1
                BY <1>4, <3>1
            <4> QED
                BY <1>7, <4>1, <4>2
        <3>2. CASE i = Len(fromBoard) + 1
            <4>1. output[1][2] \notin hit \union {0}
                BY <1>2, <1>4, <2>1, <3>2
            <4>2. BeginsLine(Len(fromBoard) + 1)
                BY <1>1, <4>1 DEF IInv, ReportsBeginLines
            <4>3. i \in 1 .. Len(fromBoard) + 1
                BY <1>4, <3>2
            <4> QED
                BY <1>7, <3>2, <4>2, <4>3
        <3> QED
            BY <1>4, <2>1, <3>1, <3>2
    <2>2. ASSUME output' # <<>>, output'[1][2] \notin hit \union {0} PROVE BeginsLine(Len(fromBoard) + 1)'
        <3>1. Newline[2] = 0
            BY PieceIs
        <3>2. CASE output' = <<Newline>>
            <4>1. output'[1] = Newline
                BY <3>2
            <4> QED
                BY <2>2, <3>1, <4>1
        <3>3. CASE x = Newline
            <4>1. Len(fromBoard') + 1 # 1 /\ (Len(fromBoard') + 1) - 1 = Len(fromBoard) + 1
                BY <1>4
            <4>2. fromBoard'[(Len(fromBoard') + 1) - 1] = Newline
                BY <1>4, <3>3, <4>1
            <4> QED
                BY <4>2 DEF BeginsLine
        <3> QED
            BY <1>2, <2>2, <3>2, <3>3
    <2> QED
        BY <1>1, <2>1, <2>2 DEF ReportsBeginLines
<1>9. EarlierAhead(Stage') /\ RisingOn(fromBoard')
    <2> DEFINE a == Stage
               b == Stage'
    <2>1. a \in [1 .. 6 -> SUBSET Nat] /\ EarlierAhead(a)
        BY StageSame
    <2>2. b[1] = a[1] /\ b[3] \subseteq a[3] /\ b[4] = a[4] /\ b[5] = a[5] /\ b[6] = a[6]
        BY <1>1, <1>2 DEF Stage, Numbers
    <2>3. b[2] \subseteq a[2] \union ({x[2]} \ {0})
        BY <1>1, <1>2, <1>3, AppendNumbers DEF Stage
    <2>4. x[2] # 0 => x[2] \in a[2 + 1] /\ b[2 + 1] = {}
        BY <1>2 DEF Stage
    <2>5. a[2] = Numbers(fromBoard)
        BY DEF Stage
    <2> HIDE DEF a, b
    <2>6. ASSUME x[2] = 0 PROVE EarlierAhead(b)
        <3>1. \A i \in 1 .. 6 : b[i] \subseteq a[i]
            BY <2>2, <2>3, <2>6
        <3> QED
            BY <2>1, <3>1, StagesShrink
    <2>7. ASSUME x[2] # 0 PROVE EarlierAhead(b)
        <3>1. \A i \in 1 .. 6 : i # 2 => b[i] \subseteq a[i]
            BY <2>2
        <3>2. x[2] \in a[2 + 1] /\ (\A y \in b[2 + 1] : x[2] < y) /\ b[2] \subseteq a[2] \union {x[2]}
            BY <2>3, <2>4, <2>7
        <3> QED
            BY <2>1, <3>1, <3>2, StageMoves
    <2>8. EarlierAhead(b)
        BY <2>6, <2>7
    <2>9. \A n \in Numbers(fromBoard) : x[2] # 0 => n < x[2]
        BY <2>1, <2>4, <2>5 DEF EarlierAhead
    <2>10. RisingOn(fromBoard')
        BY <1>1, <1>2, <1>3, <2>9, AppendRises
    <2> QED
        BY <2>8, <2>10 DEF b
<1> QED
    BY <1>1, <1>5, <1>6, <1>8, <1>9 DEF IInv, InOrder, Rising

LEMMA fgetsStep == ASSUME IInv, fgets, UNCHANGED daemonVars PROVE IInv'
<1> DEFINE x == Head(rxQueue)
<1>1. /\ rxQueue # <<>> /\ rxQueue' = Tail(rxQueue)
      /\ fromBoard' = Append(fromBoard, x) /\ line' = Append(line, x)
      /\ hit' = IF output # <<>> /\ output[1][2] # 0 THEN hit \union {output[1][2]} ELSE hit
      /\ UNCHANGED <<presses, key, keyPressed, output, decoded, unread, toBoard>>
    BY DEF fgets, daemonVars, reportVars
<1>2. /\ rxQueue \in Seq(AnyPiece) /\ Unnumbered(rxQueue) /\ line \in Seq(AnyPiece) /\ Unnumbered(line)
      /\ fromBoard \in Seq(AnyPiece) /\ RisingOn(fromBoard)
    BY DEF IInv, Types, CommandsUnnumbered, InOrder
<1>3. x \in AnyPiece /\ x[2] = 0 /\ rxQueue' \in Seq(AnyPiece) /\ Unnumbered(rxQueue')
    BY <1>1, <1>2, UnnumberedTail
<1> HIDE DEF x
<1>4. line' \in Seq(AnyPiece) /\ Unnumbered(line')
    BY <1>1, <1>2, <1>3, UnnumberedAppend
<1>5. /\ fromBoard' \in Seq(AnyPiece)
      /\ Len(fromBoard') = Len(fromBoard) + 1 /\ Len(fromBoard) \in Nat
      /\ fromBoard'[Len(fromBoard) + 1] = x
      /\ DOMAIN fromBoard = 1 .. Len(fromBoard)
      /\ \A i \in DOMAIN fromBoard : fromBoard'[i] = fromBoard[i]
      /\ \A i \in DOMAIN fromBoard' : i \in DOMAIN fromBoard \/ i = Len(fromBoard) + 1
    BY <1>1, <1>2, <1>3, AppendWire
<1>6. /\ hit \subseteq hit' /\ hit' \subseteq Nat \ {0}
      /\ output # <<>> => output[1][2] \in hit' \union {0}
    <2>1. output # <<>> => output[1] \in AnyPiece
        BY OutputRest DEF IInv
    <2>2. output # <<>> => output[1][2] \in Nat
        BY <2>1, PieceIs
    <2> QED
        BY <1>1, <2>2 DEF IInv, Types
<1>7. Types' /\ CommandsUnnumbered' /\ OutputIsReport' /\ ReportsUnderstood'
    BY <1>1, <1>3, <1>4, <1>5, <1>6
    DEF IInv, Types, CommandsUnnumbered, OutputIsReport, ReportsUnderstood
<1>8. ReportsBeginLines'
    <2>1. ASSUME NEW i \in DOMAIN fromBoard', fromBoard'[i][2] \notin hit' \union {0} PROVE BeginsLine(i)'
        <3>1. i \in DOMAIN fromBoard /\ fromBoard'[i] = fromBoard[i] /\ fromBoard[i][2] \notin hit \union {0}
            BY <1>3, <1>5, <1>6, <2>1
        <3>2. BeginsLine(i)
            BY <3>1 DEF IInv, ReportsBeginLines
        <3>3. i # 1 => i - 1 \in DOMAIN fromBoard
            BY <1>5, <3>1
        <3> QED
            BY <1>5, <3>2, <3>3 DEF BeginsLine
    <2> QED
        BY <1>1, <1>6, <2>1 DEF ReportsBeginLines
<1>9. EarlierAhead(Stage') /\ RisingOn(fromBoard')
    <2> DEFINE a == Stage
               b == Stage'
    <2>1. EarlierAhead(a)
        BY StageSame
    <2>2. b[1] = a[1] /\ b[3] = a[3] /\ b[4] = a[4] /\ b[5] = a[5] /\ b[6] = a[6]
        BY <1>1 DEF Stage, Numbers
    <2>3. Numbers(fromBoard') \subseteq Numbers(fromBoard) \union ({x[2]} \ {0})
        BY <1>1, <1>2, <1>3, AppendNumbers
    <2>4. b[2] \subseteq a[2]
        BY <1>3, <2>3 DEF Stage
    <2> HIDE DEF a, b
    <2>5. \A i \in 1 .. 6 : b[i] \subseteq a[i]
        BY <2>2, <2>4
    <2>6. EarlierAhead(b)
        BY <2>1, <2>5, StagesShrink
    <2>7. RisingOn(fromBoard')
        BY <1>1, <1>2, <1>3, AppendRises
    <2> QED
        BY <2>6, <2>7 DEF b
<1> QED
    BY <1>1, <1>7, <1>8, <1>9 DEF IInv, InOrder, Rising

LEMMA portClosedStep == ASSUME IInv, portClosed, UNCHANGED boardVars PROVE IInv'
<1>1. /\ fromBoard # <<>> /\ fromBoard' = Tail(fromBoard)
      /\ UNCHANGED <<presses, key, keyPressed, output, decoded, unread, hit, toBoard, rxQueue, line>>
    BY DEF portClosed, daemonVars, boardVars
<1>2. fromBoard \in Seq(AnyPiece) /\ RisingOn(fromBoard)
    BY DEF IInv, Types, InOrder
<1>3. PICK n \in 1 .. Len(fromBoard) : fromBoard' = SubSeq(fromBoard, n + 1, Len(fromBoard))
    BY <1>1, <1>2, TailWire
<1>4. /\ fromBoard' \in Seq(AnyPiece) /\ RisingOn(fromBoard')
      /\ Numbers(fromBoard') \subseteq Numbers(fromBoard)
    <2> DEFINE rest == fromBoard'
    <2>1. rest = SubSeq(fromBoard, n + 1, Len(fromBoard))
        BY <1>3
    <2> HIDE DEF rest
    <2>2. rest \in Seq(AnyPiece) /\ RisingOn(rest) /\ Numbers(rest) \subseteq Numbers(fromBoard)
        <3>1. n \in 1 .. Len(fromBoard)
            OBVIOUS
        <3>2. \A wire \in Seq(AnyPiece) : RisingOn(wire) => \A m \in 1 .. Len(wire) :
                \A s : s = SubSeq(wire, m + 1, Len(wire)) =>
                    s \in Seq(AnyPiece) /\ RisingOn(s) /\ Numbers(s) \subseteq Numbers(wire)
            BY RestRises
        <3> QED
            BY <1>2, <2>1, <3>1, <3>2
    <2> QED
        BY <2>2 DEF rest
<1>5. Types' /\ CommandsUnnumbered' /\ OutputIsReport' /\ ReportsUnderstood'
    BY <1>1, <1>4 DEF IInv, Types, CommandsUnnumbered, OutputIsReport, ReportsUnderstood
<1>6. ReportsBeginLines'
    BY <1>1, <1>3, RestBegins
<1>7. EarlierAhead(Stage')
    <2> DEFINE a == Stage
               b == Stage'
    <2>1. EarlierAhead(a)
        BY StageSame
    <2>2. b[1] = a[1] /\ b[2] \subseteq a[2] /\ b[3] = a[3] /\ b[4] = a[4] /\ b[5] = a[5] /\ b[6] = a[6]
        BY <1>1, <1>4 DEF Stage, Numbers
    <2> HIDE DEF a, b
    <2>3. \A i \in 1 .. 6 : b[i] \subseteq a[i]
        BY <2>2
    <2>4. EarlierAhead(b)
        BY <2>1, <2>3, StagesShrink
    <2> QED
        BY <2>4 DEF b
<1> QED
    BY <1>1, <1>4, <1>5, <1>6, <1>7 DEF IInv, InOrder, Rising

LEMMA disconnectedStep == ASSUME IInv, disconnected, UNCHANGED boardVars PROVE IInv'
<1>1. /\ fromBoard' = <<>>
      /\ UNCHANGED <<presses, key, keyPressed, output, decoded, unread, hit, toBoard, rxQueue, line>>
    BY DEF disconnected, daemonVars, boardVars
<1>2. <<>> \in Seq(AnyPiece) /\ DOMAIN <<>> = {} /\ Len(<<>>) = 0
    OBVIOUS
<1>3. RisingOn(fromBoard') /\ Numbers(fromBoard') = {}
    BY <1>1, <1>2 DEF RisingOn, Numbers
<1>4. Types' /\ CommandsUnnumbered' /\ OutputIsReport' /\ ReportsUnderstood'
    BY <1>1, <1>2 DEF IInv, Types, CommandsUnnumbered, OutputIsReport, ReportsUnderstood
<1>5. ReportsBeginLines'
    BY <1>1, <1>2 DEF ReportsBeginLines, BeginsLine
<1>6. EarlierAhead(Stage')
    <2> DEFINE a == Stage
               b == Stage'
    <2>1. EarlierAhead(a)
        BY StageSame
    <2>2. b[1] = a[1] /\ b[2] \subseteq a[2] /\ b[3] = a[3] /\ b[4] = a[4] /\ b[5] = a[5] /\ b[6] = a[6]
        BY <1>1, <1>3 DEF Stage, Numbers
    <2> HIDE DEF a, b
    <2>3. \A i \in 1 .. 6 : b[i] \subseteq a[i]
        BY <2>2
    <2>4. EarlierAhead(b)
        BY <2>1, <2>3, StagesShrink
    <2> QED
        BY <2>4 DEF b
<1> QED
    BY <1>1, <1>3, <1>4, <1>5, <1>6 DEF IInv, InOrder, Rising

-----------------------------------------------------------------------------
(* A line read by the daemon ends at the first newline.                    *)
LEMMA FirstLine ==
    ASSUME Types, LineEnd # 0
    PROVE  /\ LineEnd \in 1 .. Len(fromBoard)
           /\ \A i \in 1 .. LineEnd - 1 : fromBoard[i] # Newline
<1> DEFINE ends == {i \in 1 .. Len(fromBoard) : EndsLine(fromBoard[i])}
<1>1. Len(fromBoard) \in Nat /\ ends \subseteq 0 .. Len(fromBoard)
    BY DEF Types
<1>2. ends # {} /\ LineEnd = CHOOSE i \in ends : \A j \in ends : i <= j
    BY DEF LineEnd, SelectInSeq, Min
<1> HIDE DEF ends
<1>3. \E i \in ends : \A j \in ends : i <= j
    BY <1>1, <1>2, LeastExists
<1>4. LineEnd \in ends /\ \A j \in ends : LineEnd <= j
    BY <1>2, <1>3
<1>5. LineEnd \in 1 .. Len(fromBoard)
    BY <1>4 DEF ends
<1>6. ASSUME NEW i \in 1 .. LineEnd - 1, fromBoard[i] = Newline PROVE FALSE
    <2>1. i \in 1 .. Len(fromBoard) /\ i < LineEnd
        BY <1>1, <1>5, <1>6
    <2>2. i \in ends
        BY <1>6, <2>1 DEF ends, EndsLine
    <2> QED
        BY <1>1, <1>4, <1>5, <2>1, <2>2
<1> QED
    BY <1>5, <1>6

LEMMA MessageIs ==
    ASSUME Types, LineEnd # 0
    PROVE  /\ Message \in Seq(AnyPiece) /\ Len(Message) = LineEnd - 1 /\ Len(Message) \in Nat
           /\ \A i \in 1 .. Len(Message) : Message[i] = fromBoard[i]
           /\ \A i \in 1 .. Len(Message) : i \in 1 .. LineEnd /\ i \in DOMAIN fromBoard
           /\ Message # <<>> => Head(Message) = fromBoard[1] /\ 1 \in 1 .. LineEnd
                                /\ Head(Message) \in AnyPiece
<1>1. LineEnd \in 1 .. Len(fromBoard) /\ fromBoard \in Seq(AnyPiece) /\ Len(fromBoard) \in Nat
    BY FirstLine DEF Types
<1> DEFINE e == LineEnd
           s == SubSeq(fromBoard, 1, e - 1)
<1>2. Message = s
    BY DEF Message
<1> HIDE DEF e
<1>3. e \in 1 .. Len(fromBoard)
    BY <1>1 DEF e
<1>4. /\ s \in Seq(AnyPiece) /\ Len(s) = e - 1 /\ Len(s) \in Nat
      /\ \A i \in 1 .. Len(s) : s[i] = fromBoard[i]
    BY <1>1, <1>3
<1> HIDE DEF s
<1>5. s # <<>> => Head(s) = s[1] /\ 1 \in 1 .. Len(s) /\ Head(s) \in AnyPiece
    BY <1>4
<1>6. \A i \in 1 .. Len(s) : i \in 1 .. e /\ i \in DOMAIN fromBoard
    BY <1>1, <1>3, <1>4
<1> QED
    BY <1>1, <1>2, <1>3, <1>4, <1>5, <1>6 DEF e

LEMMA MissedWasHit ==
    ASSUME IInv, LineEnd # 0
    PROVE  Missed(Message) \subseteq hit
<1> SUFFICES ASSUME NEW i \in 2 .. Len(Message), Message[i][2] # 0
             PROVE  Message[i][2] \in hit
    BY DEF Missed
<1>1. /\ Len(Message) \in Nat /\ Len(Message) = LineEnd - 1 /\ LineEnd \in Nat
      /\ i \in Nat /\ i >= 2 /\ i <= Len(Message)
      /\ Message[i] = fromBoard[i] /\ i \in DOMAIN fromBoard
    <2>1. Len(Message) \in Nat /\ Len(Message) = LineEnd - 1 /\ LineEnd \in 1 .. Len(fromBoard) /\ Len(fromBoard) \in Nat
        BY MessageIs, FirstLine DEF IInv, Types
    <2>2. i \in 1 .. Len(Message)
        BY <2>1
    <2> QED
        BY <2>1, <2>2, MessageIs DEF IInv
<1>2. fromBoard[i - 1] # Newline
    <2>1. i - 1 \in 1 .. LineEnd - 1
        BY <1>1
    <2> QED
        BY <2>1, FirstLine DEF IInv
<1>3. ~BeginsLine(i)
    BY <1>1, <1>2 DEF BeginsLine
<1> QED
    BY <1>1, <1>3 DEF IInv, ReportsBeginLines

LEMMA MissedNumbers ==
    ASSUME Types, LineEnd # 0
    PROVE  Missed(Message) \subseteq Nat \ {0}
<1>1. Message \in Seq(AnyPiece) /\ Len(Message) \in Nat
    BY MessageIs
<1>2. \A i \in 2 .. Len(Message) : Message[i] \in AnyPiece
    BY <1>1
<1> QED
    BY <1>2, PieceIs DEF Missed

(* The daemon takes a line, and may have obeyed the press at its beginning.*)
LEMMA LineTaken ==
    ASSUME Types, RisingOn(fromBoard), LineEnd # 0, NEW rest, rest = Rest(fromBoard)
    PROVE  /\ rest \in Seq(AnyPiece) /\ RisingOn(rest) /\ Numbers(rest) \subseteq Numbers(fromBoard)
           /\ \A letter \in {"A", "C"} : Starts(Message, letter) =>
                /\ Head(Message)[2] \in Nat \ {0} /\ Head(Message)[2] \in Numbers(fromBoard)
                /\ \A m \in Numbers(rest) : Head(Message)[2] < m
<1>1. fromBoard \in Seq(AnyPiece) /\ LineEnd \in 1 .. Len(fromBoard)
    BY FirstLine DEF Types
<1>2. rest = SubSeq(fromBoard, LineEnd + 1, Len(fromBoard))
    BY DEF Rest
<1>3. /\ rest \in Seq(AnyPiece) /\ RisingOn(rest) /\ Numbers(rest) \subseteq Numbers(fromBoard)
      /\ \A i \in 1 .. LineEnd : fromBoard[i][2] # 0 => \A m \in Numbers(rest) : fromBoard[i][2] < m
    <2> DEFINE e == LineEnd
    <2>1. e \in 1 .. Len(fromBoard) /\ rest = SubSeq(fromBoard, e + 1, Len(fromBoard))
        BY <1>1, <1>2
    <2> HIDE DEF e
    <2>2. \A wire \in Seq(AnyPiece) : RisingOn(wire) => \A n \in 1 .. Len(wire) :
            \A s : s = SubSeq(wire, n + 1, Len(wire)) =>
                /\ s \in Seq(AnyPiece) /\ RisingOn(s) /\ Numbers(s) \subseteq Numbers(wire)
                /\ \A i \in 1 .. n : wire[i][2] # 0 => \A m \in Numbers(s) : wire[i][2] < m
        BY RestRises
    <2>3. /\ rest \in Seq(AnyPiece) /\ RisingOn(rest) /\ Numbers(rest) \subseteq Numbers(fromBoard)
          /\ \A i \in 1 .. e : fromBoard[i][2] # 0 => \A m \in Numbers(rest) : fromBoard[i][2] < m
        BY <1>1, <2>1, <2>2
    <2> QED
        BY <2>3 DEF e
<1>4. ASSUME NEW letter \in {"A", "C"}, Starts(Message, letter)
      PROVE  /\ Head(Message)[2] \in Nat \ {0} /\ Head(Message)[2] \in Numbers(fromBoard)
             /\ \A m \in Numbers(rest) : Head(Message)[2] < m
    <2>1. /\ Message # <<>> /\ Head(Message)[1] \in {"A", "C"}
          /\ Head(Message) = fromBoard[1] /\ 1 \in 1 .. LineEnd /\ Head(Message) \in AnyPiece
        BY <1>4, MessageIs DEF Starts
    <2>2. Head(Message)[2] \in Nat \ {0}
        BY <2>1, PieceIs
    <2>3. 1 \in DOMAIN fromBoard
        BY <1>1
    <2>4. Head(Message)[2] \in Numbers(fromBoard)
        BY <2>1, <2>2, <2>3 DEF Numbers
    <2>5. \A m \in Numbers(rest) : Head(Message)[2] < m
        BY <1>3, <2>1, <2>2
    <2> QED
        BY <2>2, <2>4, <2>5
<1> QED
    BY <1>3, <1>4

LEMMA AppendRising ==
    ASSUME NEW s \in Seq(Nat \ {0}), Rising(s), NEW x \in Nat \ {0}, \A n \in ToSet(s) : n < x
    PROVE  /\ Append(s, x) \in Seq(Nat \ {0}) /\ Rising(Append(s, x))
           /\ ToSet(Append(s, x)) \subseteq ToSet(s) \union {x}
<1> DEFINE u == Append(s, x)
<1>1. /\ u \in Seq(Nat \ {0}) /\ u[Len(s) + 1] = x /\ Len(s) \in Nat /\ DOMAIN s = 1 .. Len(s)
      /\ \A i \in DOMAIN s : u[i] = s[i]
      /\ \A i \in DOMAIN u : i \in DOMAIN s \/ i = Len(s) + 1
    BY AppendWire
<1> HIDE DEF u
<1>2. \A i \in DOMAIN s : s[i] \in ToSet(s)
    BY DEF ToSet
<1>3. Rising(u)
    <2> SUFFICES ASSUME NEW i \in DOMAIN u, NEW j \in DOMAIN u, i < j PROVE u[i] < u[j]
        BY DEF Rising
    <2>1. i \in DOMAIN s
        BY <1>1
    <2>2. CASE j \in DOMAIN s
        BY <1>1, <2>1, <2>2 DEF Rising
    <2>3. CASE j = Len(s) + 1
        BY <1>1, <1>2, <2>1, <2>3
    <2> QED
        BY <1>1, <2>2, <2>3
<1>4. ToSet(u) \subseteq ToSet(s) \union {x}
    BY <1>1 DEF ToSet
<1> QED
    BY <1>1, <1>3, <1>4 DEF u

LEMMA serialReadStep == ASSUME IInv, serialRead, UNCHANGED boardVars PROVE IInv'
<1>1. /\ LineEnd # 0
      /\ fromBoard' = Rest(fromBoard)
      /\ unread' = unread \union Missed(Message)
      /\ UNCHANGED <<presses, key, keyPressed, output, hit, rxQueue, line>>
      /\ \/ \E letter \in {"A", "C"} :
                /\ Starts(Message, letter)
                /\ toBoard' = toBoard \o <<Text(CommandFor(StatusFor(letter))), Newline>>
                /\ decoded' = Append(decoded, Head(Message)[2])
         \/ UNCHANGED <<toBoard, decoded>>
    BY DEF serialRead, serialWrite, boardVars
<1>2. /\ toBoard \in Seq(AnyPiece) /\ Unnumbered(toBoard)
      /\ decoded \in Seq(Nat \ {0}) /\ Rising(decoded) /\ RisingOn(fromBoard) /\ Types
    BY DEF IInv, Types, CommandsUnnumbered, InOrder
<1>3. toBoard' \in Seq(AnyPiece) /\ Unnumbered(toBoard')
    BY <1>1, <1>2, CommandSent
<1>4. /\ fromBoard' \in Seq(AnyPiece) /\ RisingOn(fromBoard')
      /\ Numbers(fromBoard') \subseteq Numbers(fromBoard)
    BY <1>1, <1>2, LineTaken
<1>5. Missed(Message) \subseteq hit /\ Missed(Message) \subseteq Nat \ {0}
    BY <1>1, <1>2, MissedWasHit, MissedNumbers
<1>6. ReportsBeginLines'
    <2> DEFINE e == LineEnd
    <2>1. e \in 1 .. Len(fromBoard) /\ fromBoard' = SubSeq(fromBoard, e + 1, Len(fromBoard))
        BY <1>1, <1>2, FirstLine DEF Rest
    <2> HIDE DEF e
    <2>2. PICK n \in 1 .. Len(fromBoard) : fromBoard' = SubSeq(fromBoard, n + 1, Len(fromBoard))
        BY <2>1
    <2> QED
        BY <1>1, <2>2, RestBegins
<1>7. ReportsUnderstood' /\ CommandsUnnumbered' /\ OutputIsReport'
    BY <1>1, <1>3, <1>5 DEF IInv, ReportsUnderstood, CommandsUnnumbered, OutputIsReport
<1>8. /\ decoded' \in Seq(Nat \ {0}) /\ Rising(decoded')
      /\ EarlierAhead(Stage')
    <2> DEFINE a == Stage
               b == Stage'
    <2>1. a \in [1 .. 6 -> SUBSET Nat] /\ EarlierAhead(a)
        BY StageSame
    <2>2. b[2] \subseteq a[2] /\ b[3] = a[3] /\ b[4] = a[4] /\ b[5] = a[5] /\ b[6] = a[6]
          /\ b[2] = Numbers(fromBoard') /\ a[2] = Numbers(fromBoard)
          /\ b[1] = ToSet(decoded') /\ a[1] = ToSet(decoded)
        BY <1>1, <1>4 DEF Stage, Numbers
    <2> HIDE DEF a, b
    <2>3. CASE decoded' = decoded
        <3>1. \A i \in 1 .. 6 : b[i] \subseteq a[i]
            BY <2>2, <2>3
        <3>2. EarlierAhead(b)
            BY <2>1, <3>1, StagesShrink
        <3> QED
            BY <1>2, <2>3, <3>2 DEF b
    <2>4. CASE \E letter \in {"A", "C"} :
                /\ Starts(Message, letter)
                /\ decoded' = Append(decoded, Head(Message)[2])
        <3> DEFINE x == Head(Message)[2]
        <3>1. /\ x \in Nat \ {0} /\ x \in Numbers(fromBoard) /\ \A m \in Numbers(fromBoard') : x < m
              /\ decoded' = Append(decoded, x)
            BY <1>1, <1>2, <2>4, LineTaken
        <3> HIDE DEF x
        <3>2. \A n \in ToSet(decoded) : n < x
            BY <2>1, <2>2, <3>1 DEF EarlierAhead
        <3>3. decoded' \in Seq(Nat \ {0}) /\ Rising(decoded') /\ ToSet(decoded') \subseteq ToSet(decoded) \union {x}
            BY <1>2, <3>1, <3>2, AppendRising
        <3>4. \A i \in 1 .. 6 : i # 1 => b[i] \subseteq a[i]
            BY <2>2
        <3>5. x \in a[1 + 1] /\ (\A y \in b[1 + 1] : x < y) /\ b[1] \subseteq a[1] \union {x}
            <4>1. x \in a[2] /\ \A y \in b[2] : x < y
                BY <2>2, <3>1
            <4>2. b[1] \subseteq a[1] \union {x}
                BY <2>2, <3>3
            <4>3. 1 + 1 = 2
                OBVIOUS
            <4> QED
                BY <4>1, <4>2, <4>3
        <3>6. EarlierAhead(b)
            BY <2>1, <3>4, <3>5, StageMoves
        <3> QED
            BY <3>3, <3>6 DEF b
    <2> QED
        BY <1>1, <2>3, <2>4
<1>9. Types'
    BY <1>1, <1>3, <1>4, <1>5, <1>8 DEF IInv, Types
<1> QED
    BY <1>1, <1>4, <1>6, <1>7, <1>8, <1>9 DEF IInv, InOrder, Rising

-----------------------------------------------------------------------------
(* Nothing has been pressed or sent.                                       *)
LEMMA InitIInv == Init => IInv
<1> SUFFICES ASSUME Init PROVE IInv
    OBVIOUS
<1>1. /\ toBoard = <<>> /\ fromBoard = <<>> /\ presses = 0 /\ keyPressed = <<>> /\ key = 0
      /\ output = <<>> /\ rxQueue = <<>> /\ line = <<>> /\ hit = {} /\ decoded = <<>> /\ unread = {}
    BY DEF Init, BoardInit, DaemonInit
<1>2. Types /\ CommandsUnnumbered /\ OutputIsReport /\ ReportsBeginLines /\ ReportsUnderstood
    BY <1>1 DEF Types, CommandsUnnumbered, Unnumbered, OutputIsReport, ReportsBeginLines, ReportsUnderstood
<1>3. Rising(decoded) /\ Rising(keyPressed) /\ RisingOn(fromBoard)
    BY <1>1 DEF Rising, RisingOn
<1>4. EarlierAhead(Stage)
    <2>1. /\ Stage[1] = {} /\ Stage[2] = {} /\ Stage[3] = {} /\ Stage[4] = {} /\ Stage[5] = {}
        BY <1>1 DEF Stage, ToSet, Numbers
    <2>2. \A i \in 1 .. 5 : Stage[i] = {}
        BY <2>1
    <2>3. \A i, j \in 1 .. 6 : i < j => i \in 1 .. 5
        OBVIOUS
    <2> QED
        BY <2>2, <2>3 DEF EarlierAhead
<1> QED
    BY <1>2, <1>3, <1>4 DEF IInv, InOrder

(* Every step keeps the invariant.                                         *)
LEMMA NextIInv == IInv /\ [Next]_vars => IInv'
<1> SUFFICES ASSUME IInv, [Next]_vars PROVE IInv'
    OBVIOUS
<1>1. CASE UNCHANGED vars
    BY <1>1, SkipStep
<1>2. CASE OnBoard(keybThread) \/ OnBoard(getKey) \/ OnBoard(printKey) \/ OnBoard(tempThread)
    BY <1>2, keybThreadStep, getKeyStep, printKeyStep, tempThreadStep DEF OnBoard
<1>3. CASE OnBoard(write) \/ OnBoard(serialIrqImpl) \/ OnBoard(fgets) \/ OnBoard(obey)
    BY <1>3, writeStep, serialIrqImplStep, fgetsStep, obeyStep DEF OnBoard
<1>4. CASE OnDaemon(connect) \/ OnDaemon(cannotConnect) \/ OnDaemon(serverUpdate)
           \/ OnDaemon(serverReceives) \/ OnDaemon(linkBreaks)
    BY <1>4, ElsewhereStep DEF OnDaemon
<1>5. CASE OnDaemon(disconnected) \/ OnDaemon(socketRead) \/ OnDaemon(serialRead) \/ OnDaemon(portClosed)
    BY <1>5, disconnectedStep, socketReadStep, serialReadStep, portClosedStep DEF OnDaemon
<1> QED
    BY <1>1, <1>2, <1>3, <1>4, <1>5 DEF Next

(* The order of the presses along the way, in every reachable state.       *)
THEOREM Invariant == Spec => []IInv
BY InitIInv, NextIInv, PTL DEF Spec

-----------------------------------------------------------------------------
(* The presses of the button are obeyed in their order and none twice,     *)
(* whatever gets lost on the way.                                          *)
THEOREM PressesInOrder == Spec => []KeysInOrder
<1>1. IInv => KeysInOrder
    BY DEF IInv, InOrder, Rising, KeysInOrder
<1> QED
    BY <1>1, Invariant, PTL

(* main.cpp:45: a report that arrives is understood, unless an echo came   *)
(* between its newline and its text.                                       *)
THEOREM ArrivedIsUnderstood == Spec => []ReportsUnderstood
<1>1. IInv => ReportsUnderstood
    BY DEF IInv
<1> QED
    BY <1>1, Invariant, PTL

-----------------------------------------------------------------------------
(* The rest of the type invariant.                                         *)
BoardTypes ==
    /\ presses <= MaxPresses /\ hit \subseteq 1 .. presses
    /\ Len(keyPressed) <= KeyQueueSize /\ Len(rxQueue) <= RxQueueSize
    /\ display \in {"none", "open", "closed"}

DaemonTypes ==
    /\ link \in {"down", "up", "reset", "silent"}
    /\ r \in 0 .. RetryMax
    /\ toDaemon \in Seq(Statuses) /\ toServer \in Seq(Statuses)
    /\ status \in Statuses
    /\ greets \in BOOLEAN /\ written \in BOOLEAN
    /\ updates \in 0 .. MaxUpdates /\ breaks \in 0 .. MaxBreaks

SystemTypes == BoardTypes /\ DaemonTypes /\ trouble \subseteq {"crossed", "link", "overflow"}

LEMMA BoardTypesStep ==
    ASSUME IInv, BoardTypes,
           keybThread \/ getKey \/ printKey \/ tempThread \/ write \/ serialIrqImpl \/ fgets \/ obey
    PROVE  BoardTypes'
<1> USE DEF BoardTypes
<1>1. /\ keyPressed \in Seq(Nat \ {0}) /\ rxQueue \in Seq(AnyPiece) /\ toBoard \in Seq(AnyPiece)
      /\ presses \in Nat /\ MaxPresses \in Nat /\ KeyQueueSize \in Nat /\ RxQueueSize \in Nat
    BY BoardAssumption DEF IInv, Types
<1>2. CASE keybThread
    <2>1. presses + 1 \in Nat \ {0}
        BY <1>1
    <2>2. Len(keyPressed') <= KeyQueueSize
        BY <1>1, <1>2, <2>1 DEF keybThread
    <2>3. hit' \subseteq 1 .. presses'
        BY <1>1, <1>2 DEF keybThread
    <2> QED
        BY <1>1, <1>2, <2>2, <2>3 DEF keybThread, commandVars
<1>3. CASE getKey
    <2>1. keyPressed # <<>> /\ Len(Tail(keyPressed)) <= Len(keyPressed)
        BY <1>1, <1>3 DEF getKey
    <2>2. Len(keyPressed') <= KeyQueueSize
        BY <1>1, <1>3, <2>1 DEF getKey, Taken
    <2> QED
        BY <1>3, <2>2 DEF getKey, commandVars
<1>4. CASE printKey \/ tempThread \/ write
    BY <1>4 DEF printKey, tempThread, write, commandVars
<1>5. CASE serialIrqImpl
    <2>1. toBoard # <<>> /\ Head(toBoard) \in AnyPiece
        BY <1>1, <1>5 DEF serialIrqImpl
    <2>2. Len(rxQueue') <= RxQueueSize
        BY <1>1, <1>5, <2>1 DEF serialIrqImpl
    <2> QED
        BY <1>5, <2>2 DEF serialIrqImpl, reportVars
<1>6. CASE fgets
    <2>1. rxQueue # <<>> /\ Len(Tail(rxQueue)) <= Len(rxQueue)
        BY <1>1, <1>6 DEF fgets
    <2>2. Len(rxQueue') <= RxQueueSize
        BY <1>1, <1>6, <2>1 DEF fgets
    <2>3. output # <<>> /\ output[1][2] # 0 => output[1][2] \in Numbers(output)
        BY OutputRest DEF IInv
    <2>4. output # <<>> /\ output[1][2] # 0 => output[1][2] \in 1 .. presses
        BY <2>3, StageSame
    <2>5. hit' \subseteq 1 .. presses
        BY <1>6, <2>4 DEF fgets
    <2> QED
        BY <1>6, <2>2, <2>5 DEF fgets, reportVars
<1>7. CASE obey
    BY <1>7 DEF obey, reportVars
<1> QED
    BY <1>2, <1>3, <1>4, <1>5, <1>6, <1>7

LEMMA DaemonTypesStep ==
    ASSUME DaemonTypes,
           connect \/ cannotConnect \/ disconnected \/ socketRead \/ serialRead \/ portClosed
           \/ serverUpdate \/ serverReceives \/ linkBreaks
    PROVE  DaemonTypes'
<1>1. /\ toDaemon \in Seq(Statuses) /\ toServer \in Seq(Statuses) /\ status \in Statuses
      /\ RetryMax \in Nat /\ MaxUpdates \in Nat /\ MaxBreaks \in Nat
    BY DaemonAssumption DEF DaemonTypes
<1>2. CASE connect
    <2>1. toDaemon' \in Seq(Statuses)
        BY <1>1, <1>2 DEF connect
    <2> QED
        BY <1>2, <2>1 DEF DaemonTypes, connect
<1>3. CASE cannotConnect
    BY <1>1, <1>3 DEF DaemonTypes, cannotConnect, NextRetry
<1>4. CASE disconnected
    <2>1. toDaemon' \in Seq(Statuses)
        BY <1>4 DEF disconnected
    <2>2. r' \in 0 .. RetryMax
        BY <1>1, <1>4 DEF DaemonTypes, disconnected, NextRetry
    <2> QED
        BY <1>4, <2>1, <2>2 DEF DaemonTypes, disconnected
<1>5. CASE socketRead
    <2>1. toDaemon' \in Seq(Statuses)
        BY <1>1, <1>5 DEF socketRead
    <2> QED
        BY <1>5, <2>1 DEF DaemonTypes, socketRead
<1>6. CASE serialRead
    <2>1. UNCHANGED <<link, r, toDaemon, status, greets, updates, breaks>>
        BY <1>6 DEF serialRead
    <2>2. \/ UNCHANGED <<toServer, written>>
          \/ \E s \in Seq(Statuses) : tcpWrite(s)
        <3>1. \A letter : <<StatusFor(letter)>> \in Seq(Statuses)
            <4>1. \A letter : StatusFor(letter) \in Statuses
                BY DEF StatusFor, Statuses
            <4> QED
                BY <4>1
        <3>2. <<>> \in Seq(Statuses)
            OBVIOUS
        <3> QED
            BY <1>6, <3>1, <3>2 DEF serialRead
    <2>3. toServer' \in Seq(Statuses) /\ written' \in BOOLEAN
        <3>1. CASE UNCHANGED <<toServer, written>>
            BY <3>1 DEF DaemonTypes
        <3>2. ASSUME NEW s \in Seq(Statuses), tcpWrite(s) PROVE toServer' \in Seq(Statuses) /\ written' \in BOOLEAN
            <4>1. toServer \o s \in Seq(Statuses)
                BY <1>1
            <4>2. toServer' \in Seq(Statuses)
                BY <1>1, <3>2, <4>1 DEF tcpWrite
            <4>3. written' = (written \/ link = "silent")
                BY <3>2 DEF tcpWrite
            <4> QED
                BY <4>2, <4>3
        <3> QED
            BY <2>2, <3>1, <3>2
    <2> QED
        BY <2>1, <2>3 DEF DaemonTypes
<1>7. CASE portClosed
    BY <1>7 DEF DaemonTypes, portClosed, daemonVars
<1>8. CASE serverUpdate
    <2>1. \A s \in Statuses : Append(toDaemon, s) \in Seq(Statuses)
        BY <1>1
    <2>2. toDaemon' \in Seq(Statuses) /\ status' \in Statuses
        BY <1>1, <1>8, <2>1 DEF serverUpdate
    <2>3. updates' \in 0 .. MaxUpdates
        BY <1>1, <1>8 DEF serverUpdate, DaemonTypes
    <2> QED
        BY <1>8, <2>2, <2>3 DEF DaemonTypes, serverUpdate
<1>9. CASE serverReceives
    <2>1. toServer' \in Seq(Statuses) /\ status' \in Statuses
        BY <1>1, <1>9 DEF serverReceives
    <2> QED
        BY <1>9, <2>1 DEF DaemonTypes, serverReceives
<1>10. CASE linkBreaks
    <2>1. \A n \in 0 .. Len(toDaemon) : SubSeq(toDaemon, 1, n) \in Seq(Statuses)
        BY <1>1
    <2>2. toDaemon' \in Seq(Statuses) /\ toServer' \in Seq(Statuses)
        BY <1>10, <2>1 DEF linkBreaks
    <2>3. breaks' \in 0 .. MaxBreaks /\ link' \in {"down", "up", "reset", "silent"}
        BY <1>1, <1>10 DEF linkBreaks, DaemonTypes
    <2> QED
        BY <1>10, <2>2, <2>3 DEF DaemonTypes, linkBreaks
<1> QED
    BY <1>2, <1>3, <1>4, <1>5, <1>6, <1>7, <1>8, <1>9, <1>10

LEMMA NextSystemTypes == IInv /\ SystemTypes /\ [Next]_vars => SystemTypes'
<1> SUFFICES ASSUME IInv, SystemTypes, [Next]_vars PROVE SystemTypes'
    OBVIOUS
<1>1. CASE UNCHANGED vars
    BY <1>1 DEF SystemTypes, BoardTypes, DaemonTypes, vars, boardVars, daemonVars
<1>2. ASSUME Next PROVE SystemTypes'
    <2>1. Noted
        BY <1>2 DEF Next, OnBoard, OnDaemon
    <2>2. trouble' \subseteq {"crossed", "link", "overflow"}
        BY <2>1 DEF Noted, Disturbances, SystemTypes
    <2>3. CASE UNCHANGED daemonVars /\ (keybThread \/ getKey \/ printKey \/ tempThread \/ write
                                        \/ serialIrqImpl \/ fgets \/ obey)
        <3>1. DaemonTypes'
            BY <2>3 DEF SystemTypes, DaemonTypes, daemonVars
        <3>2. BoardTypes'
            BY <2>3, BoardTypesStep DEF SystemTypes
        <3> QED
            BY <2>2, <3>1, <3>2 DEF SystemTypes
    <2>4. CASE UNCHANGED boardVars /\ (connect \/ cannotConnect \/ disconnected \/ socketRead \/ serialRead
                                       \/ portClosed \/ serverUpdate \/ serverReceives \/ linkBreaks)
        <3>1. BoardTypes'
            BY <2>4 DEF SystemTypes, BoardTypes, boardVars
        <3>2. DaemonTypes'
            BY <2>4, DaemonTypesStep DEF SystemTypes
        <3> QED
            BY <2>2, <3>1, <3>2 DEF SystemTypes
    <2> QED
        BY <1>2, <2>3, <2>4 DEF Next, OnBoard, OnDaemon
<1> QED
    BY <1>1, <1>2

LEMMA InitSystemTypes == Init => SystemTypes
<1> SUFFICES ASSUME Init PROVE SystemTypes
    OBVIOUS
<1>1. <<>> \in Seq(Statuses) /\ Len(<<>>) = 0
    OBVIOUS
<1>2. KeyQueueSize \in Nat /\ RxQueueSize \in Nat /\ MaxPresses \in Nat
    BY BoardAssumption
<1>3. RetryMax \in Nat /\ MaxUpdates \in Nat /\ MaxBreaks \in Nat
    BY DaemonAssumption
<1>4. BoardTypes
    BY <1>1, <1>2 DEF Init, BoardInit, BoardTypes
<1>5. DaemonTypes
    <2>1. link = "down" /\ r = 0 /\ updates = 0 /\ breaks = 0 /\ status \in Statuses
          /\ toDaemon = <<>> /\ toServer = <<>>
        BY DEF Init, DaemonInit
    <2>2. r \in 0 .. RetryMax /\ updates \in 0 .. MaxUpdates /\ breaks \in 0 .. MaxBreaks
        BY <1>3, <2>1
    <2>3. greets \in BOOLEAN
        BY Zenon DEF Init, DaemonInit
    <2>4. written \in BOOLEAN
        BY DEF Init, DaemonInit
    <2> QED
        BY <1>1, <2>1, <2>2, <2>3, <2>4 DEF DaemonTypes
<1> QED
    BY <1>4, <1>5 DEF Init, SystemTypes

(* The same with the types of the daemon and of the rest of the board.      *)
THEOREM SystemInvariant == Spec => [](IInv /\ SystemTypes)
<1>1. Init => IInv /\ SystemTypes
    BY InitIInv, InitSystemTypes
<1>2. IInv /\ SystemTypes /\ [Next]_vars => (IInv /\ SystemTypes)'
    BY NextIInv, NextSystemTypes
<1> QED
    BY <1>1, <1>2, PTL DEF Spec

(* Every variable has its type.                                            *)
THEOREM TypeCorrect == Spec => []TypeOK
<1>1. IInv /\ SystemTypes => TypeOK
    <2> SUFFICES ASSUME IInv, SystemTypes PROVE TypeOK
        OBVIOUS
    <2> DEFINE few == 1 .. presses
    <2>1. /\ \A n \in ToSet(decoded) : n \in few
          /\ \A n \in Numbers(fromBoard) : n \in few
          /\ \A n \in Numbers(output) : n \in few
          /\ \A n \in ToSet(keyPressed) : n \in few
        BY StageSame
    <2>0. key \in 0 .. presses /\ presses \in Nat
        <3>1. key \in Nat /\ presses \in Nat /\ (key # 0 => key \in 1 .. presses)
            BY StageSame DEF IInv, Types
        <3> QED
            BY <3>1
    <2>2. \A piece \in AnyPiece : piece[2] \in few \union {0} => piece \in Pieces(few)
        BY DEF AnyPiece, Pieces, Newline, Temperature, Text, Key
    <2>3. ASSUME NEW wire \in Seq(AnyPiece), \A n \in Numbers(wire) : n \in few
          PROVE  wire \in Seq(Pieces(few))
        <3>1. \A i \in 1 .. Len(wire) : wire[i] \in Pieces(few)
            BY <2>2, <2>3, WireIs DEF Numbers
        <3> QED
            BY <3>1
    <2>4. ASSUME NEW wire \in Seq(AnyPiece), Unnumbered(wire) PROVE \A n \in Numbers(wire) : n \in few
        BY <2>4 DEF Unnumbered, Numbers
    <2>5. ASSUME NEW s \in Seq(Nat \ {0}), \A n \in ToSet(s) : n \in few PROVE s \in Seq(few)
        <3>1. \A i \in 1 .. Len(s) : s[i] \in few
            BY <2>5, WireIs
        <3> HIDE DEF few
        <3> QED
            BY <3>1
    <2> HIDE DEF few
    <2>6. {toBoard, fromBoard, output, rxQueue, line} \subseteq Seq(Pieces(few))
        BY <2>1, <2>3, <2>4, OutputTyped DEF IInv, Types, CommandsUnnumbered
    <2>7. keyPressed \in Seq(few) /\ decoded \in Seq(few)
        BY <2>1, <2>5 DEF IInv, Types
    <2>8. /\ presses \in 0 .. MaxPresses /\ Len(keyPressed) <= KeyQueueSize
          /\ Len(rxQueue) <= RxQueueSize /\ display \in {"none", "open", "closed"}
        <3>1. MaxPresses \in Nat
            BY BoardAssumption
        <3> QED
            BY <2>0, <3>1 DEF SystemTypes, BoardTypes
    <2>9. hit \subseteq 1 .. presses /\ unread \subseteq 1 .. presses
        BY DEF SystemTypes, BoardTypes, IInv, ReportsUnderstood
    <2>10. {toDaemon, toServer} \subseteq Seq(Statuses)
        BY DEF SystemTypes, DaemonTypes
    <2>11. greets \in BOOLEAN /\ written \in BOOLEAN
        BY Zenon DEF SystemTypes, DaemonTypes
    <2> QED
        BY <2>0, <2>6, <2>7, <2>8, <2>9, <2>10, <2>11 DEF TypeOK, SystemTypes, DaemonTypes, few
<1> QED
    BY <1>1, SystemInvariant, PTL

-----------------------------------------------------------------------------
(* Agreement.  What is on its way to the display is one stream of commands *)
(* with their newlines, from the line that fgets reads back to the daemon. *)
Commands == {Text("open"), Text("closed")}
Stream == (line \o rxQueue) \o toBoard

CommandsOf(wire, k) ==
    Len(wire) = 2 * k /\ \A i \in 1 .. k : wire[2 * i - 1] \in Commands /\ wire[2 * i] = Newline
Paired(wire) == \E k \in Nat : CommandsOf(wire, k)

(* What the display will say, and what status the server will have, when   *)
(* all that is under way has arrived.                                      *)
Told ==
    IF toDaemon # <<>> THEN CommandFor(Last(toDaemon))
    ELSE IF Stream # <<>> THEN Stream[Len(Stream) - 1][1] ELSE display
Settled == IF toServer # <<>> THEN Last(toServer) ELSE status

(* While nothing disturbs them, they are the same: statuses are under way  *)
(* in one direction at most.                                               *)
OnTheWay ==
    /\ link = "up"
    /\ toServer = <<>> \/ toDaemon = <<>>
    /\ Paired(Stream)
    /\ Told = CommandFor(Settled)

(* fgets stops at a newline.                                               *)
OneLine == \A i \in DOMAIN line : EndsLine(line[i]) => i = Len(line)

AgreementInv == OneLine /\ (trouble = {} => OnTheWay)

-----------------------------------------------------------------------------
(* When a step leaves no trouble, this is what it is not.                  *)
LEMMA Undisturbed ==
    ASSUME Noted, trouble' = {}
    PROVE  /\ trouble = {} \/ (Begins /\ Quiet)
           /\ ~Crosses
           /\ breaks' = breaks
           /\ link = "up" \/ (updates' = updates /\ decoded' = decoded)
           /\ ~(/\ toBoard' # toBoard /\ toBoard # <<>>
                /\ Len(toBoard') < Len(toBoard) /\ rxQueue' = rxQueue)
<1>1. Disturbances = {} /\ (trouble = {} \/ (Begins /\ Quiet))
    BY DEF Noted
<1>2. /\ "crossed" \notin Disturbances /\ "link" \notin Disturbances /\ "overflow" \notin Disturbances
    BY <1>1
<1>3. ~Crosses
    BY <1>2 DEF Disturbances
<1>4. breaks' = breaks /\ (link = "up" \/ (updates' = updates /\ decoded' = decoded))
    BY <1>2 DEF Disturbances
<1>5. ~(/\ toBoard' # toBoard /\ toBoard # <<>>
        /\ Len(toBoard') < Len(toBoard) /\ rxQueue' = rxQueue)
    BY <1>2 DEF Disturbances
<1> QED
    BY <1>1, <1>3, <1>4, <1>5

(* A piece moves on from one wire to the next.                             *)
LEMMA PieceMoves ==
    ASSUME NEW T, NEW s \in Seq(T), NEW u \in Seq(T), u # <<>>
    PROVE  /\ Append(s, Head(u)) \in Seq(T) /\ Tail(u) \in Seq(T)
           /\ Append(s, Head(u)) \o Tail(u) = s \o u
<1>1. Head(u) \in T /\ Tail(u) \in Seq(T) /\ <<Head(u)>> \in Seq(T)
    OBVIOUS
<1>2. Append(s, Head(u)) = s \o <<Head(u)>>
    BY <1>1, AppendIsConcat
<1>3. <<Head(u)>> \o Tail(u) = u
    BY <1>1
<1>4. (s \o <<Head(u)>>) \o Tail(u) = s \o (<<Head(u)>> \o Tail(u))
    BY <1>1, ConcatAssociative
<1> QED
    BY <1>1, <1>2, <1>3, <1>4

LEMMA StreamTyped ==
    ASSUME Types
    PROVE  /\ line \o rxQueue \in Seq(AnyPiece) /\ Stream \in Seq(AnyPiece)
           /\ line \in Seq(AnyPiece) /\ rxQueue \in Seq(AnyPiece) /\ toBoard \in Seq(AnyPiece)
<1>1. line \o rxQueue \in Seq(AnyPiece)
    BY DEF Types
<1> QED
    BY <1>1, ConcatWire DEF Types, Stream

LEMMA StreamReceived ==
    ASSUME Types, toBoard # <<>>, toBoard' = Tail(toBoard), line' = line,
           rxQueue' = Append(rxQueue, Head(toBoard))
    PROVE  Stream' = Stream
<1> DEFINE h == Head(toBoard)
           s == line \o rxQueue
<1>1. h \in AnyPiece /\ <<h>> \in Seq(AnyPiece)
    BY StreamTyped
<1> HIDE DEF h
<1>2. line \o Append(rxQueue, h) = line \o (rxQueue \o <<h>>)
    BY <1>1, StreamTyped, AppendIsConcat
<1>3. line \o (rxQueue \o <<h>>) = s \o <<h>>
    BY <1>1, StreamTyped, ConcatAssociative
<1>4. s \o <<h>> = Append(s, h)
    BY <1>1, StreamTyped, AppendIsConcat
<1>5. s \in Seq(AnyPiece)
    BY StreamTyped
<1> HIDE DEF s
<1>6. Append(s, h) \o Tail(toBoard) = s \o toBoard
    BY <1>5, StreamTyped, PieceMoves DEF h
<1> QED
    BY <1>2, <1>3, <1>4, <1>6 DEF Stream, h, s

LEMMA StreamRead ==
    ASSUME Types, rxQueue # <<>>, rxQueue' = Tail(rxQueue), toBoard' = toBoard,
           line' = Append(line, Head(rxQueue))
    PROVE  Stream' = Stream
<1>1. Append(line, Head(rxQueue)) \o Tail(rxQueue) = line \o rxQueue
    BY StreamTyped, PieceMoves
<1> QED
    BY <1>1 DEF Stream

LEMMA StreamSent ==
    ASSUME Types, UNCHANGED <<line, rxQueue>>, NEW command \in {"open", "closed"}, serialWrite(command)
    PROVE  /\ Stream' = Stream \o <<Text(command), Newline>>
           /\ <<Text(command), Newline>> \in Seq(AnyPiece)
<1>1. <<Text(command), Newline>> \in Seq(AnyPiece)
    <2>1. Text(command) \in AnyPiece /\ Newline \in AnyPiece
        BY DEF AnyPiece, Pieces
    <2> QED
        BY <2>1
<1> DEFINE pair == <<Text(command), Newline>>
           s == line \o rxQueue
<1>2. toBoard' = toBoard \o pair /\ s' = s /\ s \in Seq(AnyPiece) /\ pair \in Seq(AnyPiece)
    BY <1>1, StreamTyped DEF serialWrite
<1>3. Stream = s \o toBoard /\ Stream' = s' \o toBoard'
    BY DEF Stream
<1> HIDE DEF pair, s
<1>4. (s \o toBoard) \o pair = s \o (toBoard \o pair)
    <2>1. s \in Seq(AnyPiece) /\ toBoard \in Seq(AnyPiece) /\ pair \in Seq(AnyPiece)
        BY <1>2, StreamTyped
    <2> QED
        BY <2>1, ConcatAssociative
<1>5. Stream' = Stream \o pair
    BY <1>2, <1>3, <1>4
<1> QED
    BY <1>1, <1>5 DEF pair

(* The stream stays one of commands.                                       *)
LEMMA PairedSent ==
    ASSUME NEW wire \in Seq(AnyPiece), Paired(wire), NEW command \in {"open", "closed"},
           NEW sent, sent = wire \o <<Text(command), Newline>>
    PROVE  /\ Paired(sent)
           /\ sent # <<>> /\ sent[Len(sent) - 1][1] = command
<1> DEFINE pair == <<Text(command), Newline>>
<1>1. pair \in Seq(AnyPiece)
    <2>1. Text(command) \in AnyPiece /\ Newline \in AnyPiece
        BY DEF AnyPiece, Pieces
    <2> QED
        BY <2>1
<1>2. Len(pair) = 2 /\ pair[1] = Text(command) /\ pair[2] = Newline
    OBVIOUS
<1> HIDE DEF pair
<1>3. PICK k \in Nat : CommandsOf(wire, k)
    BY DEF Paired
<1>4. /\ sent = wire \o pair
      /\ Len(sent) = 2 * k + 2
      /\ \A i \in 1 .. 2 * k + 2 : sent[i] = IF i <= 2 * k THEN wire[i] ELSE pair[i - 2 * k]
    <2>1. sent = wire \o pair
        BY DEF pair
    <2>2. Len(wire) = 2 * k
        BY <1>3 DEF CommandsOf
    <2> QED
        BY <1>1, <1>2, <2>1, <2>2, ConcatWire
<1>5. sent[2 * k + 1] = Text(command) /\ sent[2 * k + 2] = Newline
    <2>1. /\ 2 * k + 1 \in 1 .. 2 * k + 2 /\ ~(2 * k + 1 <= 2 * k) /\ (2 * k + 1) - 2 * k = 1
          /\ 2 * k + 2 \in 1 .. 2 * k + 2 /\ ~(2 * k + 2 <= 2 * k) /\ (2 * k + 2) - 2 * k = 2
        OBVIOUS
    <2> QED
        BY <1>2, <1>4, <2>1
<1>6. Text(command) \in Commands /\ Text(command)[1] = command
    BY DEF Commands, Text
<1>7. CommandsOf(sent, k + 1)
    <2>1. ASSUME NEW i \in 1 .. k + 1 PROVE sent[2 * i - 1] \in Commands /\ sent[2 * i] = Newline
        <3>1. CASE i <= k
            <4>1. /\ 2 * i - 1 \in 1 .. 2 * k + 2 /\ 2 * i - 1 <= 2 * k /\ i \in 1 .. k
                  /\ 2 * i \in 1 .. 2 * k + 2 /\ 2 * i <= 2 * k
                BY <3>1
            <4>2. sent[2 * i - 1] = wire[2 * i - 1] /\ sent[2 * i] = wire[2 * i]
                BY <1>4, <4>1
            <4>3. wire[2 * i - 1] \in Commands /\ wire[2 * i] = Newline
                BY <1>3, <4>1 DEF CommandsOf
            <4> QED
                BY <4>2, <4>3
        <3>2. ASSUME ~(i <= k) PROVE 2 * i - 1 = 2 * k + 1 /\ 2 * i = 2 * k + 2
            BY <3>2
        <3>3. CASE ~(i <= k)
            BY <1>5, <1>6, <3>2, <3>3, Zenon
        <3> QED
            BY <3>1, <3>3
    <2> QED
        BY <1>4, <2>1 DEF CommandsOf
<1>8. sent[Len(sent) - 1][1] = command
    <2>1. Len(sent) - 1 = 2 * k + 1
        BY <1>4
    <2> QED
        BY <1>5, <1>6, <2>1
<1>9. sent # <<>>
    <2>1. Len(sent) # 0
        BY <1>4
    <2> QED
        BY <2>1
<1> QED
    BY <1>7, <1>8, <1>9 DEF Paired

(* A line is one command.                                                  *)
LEMMA PairedDrop ==
    ASSUME NEW first \in Seq(AnyPiece), NEW rest \in Seq(AnyPiece), Paired(first \o rest),
           first # <<>>, first[Len(first)] = Newline,
           \A i \in DOMAIN first : first[i] = Newline => i = Len(first)
    PROVE  /\ Paired(rest)
           /\ Len(first) = 2 /\ first[2] = Newline
           /\ \E command \in {"open", "closed"} :
                /\ first[1] = Text(command)
                /\ rest = <<>> => (first \o rest)[Len(first \o rest) - 1] = Text(command)
           /\ rest # <<>> => (first \o rest)[Len(first \o rest) - 1] = rest[Len(rest) - 1]
<1> DEFINE wire == first \o rest
<1>1. PICK k \in Nat : CommandsOf(wire, k)
    BY DEF Paired
<1>2. /\ Len(wire) = Len(first) + Len(rest)
      /\ \A i \in 1 .. Len(wire) : wire[i] = IF i <= Len(first) THEN first[i] ELSE rest[i - Len(first)]
    BY ConcatWire
<1>3. Len(first) \in Nat /\ Len(rest) \in Nat /\ Len(first) >= 1 /\ DOMAIN first = 1 .. Len(first)
    OBVIOUS
<1> HIDE DEF wire
<1>4. Len(wire) = 2 * k /\ \A i \in 1 .. k : wire[2 * i - 1] \in Commands /\ wire[2 * i] = Newline
    BY <1>1 DEF CommandsOf
<1>5. k >= 1 /\ Len(wire) >= 2
    BY <1>2, <1>3, <1>4
<1>6. wire[1] \in Commands /\ wire[2] = Newline
    <2>1. 1 \in 1 .. k /\ 2 * 1 - 1 = 1 /\ 2 * 1 = 2
        BY <1>5
    <2> QED
        BY <1>4, <2>1
<1>7. first[1] = wire[1]
    <2>1. 1 \in 1 .. Len(wire) /\ 1 <= Len(first)
        BY <1>3, <1>5
    <2> QED
        BY <1>2, <2>1
<1>8. Len(first) = 2 /\ first[2] = Newline
    <2>1. Newline \notin Commands
        BY DEF Commands, Newline, Text
    <2>2. Len(first) # 1
        BY <1>6, <1>7, <2>1
    <2>3. 2 \in 1 .. Len(wire) /\ 2 <= Len(first) /\ 2 \in DOMAIN first
        BY <1>3, <1>5, <2>2
    <2>4. first[2] = Newline
        BY <1>2, <1>6, <2>3
    <2> QED
        BY <2>3, <2>4
<1>9. \A i \in 1 .. Len(rest) : i + 2 \in 1 .. Len(wire) /\ rest[i] = wire[i + 2]
    <2>1. SUFFICES ASSUME NEW i \in 1 .. Len(rest) PROVE i + 2 \in 1 .. Len(wire) /\ rest[i] = wire[i + 2]
        OBVIOUS
    <2>2. i + 2 \in 1 .. Len(wire) /\ ~(i + 2 <= Len(first)) /\ (i + 2) - Len(first) = i
        BY <1>2, <1>3, <1>8
    <2> QED
        BY <1>2, <2>2
<1>10. Paired(rest)
    <2>1. k - 1 \in Nat /\ Len(rest) = 2 * (k - 1)
        BY <1>2, <1>3, <1>4, <1>5, <1>8
    <2>2. ASSUME NEW i \in 1 .. k - 1 PROVE rest[2 * i - 1] \in Commands /\ rest[2 * i] = Newline
        <3>1. /\ 2 * i - 1 \in 1 .. Len(rest) /\ 2 * i \in 1 .. Len(rest) /\ i + 1 \in 1 .. k
              /\ (2 * i - 1) + 2 = 2 * (i + 1) - 1 /\ 2 * i + 2 = 2 * (i + 1)
            BY <2>1
        <3>2. wire[2 * (i + 1) - 1] \in Commands /\ wire[2 * (i + 1)] = Newline
            BY <1>4, <3>1, Zenon
        <3>3. rest[2 * i - 1] = wire[(2 * i - 1) + 2] /\ rest[2 * i] = wire[2 * i + 2]
            BY <1>9, <3>1, Zenon
        <3> QED
            BY <3>1, <3>2, <3>3, Zenon
    <2> QED
        BY <2>1, <2>2, Zenon DEF Paired, CommandsOf
<1>11. PICK command \in {"open", "closed"} : first[1] = Text(command)
    BY <1>6, <1>7 DEF Commands
<1>12. rest = <<>> => wire[Len(wire) - 1] = Text(command)
    <2>1. SUFFICES ASSUME rest = <<>> PROVE wire[Len(wire) - 1] = Text(command)
        OBVIOUS
    <2>2. Len(wire) - 1 = 1
        BY <1>2, <1>8, <2>1
    <2> QED
        BY <1>7, <1>11, <2>2
<1>13. rest # <<>> => wire[Len(wire) - 1] = rest[Len(rest) - 1]
    <2>1. SUFFICES ASSUME rest # <<>> PROVE wire[Len(wire) - 1] = rest[Len(rest) - 1]
        OBVIOUS
    <2>2. PICK j \in Nat : Len(rest) = 2 * j
        BY <1>10 DEF Paired, CommandsOf
    <2>3. Len(rest) # 0
        BY <2>1
    <2>4. Len(rest) - 1 \in 1 .. Len(rest) /\ (Len(rest) - 1) + 2 = Len(wire) - 1
        BY <1>2, <1>3, <1>8, <2>2, <2>3
    <2> QED
        BY <1>9, <2>4
<1> QED
    BY <1>8, <1>10, <1>11, <1>12, <1>13 DEF wire

-----------------------------------------------------------------------------
LEMMA LastIs ==
    ASSUME NEW T, NEW s \in Seq(T)
    PROVE  /\ \A x \in T : Append(s, x) # <<>> /\ Last(Append(s, x)) = x
           /\ \A x \in T : s \o <<x>> # <<>> /\ Last(s \o <<x>>) = x
           /\ s # <<>> => Head(s) \in T /\ Last(s) = IF Tail(s) # <<>> THEN Last(Tail(s)) ELSE Head(s)
<1>1. ASSUME NEW x \in T PROVE Append(s, x) # <<>> /\ Last(Append(s, x)) = x /\ s \o <<x>> = Append(s, x)
    <2>1. Len(Append(s, x)) = Len(s) + 1 /\ Append(s, x)[Len(s) + 1] = x /\ Len(s) \in Nat
        OBVIOUS
    <2>2. Append(s, x) # <<>>
        <3>1. Append(s, x) \in Seq(T) /\ Len(Append(s, x)) # 0
            BY <2>1
        <3> QED
            BY <3>1, EmptySeq
    <2>3. s \o <<x>> = Append(s, x)
        BY AppendIsConcat
    <2> QED
        BY <2>1, <2>2, <2>3 DEF Last
<1>2. ASSUME s # <<>> PROVE Head(s) \in T /\ Last(s) = IF Tail(s) # <<>> THEN Last(Tail(s)) ELSE Head(s)
    <2>1. /\ Head(s) = s[1] /\ Head(s) \in T /\ Tail(s) \in Seq(T)
          /\ Len(Tail(s)) = Len(s) - 1 /\ Len(s) \in Nat /\ Len(s) # 0
          /\ \A i \in 1 .. Len(s) - 1 : Tail(s)[i] = s[i + 1]
        BY <1>2
    <2>2. CASE Len(s) = 1
        <3>1. Tail(s) = <<>>
            <4>1. Len(Tail(s)) = 0
                BY <2>1, <2>2
            <4> QED
                BY <2>1, <4>1, EmptySeq
        <3> QED
            BY <2>1, <2>2, <3>1 DEF Last
    <2>3. CASE Len(s) # 1
        <3>1. Tail(s) # <<>> /\ Len(s) - 1 \in 1 .. Len(s) - 1 /\ (Len(s) - 1) + 1 = Len(s)
            <4>1. Len(s) - 1 \in 1 .. Len(s) - 1 /\ (Len(s) - 1) + 1 = Len(s) /\ Len(Tail(s)) # 0
                BY <2>1, <2>3
            <4> QED
                BY <2>1, <4>1, EmptySeq
        <3>2. Tail(s)[Len(Tail(s))] = s[Len(s)]
            BY <2>1, <3>1
        <3> QED
            BY <2>1, <3>1, <3>2 DEF Last
    <2> QED
        BY <2>2, <2>3
<1> QED
    BY <1>1, <1>2

(* Nothing is under way.                                                   *)
LEMMA NothingUnderWay ==
    ASSUME Types, Quiet
    PROVE  /\ toDaemon = <<>> /\ toServer = <<>>
           /\ Stream = <<>> /\ Paired(Stream)
<1>1. /\ toDaemon = <<>> /\ toServer = <<>> /\ toBoard = <<>> /\ rxQueue = <<>> /\ line = <<>>
    BY DEF Quiet
<1>2. Stream = <<>>
    BY <1>1 DEF Stream
<1>3. CommandsOf(Stream, 0)
    BY <1>2 DEF CommandsOf
<1> QED
    BY <1>1, <1>2, <1>3 DEF Paired

LEMMA Unmoved ==
    ASSUME OnTheWay, Stream' = Stream, UNCHANGED <<toDaemon, toServer, status, link, display>>
    PROVE  OnTheWay'
<1>1. Told' = Told
    BY DEF Told
<1>2. Settled' = Settled
    BY DEF Settled
<1>3. Paired(Stream)'
    BY DEF OnTheWay, Paired, CommandsOf
<1> QED
    BY <1>1, <1>2, <1>3 DEF OnTheWay

(* The status that is the last on its way, to the display and to the       *)
(* server, or only to the display.                                         *)
LEMMA NowToldTo ==
    ASSUME Types, SystemTypes, Paired(Stream), NEW s \in Statuses,
           link' = "up", toServer' = <<>> \/ toDaemon' = <<>>, Settled' = s,
           \/ Stream' = Stream /\ toDaemon' # <<>> /\ Last(toDaemon') = s
           \/ UNCHANGED <<line, rxQueue>> /\ serialWrite(CommandFor(s)) /\ toDaemon' = <<>>
    PROVE  OnTheWay'
<1>1. CASE Stream' = Stream /\ toDaemon' # <<>> /\ Last(toDaemon') = s
    <2>1. Told' = CommandFor(s)
        BY <1>1 DEF Told
    <2>2. Paired(Stream)'
        BY <1>1 DEF Paired, CommandsOf
    <2>3. CommandFor(Settled)' = CommandFor(s)
        BY DEF CommandFor
    <2> QED
        BY <2>1, <2>2, <2>3 DEF OnTheWay
<1>2. CASE UNCHANGED <<line, rxQueue>> /\ serialWrite(CommandFor(s)) /\ toDaemon' = <<>>
    <2>1. CommandFor(s) \in {"open", "closed"}
        BY DEF CommandFor
    <2>2. /\ Stream' = Stream \o <<Text(CommandFor(s)), Newline>>
          /\ Stream \in Seq(AnyPiece)
        BY <1>2, <2>1, StreamSent, StreamTyped
    <2>3. Paired(Stream') /\ Stream' # <<>> /\ Stream'[Len(Stream') - 1][1] = CommandFor(s)
        BY <2>1, <2>2, PairedSent
    <2>4. Told' = CommandFor(s)
        BY <1>2, <2>3 DEF Told
    <2>5. CommandFor(Settled)' = CommandFor(s)
        BY DEF CommandFor
    <2>6. Paired(Stream)'
        BY <2>3 DEF Paired, CommandsOf
    <2> QED
        BY <2>4, <2>5, <2>6 DEF OnTheWay
<1> QED
    BY <1>1, <1>2

(* The board.                                                              *)
LEMMA BoardAgreement ==
    ASSUME Types, SystemTypes, AgreementInv, Noted, trouble' = {}, UNCHANGED daemonVars,
           keybThread \/ getKey \/ printKey \/ tempThread \/ write \/ serialIrqImpl \/ fgets \/ obey
    PROVE  OnTheWay'
<1>1. /\ UNCHANGED <<toDaemon, toServer, status, link, updates, decoded>>
      /\ \/ trouble = {}
         \/ Begins /\ Quiet
      /\ ~(/\ toBoard' # toBoard /\ toBoard # <<>>
           /\ Len(toBoard') < Len(toBoard) /\ rxQueue' = rxQueue)
    BY Undisturbed DEF daemonVars
<1>2. OnTheWay
    BY <1>1 DEF Begins, Quiet, AgreementInv
<1>3. CASE keybThread \/ getKey \/ printKey \/ tempThread \/ write
    <2>1. UNCHANGED <<toBoard, rxQueue, line, display>>
        BY <1>3 DEF keybThread, getKey, printKey, tempThread, write, commandVars
    <2> QED
        BY <1>1, <1>2, <2>1, Unmoved DEF Stream
<1>4. CASE serialIrqImpl
    <2>1. /\ toBoard # <<>> /\ toBoard' = Tail(toBoard) /\ UNCHANGED <<line, display>>
          /\ rxQueue' = IF Len(rxQueue) < RxQueueSize THEN Append(rxQueue, Head(toBoard)) ELSE rxQueue
        BY <1>4 DEF serialIrqImpl
    <2>2. Len(toBoard') < Len(toBoard) /\ toBoard' # toBoard
        <3>1. toBoard \in Seq(AnyPiece)
            BY StreamTyped
        <3>2. Len(Tail(toBoard)) = Len(toBoard) - 1 /\ Len(toBoard) \in Nat
            BY <2>1, <3>1
        <3>3. Len(toBoard') < Len(toBoard)
            BY <2>1, <3>2
        <3>4. Len(toBoard') # Len(toBoard)
            <4>1. Len(Tail(toBoard)) # Len(toBoard)
                BY <3>2
            <4> QED
                BY <2>1, <4>1
        <3> QED
            BY <3>3, <3>4
    <2>3. rxQueue' = Append(rxQueue, Head(toBoard))
        BY <1>1, <2>1, <2>2
    <2> QED
        BY <1>1, <1>2, <2>1, <2>3, StreamReceived, Unmoved
<1>5. CASE fgets
    <2>1. /\ rxQueue # <<>> /\ rxQueue' = Tail(rxQueue) /\ UNCHANGED <<toBoard, display>>
          /\ line' = Append(line, Head(rxQueue))
        BY <1>5 DEF fgets
    <2> QED
        BY <1>1, <1>2, <2>1, StreamRead, Unmoved
<1>6. CASE obey
    <2> DEFINE rest == rxQueue \o toBoard
    <2>1. /\ line # <<>> /\ line[Len(line)] = Newline
          /\ line' = <<>> /\ UNCHANGED <<toBoard, rxQueue>>
          /\ display' = IF Obeys(SubSeq(line, 1, Len(line) - 1), "open") THEN "open"
                        ELSE IF Obeys(SubSeq(line, 1, Len(line) - 1), "closed") THEN "closed" ELSE display
        BY <1>6 DEF obey, LineComplete, EndsLine, Last
    <2>2. \A i \in DOMAIN line : line[i] = Newline => i = Len(line)
        BY DEF AgreementInv, OneLine, EndsLine
    <2>3. line \in Seq(AnyPiece) /\ rest \in Seq(AnyPiece)
        BY StreamTyped, ConcatWire
    <2>4. Stream = line \o rest
        BY StreamTyped, ConcatAssociative DEF Stream
    <2>5. Stream' = rest
        <3>1. Stream' = (<<>> \o rxQueue) \o toBoard
            BY <2>1 DEF Stream
        <3>2. <<>> \o rxQueue = rxQueue
            BY StreamTyped
        <3> QED
            BY <3>1, <3>2
    <2>6. Paired(line \o rest)
        BY <1>2, <2>4 DEF OnTheWay
    <2> HIDE DEF rest
    <2>7. /\ Paired(rest)
          /\ Len(line) = 2 /\ line[2] = Newline
          /\ \E command \in {"open", "closed"} :
               /\ line[1] = Text(command)
               /\ rest = <<>> => (line \o rest)[Len(line \o rest) - 1] = Text(command)
          /\ rest # <<>> => (line \o rest)[Len(line \o rest) - 1] = rest[Len(rest) - 1]
        BY <2>1, <2>2, <2>3, <2>6, PairedDrop
    <2>8. PICK command \in {"open", "closed"} :
             /\ line[1] = Text(command)
             /\ rest = <<>> => Stream[Len(Stream) - 1] = Text(command)
        BY <2>4, <2>7
    <2>9. display' = command
        <3>1. SubSeq(line, 1, Len(line) - 1) = <<Text(command)>>
            <4>1. Len(line) - 1 = 1 /\ line \in Seq(AnyPiece) /\ Len(line) = 2
                BY <2>3, <2>7
            <4>2. SubSeq(line, 1, 1) = <<line[1]>>
                <5> DEFINE first == SubSeq(line, 1, 1)
                           one == <<line[1]>>
                <5>1. line[1] \in AnyPiece /\ \A i \in 1 .. 1 : line[i] \in AnyPiece
                    BY <4>1
                <5>2. first \in Seq(AnyPiece) /\ Len(first) = 1 /\ first[1] = line[1]
                    BY <5>1, SubSeqProperties
                <5>3. one \in Seq(AnyPiece) /\ Len(one) = 1 /\ one[1] = line[1]
                    BY <5>1
                <5> HIDE DEF first, one
                <5>4. \A i \in 1 .. Len(first) : first[i] = one[i]
                    BY <5>2, <5>3
                <5>5. first = one
                    BY <5>2, <5>3, <5>4, SeqEqual
                <5> QED
                    BY <5>5 DEF first, one
            <4> QED
                BY <2>8, <4>1, <4>2
        <3>2. <<Text(command)>> = <<Text("open")>> <=> command = "open"
            BY DEF Text
        <3>3. <<Text(command)>> = <<Text("closed")>> <=> command = "closed"
            BY DEF Text
        <3> QED
            BY <2>1, <3>1, <3>2, <3>3 DEF Obeys
    <2>10. Stream # <<>>
        <3>1. Len(Stream) = Len(line) + Len(rest) /\ Len(rest) \in Nat
            BY <2>3, <2>4, ConcatWire
        <3>2. Len(Stream) # 0
            BY <2>7, <3>1
        <3> QED
            BY <3>2
    <2>11. Told' = Told
        <3>1. Text(command)[1] = command
            BY DEF Text
        <3> QED
            BY <1>1, <2>4, <2>5, <2>7, <2>8, <2>9, <2>10, <3>1 DEF Told
    <2>12. Settled' = Settled
        BY <1>1 DEF Settled
    <2>13. Paired(Stream)'
        BY <2>5, <2>7 DEF Paired, CommandsOf
    <2> QED
        BY <1>1, <1>2, <2>11, <2>12, <2>13 DEF OnTheWay
<1> QED
    BY <1>3, <1>4, <1>5, <1>6

(* The daemon, the server and the network.                                 *)
LEMMA DaemonAgreement ==
    ASSUME Types, SystemTypes, AgreementInv, Noted, trouble' = {}, UNCHANGED boardVars,
           \/ connect \/ cannotConnect \/ disconnected \/ socketRead \/ serialRead
           \/ portClosed \/ serverUpdate \/ serverReceives \/ linkBreaks
    PROVE  OnTheWay'
<1>1. UNCHANGED <<rxQueue, line, display>>
    BY DEF boardVars
<1>2. /\ \/ trouble = {}
         \/ Begins /\ Quiet
      /\ ~Crosses
      /\ breaks' = breaks
      /\ link = "up" \/ (updates' = updates /\ decoded' = decoded)
    BY Undisturbed
<1>3. OnTheWay \/ (Begins /\ Quiet)
    BY <1>2 DEF AgreementInv
<1>4. Paired(Stream)
    BY <1>3, NothingUnderWay DEF OnTheWay
<1>5. /\ toDaemon \in Seq(Statuses) /\ toServer \in Seq(Statuses) /\ status \in Statuses
      /\ decoded \in Seq(Nat \ {0}) /\ updates \in Nat
    BY DEF SystemTypes, DaemonTypes, Types
<1>6. CASE connect
    <2>1. /\ link # "up" /\ link' = "up" /\ UNCHANGED <<toBoard, toServer, status, updates, decoded>>
          /\ toDaemon' = IF greets THEN <<status>> ELSE <<>>
        BY <1>6 DEF connect, Connected, wires
    <2>2. Quiet /\ toDaemon' # <<>>
        BY <1>3, <2>1 DEF OnTheWay, Begins
    <2>3. toDaemon' = <<status>> /\ toServer' = <<>>
        BY <2>1, <2>2 DEF Quiet
    <2>4. Last(toDaemon') = status
        BY <2>3 DEF Last
    <2>5. Settled' = status
        BY <2>1, <2>3 DEF Settled
    <2>6. Stream' = Stream
        BY <1>1, <2>1 DEF Stream
    <2> QED
        BY <1>4, <1>5, <2>1, <2>2, <2>3, <2>4, <2>5, <2>6, NowToldTo
<1>7. CASE cannotConnect
    BY <1>3, <1>7 DEF cannotConnect, Connected, OnTheWay, Begins, Quiet
<1>8. CASE disconnected
    BY <1>3, <1>8 DEF disconnected, Notices, OnTheWay, Begins
<1>9. CASE socketRead
    <2>1. /\ toDaemon # <<>> /\ toDaemon' = Tail(toDaemon)
          /\ serialWrite(CommandFor(Head(toDaemon)))
          /\ UNCHANGED <<link, toServer, status>>
        BY <1>9 DEF socketRead
    <2>2. OnTheWay
        BY <1>3, <2>1 DEF Quiet
    <2>3. toServer = <<>> /\ link = "up"
        BY <2>1, <2>2 DEF OnTheWay
    <2>4. /\ Head(toDaemon) \in Statuses
          /\ Last(toDaemon) = IF Tail(toDaemon) # <<>> THEN Last(Tail(toDaemon)) ELSE Head(toDaemon)
        BY <1>5, <2>1, LastIs
    <2> DEFINE command == CommandFor(Head(toDaemon))
    <2>5. command \in {"open", "closed"}
        BY DEF CommandFor
    <2>6. /\ Stream' = Stream \o <<Text(command), Newline>>
          /\ Stream \in Seq(AnyPiece)
        BY <1>1, <2>1, <2>5, StreamSent, StreamTyped
    <2> HIDE DEF command
    <2>7. Paired(Stream') /\ Stream' # <<>> /\ Stream'[Len(Stream') - 1][1] = command
        BY <1>4, <2>5, <2>6, PairedSent
    <2>8. Told' = CommandFor(Last(toDaemon))
        <3>1. CASE Tail(toDaemon) # <<>>
            BY <2>1, <2>4, <3>1 DEF Told, CommandFor
        <3>2. CASE Tail(toDaemon) = <<>>
            BY <2>1, <2>4, <2>7, <3>2 DEF Told, command
        <3> QED
            BY <3>1, <3>2
    <2>9. Told' = Told
        BY <2>1, <2>8 DEF Told
    <2>10. Settled' = Settled
        BY <2>1 DEF Settled
    <2>11. Paired(Stream)'
        BY <2>7 DEF Paired, CommandsOf
    <2> QED
        BY <2>1, <2>2, <2>3, <2>9, <2>10, <2>11 DEF OnTheWay
<1>10. CASE serialRead
    <2>1. UNCHANGED <<link, toDaemon, status, updates>> /\ Connected
        BY <1>10 DEF serialRead
    <2>2. CASE \E letter \in {"A", "C"} :
                   /\ serialWrite(CommandFor(StatusFor(letter)))
                   /\ tcpWrite(<<StatusFor(letter)>>)
                   /\ decoded' = Append(decoded, Head(Message)[2])
        <3>1. PICK letter \in {"A", "C"} :
                   /\ serialWrite(CommandFor(StatusFor(letter)))
                   /\ tcpWrite(<<StatusFor(letter)>>)
                   /\ decoded' = Append(decoded, Head(Message)[2])
            BY <2>2
        <3> DEFINE s == StatusFor(letter)
        <3>2. s \in Statuses
            BY DEF StatusFor, Statuses
        <3>3. decoded' # decoded
            <4>1. Len(decoded') = Len(decoded) + 1 /\ Len(decoded) \in Nat
                BY <1>5, <3>1
            <4>2. Len(decoded') # Len(decoded)
                BY <4>1
            <4> QED
                BY <4>2
        <3>4. toDaemon = <<>> /\ link = "up"
            BY <1>2, <3>3 DEF Crosses
        <3> HIDE DEF s
        <3>5. toServer' = toServer \o <<s>>
            BY <3>1, <3>4 DEF tcpWrite, s
        <3>6. Settled' = s
            BY <1>5, <3>2, <3>5, LastIs DEF Settled
        <3>7. serialWrite(CommandFor(s))
            BY <3>1 DEF s
        <3> QED
            BY <1>1, <1>4, <2>1, <3>2, <3>4, <3>6, <3>7, NowToldTo
    <2>3. CASE UNCHANGED <<toBoard, decoded>> /\ (tcpWrite(<<>>) \/ UNCHANGED toServer)
        <3>1. toServer' = toServer
            <4>1. toServer \o <<>> = toServer
                BY <1>5
            <4> QED
                BY <2>3, <4>1 DEF tcpWrite
        <3>2. OnTheWay
            BY <1>3, <2>1, <2>3 DEF Begins, Quiet
        <3>3. Stream' = Stream
            BY <1>1, <2>3 DEF Stream
        <3> QED
            BY <1>1, <2>1, <3>1, <3>2, <3>3, Unmoved
    <2> QED
        BY <1>10, <2>2, <2>3 DEF serialRead
<1>11. CASE portClosed
    <2>1. UNCHANGED <<toBoard, toDaemon, toServer, status, link, updates, decoded>>
        BY <1>11 DEF portClosed, daemonVars
    <2>2. OnTheWay
        BY <1>3, <2>1 DEF Begins, Quiet
    <2> QED
        BY <1>1, <2>1, <2>2, Unmoved DEF Stream
<1>12. CASE serverUpdate
    <2>1. PICK s \in Statuses \ {status} :
              /\ status' = s
              /\ toDaemon' = IF link = "up" THEN Append(toDaemon, s) ELSE toDaemon
        BY <1>12 DEF serverUpdate
    <2>2. updates' # updates /\ UNCHANGED <<toBoard, link, toServer>>
        BY <1>5, <1>12 DEF serverUpdate, wires
    <2>3. link = "up" /\ toServer = <<>>
        BY <1>2, <2>2 DEF Crosses
    <2>4. toDaemon' = Append(toDaemon, s) /\ toDaemon' # <<>> /\ Last(toDaemon') = s
        BY <1>5, <2>1, <2>3, LastIs
    <2>5. Settled' = s
        BY <2>1, <2>2, <2>3 DEF Settled
    <2>6. Stream' = Stream
        BY <1>1, <2>2 DEF Stream
    <2> QED
        BY <1>4, <2>2, <2>3, <2>4, <2>5, <2>6, NowToldTo
<1>13. CASE serverReceives
    <2>1. /\ toServer # <<>> /\ status' = Head(toServer) /\ toServer' = Tail(toServer)
          /\ UNCHANGED <<toBoard, link, toDaemon, updates, decoded>>
        BY <1>13 DEF serverReceives, wires
    <2>2. OnTheWay
        BY <1>3, <2>1 DEF Quiet
    <2>3. toDaemon = <<>> /\ link = "up"
        BY <2>1, <2>2 DEF OnTheWay
    <2>4. Last(toServer) = IF Tail(toServer) # <<>> THEN Last(Tail(toServer)) ELSE Head(toServer)
        BY <1>5, <2>1, LastIs
    <2>5. Settled' = Settled
        BY <2>1, <2>4 DEF Settled
    <2>6. Stream' = Stream
        BY <1>1, <2>1 DEF Stream
    <2>7. Told' = Told
        BY <1>1, <2>1, <2>6 DEF Told
    <2>8. Paired(Stream)'
        BY <2>2, <2>6 DEF OnTheWay, Paired, CommandsOf
    <2> QED
        BY <2>1, <2>2, <2>3, <2>5, <2>7, <2>8 DEF OnTheWay
<1>14. CASE linkBreaks
    <2>1. breaks \in Nat /\ breaks' = breaks + 1
        BY <1>14 DEF linkBreaks, SystemTypes, DaemonTypes
    <2> QED
        BY <1>2, <2>1
<1> QED
    BY <1>6, <1>7, <1>8, <1>9, <1>10, <1>11, <1>12, <1>13, <1>14

LEMMA NextOneLine ==
    ASSUME Types, OneLine, Next
    PROVE  OneLine'
<1>1. CASE UNCHANGED line
    BY <1>1 DEF OneLine, EndsLine
<1>2. CASE fgets
    <2>1. line' = Append(line, Head(rxQueue)) /\ ~LineComplete /\ rxQueue # <<>>
        BY <1>2 DEF fgets
    <2>2. line \in Seq(AnyPiece) /\ Head(rxQueue) \in AnyPiece
        BY <2>1, StreamTyped
    <2>3. SUFFICES ASSUME NEW i \in DOMAIN line', EndsLine(line'[i]) PROVE i = Len(line')
        BY DEF OneLine, EndsLine
    <2>4. /\ i \in 1 .. Len(line) + 1 /\ Len(line') = Len(line) + 1 /\ Len(line) \in Nat
          /\ DOMAIN line = 1 .. Len(line)
          /\ \A j \in DOMAIN line : line'[j] = line[j]
        BY <2>1, <2>2, <2>3, AppendWire
    <2>5. ASSUME i \in DOMAIN line PROVE FALSE
        <3>1. EndsLine(line[i]) /\ i = Len(line)
            BY <2>3, <2>4, <2>5 DEF OneLine
        <3>2. line # <<>>
            BY <2>5
        <3> QED
            BY <2>1, <3>1, <3>2 DEF LineComplete, Last
    <2> QED
        BY <2>4, <2>5
<1>3. CASE line' = <<>>
    BY <1>3 DEF OneLine
<1>4. UNCHANGED line \/ fgets \/ line' = <<>>
    BY DEF Next, OnBoard, OnDaemon, keybThread, getKey, printKey, tempThread, write, serialIrqImpl,
           obey, commandVars, boardVars
<1> QED
    BY <1>1, <1>2, <1>3, <1>4

LEMMA NextAgreement ==
    ASSUME Types, SystemTypes, AgreementInv, [Next]_vars
    PROVE  AgreementInv'
<1>1. CASE UNCHANGED vars
    <2>1. /\ UNCHANGED <<toBoard, rxQueue, line, display, trouble>>
          /\ UNCHANGED <<toDaemon, toServer, status, link>>
        BY <1>1 DEF vars, wires, boardVars, daemonVars
    <2>2. OneLine'
        BY <2>1 DEF AgreementInv, OneLine, EndsLine
    <2>3. trouble' = {} => OnTheWay'
        BY <2>1, Unmoved DEF AgreementInv, Stream
    <2> QED
        BY <2>2, <2>3 DEF AgreementInv
<1>2. CASE Next
    <2>1. OneLine'
        BY <1>2, NextOneLine DEF AgreementInv
    <2>2. ASSUME trouble' = {} PROVE OnTheWay'
        <3>1. CASE /\ Noted /\ UNCHANGED daemonVars
                   /\ \/ keybThread \/ getKey \/ printKey \/ tempThread
                      \/ write \/ serialIrqImpl \/ fgets \/ obey
            BY <2>2, <3>1, BoardAgreement
        <3>2. CASE /\ Noted /\ UNCHANGED boardVars
                   /\ \/ connect \/ cannotConnect \/ disconnected \/ socketRead \/ serialRead
                      \/ portClosed \/ serverUpdate \/ serverReceives \/ linkBreaks
            BY <2>2, <3>2, DaemonAgreement
        <3> QED
            BY <1>2, <3>1, <3>2 DEF Next, OnBoard, OnDaemon
    <2> QED
        BY <2>1, <2>2 DEF AgreementInv
<1> QED
    BY <1>1, <1>2

(* When the last change of status has reached everyone, the display says   *)
(* what the server says, unless the changes crossed, the connection broke  *)
(* or the board lost characters: whatever the number of changes, presses   *)
(* and breaks, the sizes of the queues and the moment each message takes.  *)
THEOREM BoardAndServerAgree == Spec => []Agreement
<1>1. Init => AgreementInv
    BY DEF Init, BoardInit, AgreementInv, OneLine
<1>2. IInv /\ SystemTypes /\ AgreementInv /\ [Next]_vars => AgreementInv'
    BY NextAgreement DEF IInv
<1>3. Types /\ AgreementInv => Agreement
    <2>1. SUFFICES ASSUME Types, AgreementInv, Quiet, trouble = {}
                   PROVE  display = (IF status = "1" THEN "open" ELSE "closed")
        BY DEF Agreement
    <2>2. Told = CommandFor(Settled)
        BY <2>1 DEF AgreementInv, OnTheWay
    <2>3. Told = display /\ Settled = status
        BY <2>1, NothingUnderWay DEF Told, Settled
    <2> QED
        BY <2>2, <2>3 DEF CommandFor
<1>4. IInv => Types
    BY DEF IInv
<1> QED
    BY <1>1, <1>2, <1>3, <1>4, SystemInvariant, PTL DEF Spec

=============================================================================
