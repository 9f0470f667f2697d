--------------------------- MODULE KConsoleProofs ---------------------------
(***************************************************************************)
(* Proofs about the kernel's console side: the keyboard ring and the line  *)
(* editor, for every size of the ring, the line and the history and every  *)
(* set of keys; the text screen and the message ring, for every size of    *)
(* them; and the shell's paths and text filters, for every set of paths    *)
(* and command lines.                                                      *)
(***************************************************************************)
EXTENDS MCKernelIo, SequenceTheorems, FiniteSetTheorems, WellFoundedInduction, TLAPS

KeyCodes == Keys \cup ExtendedKeys

(* The place k codes behind place h of the ring. *)
PlaceOf(h, k) == IF h + k < RING THEN h + k ELSE h + k - RING

(***************************************************************************)
(* RingIsQueue with the wrapping written out; the codes are keys.          *)
(***************************************************************************)
QueueInv ==
  /\ scancode_head \in Index /\ scancode_tail \in Index
  /\ DOMAIN scancode_buffer = Index
  /\ queue \in Seq(KeyCodes) /\ overrun \in BOOLEAN
  /\ ~overrun =>
       /\ Len(queue) < RING
       /\ scancode_tail = PlaceOf(scancode_head, Len(queue))
       /\ \A i \in 1 .. Len(queue) : scancode_buffer[PlaceOf(scancode_head, i - 1)] = queue[i]
       /\ sc # -1 => queue # <<>> /\ sc = queue[1]

(***************************************************************************)
(* CursorInLine is not inductive: Up puts an entry of the history into the *)
(* line, so an entry must fit and contain no zero.                         *)
(***************************************************************************)
Text == {s \in Seq(Int \ {NUL}) : Len(s) <= LINE_MAX}
LineInv ==
  /\ line_buffer \in [0 .. LINE_MAX -> Int]
  /\ line_pos \in 0 .. LINE_MAX
  /\ \A n \in 0 .. line_pos - 1 : line_buffer[n] # NUL
  /\ \E n \in 0 .. LINE_MAX : line_buffer[n] = NUL
  /\ history_buf \in [0 .. HISTORY_SIZE - 1 -> Text]

(* The history counts the commands, and the index is one of them or the    *)
(* place after the newest.                                                 *)
HistoryInv ==
  /\ history_len \in Nat /\ history_idx \in 0 .. history_len
  /\ commands \in Seq(Text) /\ Len(commands) = history_len
  /\ HistoryNewest

ConsoleInv == QueueInv /\ LineInv /\ HistoryInv

-----------------------------------------------------------------------------
(* Wrapping needs at most one turn below twice the size. *)
LEMMA RingWrap ==
  \A a \in 0 .. 2 * RING - 1 : a % RING = IF a < RING THEN a ELSE a - RING
  <1> SUFFICES ASSUME NEW a \in 0 .. 2 * RING - 1
               PROVE  a % RING = IF a < RING THEN a ELSE a - RING
    OBVIOUS
  <1>0. RING \in Nat \ {0}
    BY ConsoleAssumption
  <1>1. a % RING \in 0 .. RING - 1 /\ a = RING * (a \div RING) + (a % RING) /\ a \div RING \in Int
    BY <1>0
  <1>2. a \div RING \in {0, 1}
    BY <1>0, <1>1
  <1> QED BY <1>0, <1>1, <1>2

(* Two commands less than HISTORY_SIZE apart have different places. *)
LEMMA PlacesDiffer ==
  ASSUME NEW a \in Nat, NEW b \in Nat, a < b, b < a + HISTORY_SIZE
  PROVE  a % HISTORY_SIZE # b % HISTORY_SIZE
  <1> DEFINE H == HISTORY_SIZE
  <1>0. H \in Nat /\ H > 0
    BY ConsoleAssumption
  <1>4. b - a > 0 /\ b - a < H
    BY <1>0
  <1> HIDE DEF H
  <1>1. /\ a = H * (a \div H) + (a % H) /\ a \div H \in Int
        /\ b = H * (b \div H) + (b % H) /\ b \div H \in Int
    BY <1>0
  <1> DEFINE k == b \div H - a \div H
  <1>2. SUFFICES ASSUME a % H = b % H PROVE FALSE
    BY DEF H
  <1>3. b - a = H * k /\ k \in Int
    BY <1>0, <1>1, <1>2
  <1> HIDE DEF k
  <1>5. k > 0
    <2>1. CASE k <= 0
      <3>1. H * k <= 0
        BY <2>1, <1>0, <1>3
      <3> QED BY <3>1, <1>3, <1>4
    <2> QED BY <2>1, <1>3
  <1>6. H * k >= H
    BY <1>5, <1>0, <1>3
  <1> QED BY <1>3, <1>4, <1>6, <1>0

LEMMA HistoryPlace ==
  ASSUME NEW n \in Nat
  PROVE  n % HISTORY_SIZE \in 0 .. HISTORY_SIZE - 1
  BY ConsoleAssumption

-----------------------------------------------------------------------------
(* The ring *)

LEMMA QueueInvOrder == QueueInv => RingIsQueue
  <1> SUFFICES ASSUME QueueInv, ~overrun PROVE RingIsQueue
    BY DEF RingIsQueue
  <1>0. /\ RING \in Nat \ {0} /\ scancode_head \in 0 .. RING - 1
        /\ Len(queue) \in 0 .. RING - 1
    BY ConsoleAssumption DEF QueueInv, Index
  <1>1. ASSUME NEW k \in 0 .. RING - 1
        PROVE  (scancode_head + k) % RING = PlaceOf(scancode_head, k)
    <2> DEFINE a == scancode_head + k
    <2>1. a \in 0 .. 2 * RING - 1
      BY <1>0
    <2>2. PlaceOf(scancode_head, k) = IF a < RING THEN a ELSE a - RING
      BY <1>0 DEF PlaceOf
    <2> HIDE DEF a
    <2>3. a % RING = PlaceOf(scancode_head, k)
      BY <2>1, <2>2, RingWrap
    <2> QED BY <2>3 DEF a
  <1>2. scancode_tail = (scancode_head + Len(queue)) % RING
    BY <1>0, <1>1 DEF QueueInv
  <1>3. ASSUME NEW i \in 1 .. Len(queue)
        PROVE  scancode_buffer[(scancode_head + i - 1) % RING] = queue[i]
    <2>1. i - 1 \in 0 .. RING - 1 /\ scancode_head + i - 1 = scancode_head + (i - 1)
      BY <1>0
    <2>2. (scancode_head + i - 1) % RING = PlaceOf(scancode_head, i - 1)
      BY <2>1, <1>1
    <2> QED BY <2>2 DEF QueueInv
  <1> QED BY <1>2, <1>3 DEF RingIsQueue, QueueInv

(* Storing a code appends it to the queue, unless it makes the ring look    *)
(* empty.                                                                   *)
LEMMA PutKeepsQueue ==
  ASSUME QueueInv, NEW code \in KeyCodes, Put(code), UNCHANGED <<scancode_head, sc>>
  PROVE  QueueInv'
  <1> DEFINE n == Len(queue)
  <1>0. /\ RING \in Nat \ {0} /\ Index = 0 .. RING - 1
        /\ scancode_head \in 0 .. RING - 1 /\ scancode_tail \in 0 .. RING - 1
        /\ queue \in Seq(KeyCodes) /\ n \in Nat /\ overrun \in BOOLEAN
    BY ConsoleAssumption DEF QueueInv, Index
  <1>1. /\ scancode_buffer' = [scancode_buffer EXCEPT ![scancode_tail] = code]
        /\ scancode_tail' = Wrap(scancode_tail)
        /\ overrun' = (overrun \/ Wrap(scancode_tail) = scancode_head)
        /\ queue' = IF overrun' THEN <<>> ELSE Append(queue, code)
    BY DEF Put
  <1>2. Wrap(scancode_tail) \in Index
    BY <1>0 DEF Wrap
  <1>3. overrun' \in BOOLEAN
    BY <1>0, <1>1
  <1>4. queue' \in Seq(KeyCodes)
    <2>1. CASE overrun'
      BY <2>1, <1>1
    <2>2. CASE ~overrun'
      BY <2>2, <1>0, <1>1
    <2> QED BY <2>1, <2>2
  <1>5. ASSUME ~overrun'
        PROVE  /\ Len(queue') < RING
               /\ scancode_tail' = PlaceOf(scancode_head', Len(queue'))
               /\ \A i \in 1 .. Len(queue') : scancode_buffer'[PlaceOf(scancode_head', i - 1)] = queue'[i]
               /\ sc' # -1 => queue' # <<>> /\ sc' = queue'[1]
    <2>1. /\ ~overrun /\ Wrap(scancode_tail) # scancode_head /\ queue' = Append(queue, code)
      BY <1>1, <1>5
    <2>2. /\ n < RING /\ scancode_tail = PlaceOf(scancode_head, n)
          /\ \A i \in 1 .. n : scancode_buffer[PlaceOf(scancode_head, i - 1)] = queue[i]
          /\ sc # -1 => queue # <<>> /\ sc = queue[1]
      BY <2>1 DEF QueueInv
    <2>3. /\ Len(queue') = n + 1 /\ \A i \in 1 .. n : queue'[i] = queue[i]
          /\ queue'[n + 1] = code
      BY <2>1, <1>0
    <2>4. scancode_head' = scancode_head
      OBVIOUS
    <2>5. n + 1 < RING /\ Wrap(scancode_tail) = PlaceOf(scancode_head, n + 1)
      <3> HIDE DEF n
      <3> QED BY <2>1, <2>2, <1>0 DEF PlaceOf, Wrap
    <2>6. ASSUME NEW i \in 1 .. n + 1
          PROVE  scancode_buffer'[PlaceOf(scancode_head, i - 1)] = queue'[i]
      <3>1. PlaceOf(scancode_head, i - 1) \in Index /\ (PlaceOf(scancode_head, i - 1) = scancode_tail <=> i = n + 1)
        <4> HIDE DEF n
        <4> QED BY <2>2, <2>5, <1>0 DEF PlaceOf
      <3>2. scancode_buffer'[PlaceOf(scancode_head, i - 1)] = IF i = n + 1 THEN code ELSE scancode_buffer[PlaceOf(scancode_head, i - 1)]
        BY <3>1, <1>1 DEF QueueInv
      <3> HIDE DEF PlaceOf
      <3> QED BY <3>2, <2>2, <2>3, <1>0
    <2>7. sc' # -1 => queue' # <<>> /\ sc' = queue'[1]
      <3>1. ASSUME sc # -1 PROVE n >= 1
        BY <3>1, <2>2, <1>0
      <3> QED BY <3>1, <2>2, <2>3, <1>0
    <2> HIDE DEF n, PlaceOf
    <2> QED BY <2>3, <2>4, <2>5, <2>6, <2>7, <1>1
  <1> HIDE DEF PlaceOf
  <1> QED BY <1>0, <1>1, <1>2, <1>3, <1>4, <1>5 DEF QueueInv

(* Taking the oldest code moves the head. *)
LEMMA TakeKeepsQueue ==
  ASSUME QueueInv, sc # -1, sc' = -1, scancode_head' = Wrap(scancode_head),
         queue' = IF queue = <<>> THEN <<>> ELSE Tail(queue),
         UNCHANGED <<scancode_buffer, scancode_tail, overrun>>
  PROVE  QueueInv'
  <1> DEFINE n == Len(queue)
  <1>0. /\ RING \in Nat \ {0} /\ Index = 0 .. RING - 1
        /\ scancode_head \in 0 .. RING - 1 /\ scancode_tail \in 0 .. RING - 1
        /\ queue \in Seq(KeyCodes) /\ n \in Nat
    BY ConsoleAssumption DEF QueueInv, Index
  <1>1. scancode_head' \in Index
    BY <1>0 DEF Wrap
  <1>2. queue' \in Seq(KeyCodes)
    BY <1>0
  <1>3. ASSUME ~overrun
        PROVE  /\ Len(queue') < RING
               /\ scancode_tail = PlaceOf(scancode_head', Len(queue'))
               /\ \A i \in 1 .. Len(queue') : scancode_buffer[PlaceOf(scancode_head', i - 1)] = queue'[i]
    <2>1. /\ n < RING /\ scancode_tail = PlaceOf(scancode_head, n)
          /\ \A i \in 1 .. n : scancode_buffer[PlaceOf(scancode_head, i - 1)] = queue[i]
          /\ queue # <<>>
      BY <1>3 DEF QueueInv
    <2>2. /\ n >= 1 /\ Len(queue') = n - 1
          /\ \A i \in 1 .. n - 1 : queue'[i] = queue[i + 1]
      BY <2>1, <1>0
    <2>3. ASSUME NEW k \in 0 .. n - 1
          PROVE  PlaceOf(scancode_head', k) = PlaceOf(scancode_head, k + 1)
      <3> HIDE DEF n
      <3> QED BY <2>1, <1>0 DEF PlaceOf, Wrap
    <2>4. scancode_tail = PlaceOf(scancode_head', n - 1)
      <3>1. n - 1 \in 0 .. n - 1 /\ (n - 1) + 1 = n
        BY <2>2, <1>0
      <3> HIDE DEF n, PlaceOf
      <3>2. PlaceOf(scancode_head', n - 1) = PlaceOf(scancode_head, (n - 1) + 1)
        BY <3>1, <2>3
      <3> QED BY <3>1, <3>2, <2>1
    <2>5. ASSUME NEW i \in 1 .. n - 1
          PROVE  scancode_buffer[PlaceOf(scancode_head', i - 1)] = queue'[i]
      <3>1. i - 1 \in 0 .. n - 1 /\ (i - 1) + 1 = i /\ i + 1 \in 1 .. n /\ (i + 1) - 1 = i
        BY <1>0
      <3> HIDE DEF n, PlaceOf
      <3>2. PlaceOf(scancode_head', i - 1) = PlaceOf(scancode_head, (i - 1) + 1)
        BY <3>1, <2>3
      <3>3. scancode_buffer[PlaceOf(scancode_head, (i + 1) - 1)] = queue[i + 1]
        BY <3>1, <2>1
      <3> QED BY <3>1, <3>2, <3>3, <2>2
    <2>6. n - 1 < RING
      BY <2>1, <1>0
    <2> HIDE DEF n, PlaceOf
    <2> QED BY <2>2, <2>4, <2>5, <2>6
  <1> HIDE DEF PlaceOf
  <1> QED BY <1>0, <1>1, <1>2, <1>3 DEF QueueInv

(* The handler does nothing to the ring or stores one key. *)
LEMMA HandlerSteps ==
  ASSUME keyboard_handler
  PROVE  /\ UNCHANGED EditorVars
         /\ \/ \E code \in KeyCodes : Put(code)
            \/ UNCHANGED <<scancode_buffer, scancode_tail, queue, overrun>>
  <1>1. CASE handler_prefix
    BY <1>1 DEF handler_prefix
  <1>2. CASE \E key \in ExtendedKeys : handler_extended(key)
    BY <1>2 DEF handler_extended, KeyCodes
  <1>3. CASE \E key \in Keys : handler_press(key) \/ handler_release(key)
    BY <1>3 DEF handler_press, handler_release, KeyCodes
  <1> QED BY <1>1, <1>2, <1>3 DEF keyboard_handler

LEMMA QueueInductive == QueueInv /\ [ConsoleNext]_consoleVars => QueueInv'
  <1> SUFFICES ASSUME QueueInv, [ConsoleNext]_consoleVars PROVE QueueInv'
    OBVIOUS
  <1>1. CASE keyboard_handler
    <2>1. UNCHANGED <<scancode_head, sc>>
      BY <1>1, HandlerSteps DEF EditorVars
    <2>2. CASE \E code \in KeyCodes : Put(code)
      BY <2>1, <2>2, PutKeepsQueue
    <2>3. CASE UNCHANGED <<scancode_buffer, scancode_tail, queue, overrun>>
      BY <2>1, <2>3 DEF QueueInv, PlaceOf
    <2> QED BY <1>1, <2>2, <2>3, HandlerSteps
  <1>2. CASE getchar_load
    <2>1. /\ sc' = scancode_buffer[scancode_head] /\ scancode_head # scancode_tail
          /\ UNCHANGED <<scancode_buffer, scancode_tail, scancode_head, queue, overrun>>
      BY <1>2 DEF getchar_load, keyVars
    <2>2. ASSUME ~overrun PROVE queue # <<>> /\ sc' = queue[1]
      <3>0. RING \in Nat \ {0} /\ scancode_head \in 0 .. RING - 1 /\ queue \in Seq(KeyCodes)
        BY ConsoleAssumption DEF QueueInv, Index
      <3>1. PlaceOf(scancode_head, 0) = scancode_head
        BY <3>0 DEF PlaceOf
      <3>2. scancode_tail = PlaceOf(scancode_head, Len(queue))
        BY <2>2 DEF QueueInv
      <3>3. Len(queue) \in Nat /\ Len(queue) # 0
        BY <2>1, <3>0, <3>1, <3>2
      <3>4. 1 \in 1 .. Len(queue) /\ 1 - 1 = 0
        BY <3>3
      <3>5. scancode_buffer[PlaceOf(scancode_head, 1 - 1)] = queue[1]
        BY <2>2, <3>4 DEF QueueInv
      <3> QED BY <2>1, <3>0, <3>1, <3>3, <3>4, <3>5
    <2> QED BY <2>1, <2>2 DEF QueueInv, PlaceOf
  <1>3. CASE getchar_deliver
    BY <1>3, TakeKeepsQueue DEF getchar_deliver, keyVars
  <1>4. CASE UNCHANGED consoleVars
    BY <1>4 DEF consoleVars, keyVars, QueueInv, PlaceOf
  <1> QED BY <1>1, <1>2, <1>3, <1>4 DEF ConsoleNext

-----------------------------------------------------------------------------
(* The line editor *)

(* A non-empty set of natural numbers has a smallest element. *)
LEMMA SmallestExists ==
  ASSUME NEW T, T \subseteq Nat, T # {}
  PROVE  \E x \in T : \A y \in T : x <= y
  <1> DEFINE Lt == OpToRel(<, Nat)
  <1>1. IsWellFoundedOn(Lt, Nat)
    BY NatLessThanWellFounded
  <1>2. \A x, y \in Nat : x < y => <<x, y>> \in Lt
    BY DEF OpToRel
  <1> HIDE DEF Lt
  <1>3. PICK x \in T : \A y \in T : ~(<<y, x>> \in Lt)
    BY <1>1, WFMin
  <1>4. ASSUME NEW y \in T PROVE x <= y
    <2>1. x \in Nat /\ y \in Nat
      OBVIOUS
    <2>2. ~(y < x)
      BY <2>1, <1>2, <1>3, Zenon
    <2> QED BY <2>1, <2>2
  <1> QED BY <1>4

(* strlen finds the first zero of a buffer that has one. *)
LEMMA StrLenFirst ==
  ASSUME NEW buf \in [0 .. LINE_MAX -> Int], \E n \in 0 .. LINE_MAX : buf[n] = NUL
  PROVE  /\ StrLen(buf) \in 0 .. LINE_MAX /\ buf[StrLen(buf)] = NUL
         /\ \A i \in 0 .. StrLen(buf) - 1 : buf[i] # NUL
  <1> DEFINE T == {n \in 0 .. LINE_MAX : buf[n] = NUL}
             First(n) == buf[n] = NUL /\ \A i \in 0 .. n - 1 : buf[i] # NUL
  <1>1. PICK x \in T : \A y \in T : x <= y
    <2>1. T \subseteq Nat /\ T # {}
      OBVIOUS
    <2> QED BY <2>1, SmallestExists
  <1>2. ASSUME NEW i \in 0 .. x - 1 PROVE buf[i] # NUL
    <2>1. i \in 0 .. LINE_MAX /\ i < x
      BY <1>1, ConsoleAssumption
    <2> QED BY <2>1, <1>1
  <1>3. x \in 0 .. LINE_MAX /\ First(x)
    BY <1>1, <1>2
  <1>4. StrLen(buf) = CHOOSE n \in 0 .. LINE_MAX : First(n)
    BY DEF StrLen
  <1>5. StrLen(buf) \in 0 .. LINE_MAX /\ First(StrLen(buf))
    <2> HIDE DEF First
    <2> QED BY <1>3, <1>4
  <1> QED BY <1>5

(* The line that Enter stores has no zero and fits. *)
LEMMA StringIsText ==
  ASSUME NEW buf \in [0 .. LINE_MAX -> Int], \E n \in 0 .. LINE_MAX : buf[n] = NUL
  PROVE  String(buf) \in Text
  <1> DEFINE m == StrLen(buf)
  <1>1. m \in 0 .. LINE_MAX /\ \A i \in 0 .. m - 1 : buf[i] # NUL
    BY StrLenFirst
  <1>2. String(buf) = [i \in 1 .. m |-> buf[i - 1]]
    BY DEF String
  <1> HIDE DEF m
  <1>3. \A i \in 1 .. m : buf[i - 1] \in Int \ {NUL}
    BY <1>1, ConsoleAssumption
  <1>4. String(buf) \in Seq(Int \ {NUL}) /\ Len(String(buf)) = m
    BY <1>1, <1>2, <1>3
  <1> QED BY <1>1, <1>4 DEF Text

(* An entry of the history becomes a line with the cursor at its end. *)
LEMMA RecallKeepsLine ==
  ASSUME LineInv, NEW k \in Nat, history_idx' = k, Recalled, UNCHANGED history_buf
  PROVE  LineInv'
  <1> DEFINE s == history_buf[k % HISTORY_SIZE]
  <1>0. LINE_MAX \in Nat /\ NUL = 0
    BY ConsoleAssumption DEF NUL
  <1>1. s \in Text
    BY HistoryPlace DEF LineInv
  <1>2. line_buffer' = StrCpy(s) /\ line_pos' = Len(s)
    BY DEF Recalled
  <1> HIDE DEF s
  <1>3. s \in Seq(Int \ {NUL}) /\ Len(s) \in 0 .. LINE_MAX /\ \A i \in 1 .. Len(s) : s[i] \in Int \ {NUL}
    BY <1>0, <1>1 DEF Text
  <1>4. line_buffer \in [0 .. LINE_MAX -> Int]
    BY DEF LineInv
  <1>5. line_buffer' = [i \in 0 .. LINE_MAX |-> IF i < Len(s) THEN s[i + 1]
                                                ELSE IF i = Len(s) THEN NUL ELSE line_buffer[i]]
    BY <1>2 DEF StrCpy
  <1>6. line_buffer' \in [0 .. LINE_MAX -> Int]
    BY <1>0, <1>3, <1>4, <1>5
  <1>7. \A n \in 0 .. Len(s) - 1 : line_buffer'[n] # NUL
    BY <1>0, <1>3, <1>5
  <1>8. line_buffer'[Len(s)] = NUL
    BY <1>3, <1>5
  <1> QED BY <1>2, <1>3, <1>6, <1>7, <1>8 DEF LineInv

(* Storing a line keeps the newest commands at their places. *)
LEMMA PushKeepsHistory ==
  ASSUME HistoryInv, DOMAIN history_buf = 0 .. HISTORY_SIZE - 1, NEW line \in Text,
         history_push(line), history_idx' = history_len'
  PROVE  HistoryInv'
  <1> DEFINE H == HISTORY_SIZE
  <1>0. /\ H \in Nat /\ H > 0 /\ history_len \in Nat /\ commands \in Seq(Text)
        /\ Len(commands) = history_len /\ DOMAIN history_buf = 0 .. H - 1
    BY ConsoleAssumption DEF HistoryInv
  <1>1. CASE UNCHANGED <<history_buf, history_len, commands>>
    BY <1>1 DEF HistoryInv, HistoryNewest
  <1>2. CASE /\ history_buf' = [history_buf EXCEPT ![history_len % HISTORY_SIZE] = line]
             /\ history_len' = history_len + 1
             /\ commands' = Append(commands, line)
    <2>1. /\ commands' \in Seq(Text) /\ Len(commands') = history_len + 1
          /\ \A i \in 1 .. history_len : commands'[i] = commands[i]
          /\ commands'[history_len + 1] = line
      BY <1>0, <1>2
    <2>2. ASSUME NEW i \in 1 .. history_len + 1, i > history_len + 1 - HISTORY_SIZE
          PROVE  history_buf'[(i - 1) % HISTORY_SIZE] = commands'[i]
      <3>1. i - 1 \in Nat
        BY <1>0
      <3>2. history_len % HISTORY_SIZE \in 0 .. H - 1 /\ (i - 1) % HISTORY_SIZE \in 0 .. H - 1
        BY <3>1, <1>0, HistoryPlace
      <3>3. CASE i = history_len + 1
        BY <3>2, <3>3, <2>1, <1>0, <1>2
      <3>4. CASE i # history_len + 1
        <4>1. i - 1 < history_len /\ history_len < (i - 1) + HISTORY_SIZE
          BY <2>2, <3>4, <1>0
        <4>2. (i - 1) % HISTORY_SIZE # history_len % HISTORY_SIZE
          BY <4>1, <3>1, <1>0, PlacesDiffer
        <4>3. history_buf'[(i - 1) % HISTORY_SIZE] = history_buf[(i - 1) % HISTORY_SIZE]
          BY <4>2, <3>2, <1>0, <1>2
        <4>4. i \in 1 .. history_len /\ i > history_len - HISTORY_SIZE
          BY <3>4, <2>2, <1>0
        <4>5. history_buf[(i - 1) % HISTORY_SIZE] = commands[i]
          BY <4>4 DEF HistoryInv, HistoryNewest
        <4> QED BY <4>3, <4>4, <4>5, <2>1
      <3> QED BY <3>3, <3>4
    <2>3. HistoryNewest'
      BY <2>2, <1>0, <1>2 DEF HistoryNewest
    <2> HIDE DEF H
    <2> QED BY <2>1, <2>3, <1>0, <1>2 DEF HistoryInv
  <1> QED BY <1>1, <1>2 DEF history_push

(* Every key leaves the cursor in the line and the history in order. *)
LEMMA EditKeepsLine ==
  ASSUME LineInv, HistoryInv, NEW c, Edit(c)
  PROVE  LineInv' /\ HistoryInv'
  <1>0. /\ LINE_MAX \in Nat /\ LINE_MAX > 0 /\ NUL = 0
        /\ line_buffer \in [0 .. LINE_MAX -> Int] /\ line_pos \in 0 .. LINE_MAX
        /\ \A n \in 0 .. line_pos - 1 : line_buffer[n] # NUL
        /\ \E n \in 0 .. LINE_MAX : line_buffer[n] = NUL
        /\ history_buf \in [0 .. HISTORY_SIZE - 1 -> Text]
        /\ history_len \in Nat /\ history_idx \in 0 .. history_len
    BY ConsoleAssumption DEF NUL, LineInv, HistoryInv
  <1>1. ASSUME SameLine PROVE HistoryInv' /\ history_buf' = history_buf
    BY <1>1 DEF SameLine, HistoryInv, HistoryNewest
  <1>2. CASE enter
    <2> DEFINE cut == [line_buffer EXCEPT ![line_pos] = NUL]
    <2>1. /\ history_push(String(cut)) /\ line_buffer' = [cut EXCEPT ![0] = NUL]
          /\ line_pos' = 0 /\ history_idx' = history_len'
      BY <1>2 DEF enter
    <2>2. cut \in [0 .. LINE_MAX -> Int] /\ cut[line_pos] = NUL
      BY <1>0
    <2> HIDE DEF cut
    <2>3. String(cut) \in Text
      BY <2>2, <1>0, StringIsText
    <2>4. HistoryInv'
      BY <2>1, <2>3, <1>0, PushKeepsHistory
    <2>5. history_buf' \in [0 .. HISTORY_SIZE - 1 -> Text]
      <3>1. history_len % HISTORY_SIZE \in 0 .. HISTORY_SIZE - 1
        BY <1>0, HistoryPlace
      <3> QED BY <2>1, <2>3, <3>1, <1>0 DEF history_push
    <2>6. line_buffer' \in [0 .. LINE_MAX -> Int] /\ line_buffer'[0] = NUL
      BY <2>1, <2>2, <1>0
    <2> QED BY <2>1, <2>4, <2>5, <2>6, <1>0 DEF LineInv
  <1>3. CASE backspace
    <2>1. LineInv'
      <3>1. CASE line_pos > 0
        <4>1. line_pos' = line_pos - 1 /\ line_buffer' = [line_buffer EXCEPT ![line_pos - 1] = NUL]
          BY <1>3, <3>1 DEF backspace
        <4> QED BY <4>1, <3>1, <1>0, <1>1, <1>3 DEF backspace, LineInv
      <3>2. CASE ~(line_pos > 0)
        BY <3>2, <1>0, <1>1, <1>3 DEF backspace, LineInv
      <3> QED BY <3>1, <3>2
    <2> QED BY <2>1, <1>1, <1>3 DEF backspace
  <1>4. CASE ctrl_a
    BY <1>0, <1>1, <1>4 DEF ctrl_a, LineInv
  <1>5. CASE ctrl_e
    BY <1>0, <1>1, <1>5, StrLenFirst DEF ctrl_e, LineInv
  <1>6. CASE ctrl_u
    <2>1. /\ line_pos' = 0
          /\ line_buffer' = [i \in 0 .. LINE_MAX |-> IF i = 0 THEN NUL
                                                     ELSE IF i < line_pos THEN 32 ELSE line_buffer[i]]
      BY <1>6 DEF ctrl_u
    <2>2. line_buffer' \in [0 .. LINE_MAX -> Int] /\ line_buffer'[0] = NUL
      BY <2>1, <1>0
    <2> QED BY <2>1, <2>2, <1>0, <1>1, <1>6 DEF ctrl_u, LineInv
  <1>7. CASE ctrl_k
    BY <1>0, <1>1, <1>7 DEF ctrl_k, LineInv
  <1>8. CASE up
    <2>1. CASE history_len = 0
      BY <2>1, <1>0, <1>8 DEF up, lineVars, LineInv, HistoryInv, HistoryNewest
    <2>2. CASE history_len # 0
      <3>1. /\ history_idx' = IF history_idx > 0 THEN history_idx - 1 ELSE 0
            /\ Recalled /\ UNCHANGED <<history_buf, history_len, commands>>
        BY <2>2, <1>8 DEF up, history_up
      <3>2. history_idx' \in Nat /\ history_idx' \in 0 .. history_len'
        BY <3>1, <1>0
      <3>3. LineInv'
        BY <3>1, <3>2, RecallKeepsLine
      <3> QED BY <3>1, <3>2, <3>3 DEF HistoryInv, HistoryNewest
    <2> QED BY <2>1, <2>2
  <1>9. CASE down
    <2>1. /\ history_idx' = IF history_idx < history_len - 1 THEN history_idx + 1 ELSE history_len
          /\ UNCHANGED <<history_buf, history_len, commands>>
      BY <1>9 DEF down, history_down
    <2>2. history_idx' \in Nat /\ history_idx' \in 0 .. history_len'
      BY <2>1, <1>0
    <2>3. LineInv'
      <3>1. CASE history_idx < history_len - 1 /\ Recalled
        BY <3>1, <2>1, <2>2, RecallKeepsLine
      <3>2. CASE line_buffer' = [line_buffer EXCEPT ![0] = NUL] /\ line_pos' = 0
        BY <3>2, <2>1, <1>0 DEF LineInv
      <3> QED BY <3>1, <3>2, <1>9 DEF down
    <2> QED BY <2>1, <2>2, <2>3 DEF HistoryInv, HistoryNewest
  <1>10. CASE c \in 32 .. 126 /\ insert(c)
    <2>1. CASE line_pos >= LINE_MAX
      BY <2>1, <1>0, <1>1, <1>10 DEF insert, LineInv
    <2>2. CASE ~(line_pos >= LINE_MAX)
      <3>1. /\ line_buffer' = [line_buffer EXCEPT ![line_pos] = c, ![line_pos + 1] = NUL]
            /\ line_pos' = line_pos + 1 /\ SameLine
        BY <2>2, <1>10 DEF insert
      <3>2. c \in Int /\ c # NUL
        BY <1>0, <1>10
      <3>3. /\ line_buffer' \in [0 .. LINE_MAX -> Int]
            /\ \A n \in 0 .. LINE_MAX : line_buffer'[n] = IF n = line_pos + 1 THEN NUL
                                                          ELSE IF n = line_pos THEN c ELSE line_buffer[n]
        BY <2>2, <3>1, <3>2, <1>0
      <3>4. line_pos' \in 0 .. LINE_MAX /\ \A n \in 0 .. line_pos' - 1 : line_buffer'[n] # NUL
        BY <2>2, <3>1, <3>2, <3>3, <1>0
      <3>5. line_buffer'[line_pos + 1] = NUL /\ line_pos + 1 \in 0 .. LINE_MAX
        BY <2>2, <3>3, <1>0
      <3> QED BY <3>1, <3>3, <3>4, <3>5, <1>0, <1>1 DEF LineInv
    <2> QED BY <2>1, <2>2
  <1>11. CASE UNCHANGED lineVars
    BY <1>11, <1>0 DEF lineVars, LineInv, HistoryInv, HistoryNewest
  <1> QED BY <1>2, <1>3, <1>4, <1>5, <1>6, <1>7, <1>8, <1>9, <1>10, <1>11 DEF Edit

LEMMA LineInductive == LineInv /\ HistoryInv /\ [ConsoleNext]_consoleVars => LineInv' /\ HistoryInv'
  <1> SUFFICES ASSUME LineInv, HistoryInv, [ConsoleNext]_consoleVars
               PROVE  LineInv' /\ HistoryInv'
    OBVIOUS
  <1>1. CASE UNCHANGED lineVars
    BY <1>1 DEF lineVars, LineInv, HistoryInv, HistoryNewest
  <1>2. CASE getchar_deliver
    BY <1>2, EditKeepsLine DEF getchar_deliver
  <1> QED BY <1>1, <1>2, HandlerSteps DEF ConsoleNext, EditorVars, getchar_load, consoleVars

-----------------------------------------------------------------------------
LEMMA ConsoleInvInit == ConsoleInit => ConsoleInv
  <1> SUFFICES ASSUME ConsoleInit PROVE ConsoleInv
    OBVIOUS
  <1> USE ConsoleAssumption DEF ConsoleInit
  <1>1. QueueInv
    <2>1. queue \in Seq(KeyCodes) /\ Len(queue) = 0
      OBVIOUS
    <2>2. 0 \in Index /\ PlaceOf(scancode_head, Len(queue)) = 0
      BY <2>1 DEF Index, PlaceOf
    <2>3. overrun \in BOOLEAN
      BY Zenon
    <2>4. \A i \in 1 .. Len(queue) : scancode_buffer[PlaceOf(scancode_head, i - 1)] = queue[i]
      BY <2>1
    <2> QED BY <2>1, <2>2, <2>3, <2>4 DEF QueueInv
  <1>2. LineInv
    <2>1. <<>> \in Text
      BY DEF Text
    <2> QED BY <2>1 DEF LineInv, NUL
  <1>3. HistoryInv
    BY DEF HistoryInv, HistoryNewest
  <1> QED BY <1>1, <1>2, <1>3 DEF ConsoleInv

LEMMA ConsoleInvHolds == ConsoleSpec => []ConsoleInv
  <1>1. ConsoleInv /\ [ConsoleNext]_consoleVars => ConsoleInv'
    BY QueueInductive, LineInductive DEF ConsoleInv
  <1> QED BY <1>1, ConsoleInvInit, PTL DEF ConsoleSpec

(* The indices of the ring, the cursor and the history index stay inside   *)
(* their arrays (keyboard.c, shell.c).                                     *)
THEOREM TypeCorrect == ConsoleSpec => []ConsoleTypeOK
  <1>1. ConsoleInv => ConsoleTypeOK
    BY DEF ConsoleInv, QueueInv, LineInv, HistoryInv, ConsoleTypeOK
  <1> QED BY <1>1, ConsoleInvHolds, PTL

(* For every ring size and set of keys, keyboard_getchar takes the codes   *)
(* the handler stored once each and in order, whatever interrupts fall     *)
(* between its two halves, as long as the ring was never full.             *)
THEOREM KeysInOrder == ConsoleSpec => []RingIsQueue
  <1>1. ConsoleInv => RingIsQueue
    BY QueueInvOrder DEF ConsoleInv
  <1> QED BY <1>1, ConsoleInvHolds, PTL

(* For every line and history size, no sequence of editing keys moves the  *)
(* cursor behind the end of the line, and Up and Down show the newest      *)
(* commands (shell_main, history_push).                                    *)
THEOREM EditorCorrect == ConsoleSpec => []LineEditorSound
  <1>1. ConsoleInv => LineEditorSound
    BY DEF ConsoleInv, LineInv, HistoryInv, LineEditorSound, CursorInLine
  <1> QED BY <1>1, ConsoleInvHolds, PTL

-----------------------------------------------------------------------------
(***************************************************************************)
(* The text screen.  A character changes one row at the cursor and moves   *)
(* the cursor on in the row, or to the start of the next one, on the       *)
(* screen and on the page alike.                                           *)
(***************************************************************************)
Glyph == {"a", " "}
Row   == [0 .. VGA_WIDTH - 1 -> Glyph]
Chars == {"a", "nl", "cr", "tab", "bs"}

ScreenTypeOK ==
  /\ video_mem \in [0 .. VGA_HEIGHT - 1 -> Row] /\ page \in Seq(Row) /\ Len(page) >= 1
  /\ pipe_buffer_len \in 0 .. PIPE_BUF_SIZE - 1

ScreenInv == ScreenTypeOK /\ ScreenShowsNewest

RowAfter(r, x, c) == IF c = "bs" /\ x # 0 THEN [r EXCEPT ![x - 1] = " "]
                     ELSE IF c = "a" THEN [r EXCEPT ![x] = "a"] ELSE r
ColumnAfter(x, c) == CASE c = "nl" -> 0
                       [] c = "cr" -> 0
                       [] c = "tab" -> ((x + TAB_WIDTH) \div TAB_WIDTH) * TAB_WIDTH
                       [] c = "bs" -> IF x = 0 THEN 0 ELSE x - 1
                       [] OTHER -> x + 1
NextRow(x, c) == c = "nl" \/ ColumnAfter(x, c) >= VGA_WIDTH

AfterChar(mem, x, y, c) ==
  [mem |-> [mem EXCEPT ![y] = RowAfter(mem[y], x, c)],
   x   |-> IF NextRow(x, c) THEN 0 ELSE ColumnAfter(x, c),
   y   |-> IF NextRow(x, c) THEN y + 1 ELSE y]

LEMMA TabColumn ==
  ASSUME NEW x \in Nat
  PROVE  ((x + TAB_WIDTH) \div TAB_WIDTH) * TAB_WIDTH \in Nat
  <1> DEFINE a == x + TAB_WIDTH
             q == a \div TAB_WIDTH
  <1>1. a \in Nat /\ TAB_WIDTH \in Nat \ {0}
    BY ScreenAssumption
  <1> HIDE DEF a
  <1>2. q \in Nat
    BY <1>1
  <1> HIDE DEF q
  <1>3. q * TAB_WIDTH \in Nat
    BY <1>1, <1>2
  <1> QED BY <1>3 DEF q, a

LEMMA RowAfterType ==
  ASSUME NEW r \in Row, NEW x \in 0 .. VGA_WIDTH - 1, NEW c \in Chars
  PROVE  /\ RowAfter(r, x, c) \in Row /\ ColumnAfter(x, c) \in Nat
         /\ ~NextRow(x, c) => ColumnAfter(x, c) \in 0 .. VGA_WIDTH - 1
  <1>1. x \in Nat /\ VGA_WIDTH \in Nat \ {0}
    BY ScreenAssumption
  <1>2. RowAfter(r, x, c) \in Row
    BY <1>1 DEF RowAfter, Row, Glyph
  <1>3. ColumnAfter(x, c) \in Nat
    BY <1>1, TabColumn DEF ColumnAfter, Chars
  <1> QED BY <1>1, <1>2, <1>3 DEF NextRow

(* What a character makes of a screen or a page s with the cursor in it.   *)
LEMMA CharWritten ==
  ASSUME NEW D, NEW mem \in [D -> Row], NEW x \in 0 .. VGA_WIDTH - 1, NEW y \in D, y \in Nat, NEW c \in Chars
  PROVE  Wrapped(Written([mem |-> mem, x |-> x, y |-> y], c)) = AfterChar(mem, x, y, c)
  <1> DEFINE s == [mem |-> mem, x |-> x, y |-> y]
             w == Written(s, c)
             m == [mem EXCEPT ![y] = RowAfter(mem[y], x, c)]
             col == ColumnAfter(x, c)
  <1>1. x \in Nat /\ VGA_WIDTH \in Nat \ {0} /\ x < VGA_WIDTH
    BY ScreenAssumption
  <1>2. [mem EXCEPT ![y] = mem[y]] = mem
    OBVIOUS
  <1>3. w = [mem |-> m, x |-> col, y |-> IF c = "nl" THEN y + 1 ELSE y]
    <2>1. CASE c = "nl"
      BY <1>2, <2>1 DEF Written, RowAfter, ColumnAfter
    <2>2. CASE c = "cr"
      BY <1>2, <2>2 DEF Written, RowAfter, ColumnAfter
    <2>3. CASE c = "tab"
      BY <1>2, <2>3 DEF Written, RowAfter, ColumnAfter
    <2>4. CASE c = "bs" /\ x = 0
      BY <1>2, <2>4 DEF Written, RowAfter, ColumnAfter
    <2>5. CASE c = "bs" /\ x # 0
      BY <1>2, <2>5 DEF Written, RowAfter, ColumnAfter
    <2>6. CASE c = "a"
      BY <1>2, <2>6 DEF Written, RowAfter, ColumnAfter
    <2> QED BY <2>1, <2>2, <2>3, <2>4, <2>5, <2>6 DEF Chars
  <1>4. c = "nl" => col = 0
    BY DEF ColumnAfter
  <1>5. col \in Nat
    BY <1>1, TabColumn DEF ColumnAfter, Chars
  <1> HIDE DEF w, m, col
  <1>6. NextRow(x, c) <=> c = "nl" \/ col >= VGA_WIDTH
    BY DEF NextRow, col
  <1>7. Wrapped(w) = [mem |-> m, x |-> IF NextRow(x, c) THEN 0 ELSE col, y |-> IF NextRow(x, c) THEN y + 1 ELSE y]
    <2>1. CASE c = "nl"
      BY <1>1, <1>3, <1>4, <1>6, <2>1 DEF Wrapped
    <2>2. CASE c # "nl" /\ col >= VGA_WIDTH
      BY <1>1, <1>3, <1>6, <2>2 DEF Wrapped
    <2>3. CASE c # "nl" /\ ~(col >= VGA_WIDTH)
      BY <1>1, <1>3, <1>6, <2>3 DEF Wrapped
    <2> QED BY <2>1, <2>2, <2>3
  <1> QED BY <1>7 DEF w, m, col, AfterChar

(* The screen and the page change together, with and without scrolling.     *)
LEMMA PutcKeepsScreen ==
  ASSUME ScreenInv, NEW c \in Chars, console_putc(c)
  PROVE  ScreenInv'
  <1> DEFINE L   == Len(page)
             hid == IF L > VGA_HEIGHT THEN L - VGA_HEIGHT ELSE 0
             x   == cursor_x
             y   == cursor_y
             r   == RowAfter(video_mem[y], x, c)
             m   == [video_mem EXCEPT ![y] = r]
             p   == [page EXCEPT ![L] = r]
             x2  == IF NextRow(x, c) THEN 0 ELSE ColumnAfter(x, c)
  <1>0. /\ video_mem \in [0 .. VGA_HEIGHT - 1 -> Row] /\ page \in Seq(Row) /\ page \in [1 .. L -> Row]
        /\ \A k \in 0 .. VGA_HEIGHT - 1 : video_mem[k] = IF k + hid < L THEN page[k + hid + 1] ELSE Blank
    BY LenProperties DEF ScreenInv, ScreenTypeOK, ScreenShowsNewest
  <1>1. /\ VGA_WIDTH \in Nat \ {0} /\ VGA_HEIGHT \in Nat \ {0} /\ L \in Nat /\ L >= 1
        /\ x \in 0 .. VGA_WIDTH - 1 /\ y = L - hid - 1
        /\ (L <= VGA_HEIGHT /\ hid = 0) \/ (L > VGA_HEIGHT /\ hid = L - VGA_HEIGHT)
        /\ hid \in Nat /\ hid < L
    BY ScreenAssumption, LenProperties DEF ScreenInv, ScreenTypeOK, ScreenShowsNewest
  <1> HIDE DEF L, hid, x, y
  <1>2. CASE redirect_hook
    <2>1. pipe_buffer_len' \in 0 .. PIPE_BUF_SIZE - 1
      BY <1>2, ScreenAssumption DEF ScreenInv, ScreenTypeOK, console_putc, shell_pipe_writer
    <2>2. UNCHANGED <<video_mem, cursor_x, cursor_y, page>>
      BY <1>2 DEF console_putc
    <2>3. pipe_buffer_len' < PIPE_BUF_SIZE
      BY <2>1, ScreenAssumption
    <2> QED BY <2>1, <2>2, <2>3 DEF ScreenInv, ScreenTypeOK, ScreenShowsNewest, L
  <1>3. CASE ~redirect_hook
    <2>1. y \in 0 .. VGA_HEIGHT - 1 /\ y + hid + 1 = L /\ video_mem[y] = page[L] /\ page[L] \in Row
      BY <1>0, <1>1
    <2>2. r \in Row /\ x2 \in 0 .. VGA_WIDTH - 1
      BY <1>1, <2>1, RowAfterType
    <2>3. Wrapped(Written([mem |-> video_mem, x |-> x, y |-> y], c)) =
             [mem |-> m, x |-> x2, y |-> IF NextRow(x, c) THEN y + 1 ELSE y]
      <3> DEFINE D == 0 .. VGA_HEIGHT - 1
      <3>1. video_mem \in [D -> Row] /\ y \in D /\ y \in Nat /\ x \in 0 .. VGA_WIDTH - 1
        BY <1>0, <1>1, <2>1
      <3>2. AfterChar(video_mem, x, y, c) = [mem |-> m, x |-> x2, y |-> IF NextRow(x, c) THEN y + 1 ELSE y]
        BY DEF AfterChar
      <3> HIDE DEF D, m, x2
      <3> QED BY <3>1, <3>2, CharWritten
    <2>4. Wrapped(Written([mem |-> page, x |-> x, y |-> L], c)) =
             [mem |-> p, x |-> x2, y |-> IF NextRow(x, c) THEN L + 1 ELSE L]
      <3> DEFINE D == 1 .. L
      <3>1. page \in [D -> Row] /\ L \in D /\ L \in Nat /\ x \in 0 .. VGA_WIDTH - 1
        BY <1>0, <1>1
      <3>2. r = RowAfter(page[L], x, c)
        BY <2>1
      <3>3. AfterChar(page, x, L, c) = [mem |-> p, x |-> x2, y |-> IF NextRow(x, c) THEN L + 1 ELSE L]
        BY <3>2 DEF AfterChar
      <3> HIDE DEF D, p, x2
      <3> QED BY <3>1, <3>3, CharWritten
    <2> HIDE DEF r, x2
    <2>5. m \in [0 .. VGA_HEIGHT - 1 -> Row] /\ m[y] = r /\ \A k \in 0 .. VGA_HEIGHT - 1 : k # y => m[k] = video_mem[k]
      BY <1>0, <2>1, <2>2
    <2>6. /\ p \in Seq(Row) /\ Len(p) = L /\ p[L] = r
          /\ \A k \in 1 .. L : p[k] = IF k = L THEN r ELSE page[k]
      <3>1. L \in 1 .. L
        BY <1>1
      <3>2. /\ p \in Seq(Row) /\ Len(p) = Len(page)
            /\ \A k \in 1 .. Len(page) : p[k] = IF k = L THEN r ELSE page[k]
        BY <1>0, <2>2, <3>1, ExceptSeq DEF L
      <3> QED BY <3>1, <3>2 DEF L
    <2>7. UNCHANGED <<redirect_hook, pipe_buffer_len>> /\ pipe_buffer_len' < PIPE_BUF_SIZE
      BY <1>3 DEF console_putc, ScreenInv, ScreenShowsNewest
    <2> HIDE DEF m, p
    <2>8. \A k \in 0 .. VGA_HEIGHT - 1 : m[k] = IF k + hid < L THEN p[k + hid + 1] ELSE Blank
      <3> SUFFICES ASSUME NEW k \in 0 .. VGA_HEIGHT - 1 PROVE m[k] = IF k + hid < L THEN p[k + hid + 1] ELSE Blank
        OBVIOUS
      <3>1. CASE k = y
        BY <1>1, <2>1, <2>5, <2>6, <3>1
      <3>2. CASE k # y
        <4>1. m[k] = IF k + hid < L THEN page[k + hid + 1] ELSE Blank
          BY <1>0, <2>5, <3>2
        <4>2. k + hid < L => k + hid + 1 \in 1 .. L /\ k + hid + 1 # L
          BY <1>1, <2>1, <3>2
        <4> QED BY <2>6, <4>1, <4>2
      <3> QED BY <3>1, <3>2
    <2>11. (IF L > VGA_HEIGHT THEN L - VGA_HEIGHT ELSE 0) = hid
      BY <1>1
    <2>9. CASE ~NextRow(x, c)
      <3>1. /\ video_mem' = scroll([mem |-> m, x |-> x2, y |-> y]).mem
            /\ cursor_x' = scroll([mem |-> m, x |-> x2, y |-> y]).x
            /\ cursor_y' = scroll([mem |-> m, x |-> x2, y |-> y]).y
            /\ page' = p
        <4>1. ~(L > L)
          BY <1>1
        <4> QED BY <1>3, <2>3, <2>4, <2>9, <4>1 DEF console_putc, L, x, y
      <3>2. scroll([mem |-> m, x |-> x2, y |-> y]) = [mem |-> m, x |-> x2, y |-> y]
        BY <2>1, <1>1 DEF scroll
      <3>3. video_mem' = m /\ cursor_x' = x2 /\ cursor_y' = y /\ page' = p
        BY <3>1, <3>2
      <3>4. ScreenTypeOK'
        BY <1>1, <2>5, <2>6, <2>7, <3>3 DEF ScreenInv, ScreenTypeOK
      <3>5. ScreenShowsNewest'
        BY <1>1, <2>2, <2>6, <2>7, <2>8, <2>11, <3>3 DEF ScreenInv, ScreenShowsNewest
      <3> QED BY <3>4, <3>5 DEF ScreenInv
    <2>10. CASE NextRow(x, c)
      <3> DEFINE q == Append(p, Blank)
                 s == [mem |-> m, x |-> x2, y |-> y + 1]
      <3>1. /\ video_mem' = scroll(s).mem /\ cursor_x' = scroll(s).x /\ cursor_y' = scroll(s).y
            /\ page' = q
        <4>1. L + 1 > L
          BY <1>1
        <4> QED BY <1>3, <2>3, <2>4, <2>10, <4>1 DEF console_putc, L, x, y
      <3>2. Blank \in Row
        BY DEF Blank, Row, Glyph
      <3>3. /\ q \in Seq(Row) /\ Len(q) = L + 1 /\ q[L + 1] = Blank
            /\ \A k \in 1 .. L : q[k] = p[k]
        BY <1>1, <2>6, <3>2, AppendProperties
      <3> HIDE DEF q
      <3>4. CASE y + 1 < VGA_HEIGHT
        <4>1. scroll(s) = s
          BY <1>1, <3>4 DEF scroll
        <4>2. video_mem' = m /\ cursor_x' = x2 /\ cursor_y' = y + 1 /\ page' = q
          BY <3>1, <4>1
        <4>3. hid = 0 /\ L < VGA_HEIGHT
          BY <1>1, <3>4
        <4>4. \A k \in 0 .. VGA_HEIGHT - 1 : m[k] = IF k < L + 1 THEN q[k + 1] ELSE Blank
          <5> SUFFICES ASSUME NEW k \in 0 .. VGA_HEIGHT - 1 PROVE m[k] = IF k < L + 1 THEN q[k + 1] ELSE Blank
            OBVIOUS
          <5>1. m[k] = IF k < L THEN p[k + 1] ELSE Blank
            BY <1>1, <2>8, <4>3
          <5>2. k < L => k + 1 \in 1 .. L
            BY <1>1
          <5> QED BY <1>1, <3>3, <5>1, <5>2
        <4>5. ScreenTypeOK'
          BY <1>1, <2>5, <2>7, <3>3, <4>2 DEF ScreenInv, ScreenTypeOK
        <4>6. ScreenShowsNewest'
          <5>1. (IF L + 1 > VGA_HEIGHT THEN L + 1 - VGA_HEIGHT ELSE 0) = 0 /\ y + 1 = L + 1 - 0 - 1
            BY <1>1, <4>3
          <5>2. \A k \in 0 .. VGA_HEIGHT - 1 : m[k] = IF k + 0 < L + 1 THEN q[k + 0 + 1] ELSE Blank
            BY <4>4
          <5>3. Len(page') = L + 1 /\ cursor_x' \in 0 .. VGA_WIDTH - 1 /\ cursor_y' = y + 1
            BY <2>2, <3>3, <4>2
          <5>4. \A k \in 0 .. VGA_HEIGHT - 1 : video_mem'[k] = IF k + 0 < L + 1 THEN page'[k + 0 + 1] ELSE Blank
            BY <4>2, <5>2
          <5> DEFINE len == Len(page')
                     h == IF len > VGA_HEIGHT THEN len - VGA_HEIGHT ELSE 0
          <5>8. len = L + 1
            BY <5>3
          <5>5. h = 0
            <6> HIDE DEF len
            <6> QED BY <4>3, <1>1, <5>8
          <5>6. cursor_y' = len - h - 1
            <6> HIDE DEF len, h
            <6> QED BY <1>1, <4>3, <5>3, <5>5, <5>8
          <5>7. \A k \in 0 .. VGA_HEIGHT - 1 : video_mem'[k] = IF k + h < len THEN page'[k + h + 1] ELSE Blank
            BY <5>3, <5>4, <5>5
          <5> QED BY <2>7, <5>3, <5>6, <5>7, Zenon DEF ScreenShowsNewest
        <4> QED BY <4>5, <4>6 DEF ScreenInv
      <3>5. CASE ~(y + 1 < VGA_HEIGHT)
        <4> DEFINE v == [k \in 0 .. VGA_HEIGHT - 1 |-> IF k + 1 < VGA_HEIGHT THEN m[k + 1] ELSE Blank]
        <4>1. y = VGA_HEIGHT - 1 /\ L = VGA_HEIGHT + hid
          BY <1>1, <2>1, <3>5
        <4>2. scroll(s) = [mem |-> v, x |-> x2, y |-> VGA_HEIGHT - 1]
          <5>1. s.y - VGA_HEIGHT + 1 = 1 /\ ~(s.y < VGA_HEIGHT)
            BY <1>1, <4>1
          <5>2. DOMAIN s.mem = 0 .. VGA_HEIGHT - 1
            BY <2>5
          <5>3. scroll(s) = [s EXCEPT !.mem = [k \in DOMAIN s.mem |-> IF k + 1 < VGA_HEIGHT THEN s.mem[k + 1] ELSE Blank],
                                      !.y = VGA_HEIGHT - 1]
            <6> HIDE DEF s
            <6> QED BY <5>1 DEF scroll
          <5>4. [k \in DOMAIN s.mem |-> IF k + 1 < VGA_HEIGHT THEN s.mem[k + 1] ELSE Blank] = v
            BY <5>2
          <5> HIDE DEF v
          <5> QED BY <5>3, <5>4
        <4>3. video_mem' = v /\ cursor_x' = x2 /\ cursor_y' = VGA_HEIGHT - 1 /\ page' = q
          <5> HIDE DEF s, v
          <5> QED BY <3>1, <4>2
        <4>4. v \in [0 .. VGA_HEIGHT - 1 -> Row]
          BY <1>1, <2>5, <3>2
        <4>5. \A k \in 0 .. VGA_HEIGHT - 1 : v[k] = IF k + (hid + 1) < L + 1 THEN q[k + (hid + 1) + 1] ELSE Blank
          <5> SUFFICES ASSUME NEW k \in 0 .. VGA_HEIGHT - 1
                       PROVE  v[k] = IF k + (hid + 1) < L + 1 THEN q[k + (hid + 1) + 1] ELSE Blank
            OBVIOUS
          <5>1. CASE k + 1 < VGA_HEIGHT
            <6>1. v[k] = m[k + 1] /\ k + 1 \in 0 .. VGA_HEIGHT - 1
              BY <1>1, <5>1
            <6>2. k + 1 + hid < L /\ k + 1 + hid + 1 \in 1 .. L
              BY <1>1, <4>1, <5>1
            <6>3. m[k + 1] = p[k + 1 + hid + 1]
              BY <2>8, <6>1, <6>2
            <6>4. k + (hid + 1) + 1 = k + 1 + hid + 1
              BY <1>1
            <6>5. k + (hid + 1) < L + 1
              BY <1>1, <6>2
            <6>6. q[k + (hid + 1) + 1] = p[k + 1 + hid + 1]
              <7> HIDE DEF hid, v
              <7> QED BY <3>3, <6>2, <6>4
            <6> HIDE DEF hid, v
            <6> QED BY <6>1, <6>3, <6>5, <6>6
          <5>2. CASE ~(k + 1 < VGA_HEIGHT)
            <6>1. v[k] = Blank /\ k + (hid + 1) + 1 = L + 1
              BY <1>1, <4>1, <5>2
            <6> HIDE DEF v, hid
            <6> QED BY <3>3, <6>1
          <5> QED BY <5>1, <5>2
        <4> HIDE DEF v
        <4>6. ScreenTypeOK'
          BY <1>1, <2>7, <3>3, <4>3, <4>4 DEF ScreenInv, ScreenTypeOK
        <4>7. (IF L + 1 > VGA_HEIGHT THEN L + 1 - VGA_HEIGHT ELSE 0) = hid + 1 /\ VGA_HEIGHT - 1 = L + 1 - (hid + 1) - 1
          BY <1>1, <4>1
        <4>8. ScreenShowsNewest'
          <5>1. Len(page') = L + 1 /\ cursor_x' \in 0 .. VGA_WIDTH - 1 /\ cursor_y' = VGA_HEIGHT - 1
            BY <2>2, <3>3, <4>3
          <5>2. \A k \in 0 .. VGA_HEIGHT - 1 :
                  video_mem'[k] = IF k + (hid + 1) < L + 1 THEN page'[k + (hid + 1) + 1] ELSE Blank
            BY <4>3, <4>5
          <5> DEFINE len == Len(page')
                     h == IF len > VGA_HEIGHT THEN len - VGA_HEIGHT ELSE 0
          <5>6. len = L + 1
            BY <5>1
          <5>3. h = hid + 1
            <6> HIDE DEF len
            <6> QED BY <1>1, <4>1, <5>6
          <5>4. cursor_y' = len - h - 1
            <6> HIDE DEF len, h
            <6> QED BY <1>1, <4>1, <5>1, <5>3, <5>6
          <5>5. \A k \in 0 .. VGA_HEIGHT - 1 : video_mem'[k] = IF k + h < len THEN page'[k + h + 1] ELSE Blank
            <6> HIDE DEF h, len
            <6>1. len = L + 1
              BY <5>1 DEF len
            <6> QED BY <5>2, <5>3, <6>1
          <5> QED BY <2>7, <5>1, <5>4, <5>5, Zenon DEF ScreenShowsNewest
        <4> QED BY <4>6, <4>8 DEF ScreenInv
      <3> QED BY <3>4, <3>5
    <2> QED BY <2>9, <2>10
  <1> QED BY <1>2, <1>3

LEMMA ClearedScreen ==
  /\ Blank \in Row /\ Cleared \in [0 .. VGA_HEIGHT - 1 -> Row]
  /\ <<Blank>> \in Seq(Row) /\ Len(<<Blank>>) = 1 /\ <<Blank>>[1] = Blank
  /\ \A k \in 0 .. VGA_HEIGHT - 1 : Cleared[k] = Blank
  BY DEF Blank, Cleared, Row, Glyph

(***************************************************************************)
(* For every size of the screen it shows the newest rows written, with the *)
(* cursor in the last, through wrapping, scrolling, tabs and backspaces at *)
(* the margins, clearing and the pipe's hook (console.c).                  *)
(***************************************************************************)
THEOREM ScreenCorrect == ScreenSpec => []ScreenShowsNewest
  <1>1. ASSUME ScreenTypeOK, video_mem' = Cleared, cursor_x' = 0, cursor_y' = 0, page' = <<Blank>>,
               pipe_buffer_len' = pipe_buffer_len
        PROVE  ScreenInv'
    <2>1. ScreenTypeOK'
      BY <1>1, ClearedScreen DEF ScreenTypeOK
    <2>2. ScreenShowsNewest'
      BY <1>1, ScreenAssumption, ClearedScreen DEF ScreenTypeOK, ScreenShowsNewest
    <2> QED BY <2>1, <2>2 DEF ScreenInv
  <1>2. ScreenInit => ScreenInv
    <2> SUFFICES ASSUME ScreenInit PROVE ScreenInv
      OBVIOUS
    <2>1. ScreenTypeOK
      BY ScreenAssumption, ClearedScreen DEF ScreenInit, ScreenTypeOK
    <2>2. ScreenShowsNewest
      BY ScreenAssumption, ClearedScreen DEF ScreenInit, ScreenShowsNewest
    <2> QED BY <2>1, <2>2 DEF ScreenInv
  <1>3. ScreenInv /\ [ScreenNext]_screenVars => ScreenInv'
    <2> SUFFICES ASSUME ScreenInv, [ScreenNext]_screenVars PROVE ScreenInv'
      OBVIOUS
    <2>1. ASSUME NEW c \in Chars, console_putc(c) PROVE ScreenInv'
      BY <2>1, PutcKeepsScreen
    <2>2. CASE console_clear
      BY <1>1, <2>2 DEF console_clear, ScreenInv
    <2>3. CASE pipe_begin \/ pipe_end \/ UNCHANGED screenVars
      <3>1. UNCHANGED <<video_mem, cursor_x, cursor_y, page>> /\ pipe_buffer_len' \in {0, pipe_buffer_len}
        BY <2>3 DEF pipe_begin, pipe_end, screenVars
      <3> QED BY <3>1, ScreenAssumption DEF ScreenInv, ScreenTypeOK, ScreenShowsNewest
    <2> QED BY <2>1, <2>2, <2>3 DEF ScreenNext, Chars
  <1>4. ScreenInv => ScreenShowsNewest
    BY DEF ScreenInv
  <1> QED BY <1>2, <1>3, <1>4, PTL DEF ScreenSpec

-----------------------------------------------------------------------------
(* The message ring. *)
(* The slot d places behind the head. *)
Behind(d) == IF d <= kmsg_head THEN kmsg_head - d ELSE kmsg_head + KMSG_BUF_SIZE - d

(* The ring holds the newest messages, counted backwards from the head;    *)
(* until it is full, the head is the number of messages added.             *)
KmsgRingInv ==
    /\ kmsg_total <= Len(history)
    /\ kmsg_total < KMSG_BUF_SIZE => kmsg_total = Len(history) /\ kmsg_head = kmsg_total
    /\ \A d \in 1..kmsg_total : kmsg_ring[Behind(d)] = history[Len(history) + 1 - d]

(* The wrapping used by the code: one subtraction is enough below 2S. *)
LEMMA KmsgWrap ==
    \A a \in 0..(2 * KMSG_BUF_SIZE - 1) : a % KMSG_BUF_SIZE = IF a < KMSG_BUF_SIZE THEN a ELSE a - KMSG_BUF_SIZE
  <1> SUFFICES ASSUME NEW a \in 0..(2 * KMSG_BUF_SIZE - 1)
               PROVE  a % KMSG_BUF_SIZE = IF a < KMSG_BUF_SIZE THEN a ELSE a - KMSG_BUF_SIZE
    OBVIOUS
  <1>0. KMSG_BUF_SIZE \in Nat \ {0}
    BY KMsgAssumption
  <1>1. a % KMSG_BUF_SIZE \in 0..(KMSG_BUF_SIZE-1) /\ a = KMSG_BUF_SIZE * (a \div KMSG_BUF_SIZE) + (a % KMSG_BUF_SIZE) /\ a \div KMSG_BUF_SIZE \in Int
    BY <1>0
  <1>2. a \div KMSG_BUF_SIZE = 0 \/ a \div KMSG_BUF_SIZE = 1
    BY <1>0, <1>1
  <1> QED BY <1>0, <1>1, <1>2

(* Every kmsg operation keeps the ring's fields within their types. *)
THEOREM KmsgTypeCorrect == KmsgSpec => []KmsgTypeOK
  <1> USE KMsgAssumption
  <1>1. KmsgInit => KmsgTypeOK
    BY DEF KmsgInit, KmsgTypeOK, KmsgEntry
  <1>2. KmsgTypeOK /\ [KmsgNext]_kmsgVars => KmsgTypeOK'
    <2> SUFFICES ASSUME KmsgTypeOK, [KmsgNext]_kmsgVars PROVE KmsgTypeOK'
      OBVIOUS
    <2> USE DEF KmsgTypeOK, KmsgEntry
    <2>1. CASE Tick
      BY <2>1 DEF Tick
    <2>2. ASSUME NEW level \in Levels, NEW msg \in Msgs, kmsg_add(level, msg)
          PROVE  KmsgTypeOK'
      <3>1. kmsg_head' \in 0..(KMSG_BUF_SIZE - 1)
        BY <2>2 DEF kmsg_add
      <3>2. QED BY <2>2, <3>1 DEF kmsg_add
    <2>3. CASE UNCHANGED kmsgVars
      BY <2>3 DEF kmsgVars
    <2> QED BY <2>1, <2>2, <2>3 DEF KmsgNext
  <1> QED BY <1>1, <1>2, PTL DEF KmsgSpec

LEMMA KmsgRingInvHolds == KmsgSpec => []KmsgRingInv
  <1> USE KMsgAssumption
  <1>1. KmsgInit => KmsgRingInv
    BY DEF KmsgInit, KmsgRingInv
  <1>2. KmsgTypeOK /\ KmsgRingInv /\ [KmsgNext]_kmsgVars => KmsgRingInv'
    <2> SUFFICES ASSUME KmsgTypeOK, KmsgRingInv, [KmsgNext]_kmsgVars PROVE KmsgRingInv'
      OBVIOUS
    <2>1. CASE Tick
      BY <2>1 DEF Tick, KmsgRingInv, Behind
    <2>2. ASSUME NEW level \in Levels, NEW msg \in Msgs, kmsg_add(level, msg)
          PROVE  KmsgRingInv'
      <3> DEFINE e == [timestamp |-> timer_ticks, level |-> level, msg |-> msg]
      <3>0. kmsg_head' = IF kmsg_head + 1 < KMSG_BUF_SIZE THEN kmsg_head + 1 ELSE 0
        <4> DEFINE a == kmsg_head + 1
        <4>1. a \in 0..(2 * KMSG_BUF_SIZE - 1) /\ KMSG_BUF_SIZE \in Nat \ {0} /\ a <= KMSG_BUF_SIZE
          BY DEF KmsgTypeOK
        <4>2. kmsg_head' = a % KMSG_BUF_SIZE
          BY <2>2 DEF kmsg_add
        <4> HIDE DEF a
        <4>3. a % KMSG_BUF_SIZE = IF a < KMSG_BUF_SIZE THEN a ELSE a - KMSG_BUF_SIZE
          BY <4>1, KmsgWrap
        <4>4. kmsg_head' = IF a < KMSG_BUF_SIZE THEN a ELSE 0
          BY <4>1, <4>2, <4>3
        <4> QED BY <4>4 DEF a
      <3>1. /\ Len(history') = Len(history) + 1
            /\ \A j \in 1..Len(history) : history'[j] = history[j]
            /\ history'[Len(history) + 1] = e
            /\ Len(history) \in Nat
        BY <2>2 DEF kmsg_add, KmsgTypeOK, KmsgEntry
      <3>2. /\ kmsg_ring' = [kmsg_ring EXCEPT ![kmsg_head] = e]
            /\ kmsg_total' = IF kmsg_total < KMSG_BUF_SIZE THEN kmsg_total + 1 ELSE kmsg_total
        BY <2>2 DEF kmsg_add
      <3>3. /\ kmsg_head \in 0..(KMSG_BUF_SIZE-1) /\ kmsg_total \in 0..KMSG_BUF_SIZE /\ KMSG_BUF_SIZE \in Nat \ {0}
            /\ DOMAIN kmsg_ring = 0..(KMSG_BUF_SIZE-1)
        BY DEF KmsgTypeOK
      <3>4. /\ kmsg_total' <= Len(history')
            /\ kmsg_total' < KMSG_BUF_SIZE => kmsg_total' = Len(history') /\ kmsg_head' = kmsg_total'
        BY <3>0, <3>1, <3>2, <3>3 DEF KmsgRingInv
      <3>5. ASSUME NEW d \in 1..kmsg_total'
            PROVE  kmsg_ring'[Behind(d)'] = history'[Len(history') + 1 - d]
        <4>1. CASE d = 1
          BY <4>1, <3>0, <3>1, <3>2, <3>3 DEF Behind
        <4>2. CASE d > 1
          <5>1. d - 1 \in 1..kmsg_total
            BY <4>2, <3>2, <3>3
          <5>2. Behind(d)' = Behind(d - 1) /\ Behind(d - 1) # kmsg_head /\ Behind(d - 1) \in 0..(KMSG_BUF_SIZE-1)
            BY <4>2, <3>0, <3>2, <3>3 DEF Behind
          <5>3. kmsg_ring'[Behind(d)'] = kmsg_ring[Behind(d - 1)]
            BY <5>2, <3>2, <3>3
          <5>4. kmsg_ring[Behind(d - 1)] = history[Len(history) + 1 - (d - 1)]
            BY <5>1 DEF KmsgRingInv
          <5>5. Len(history) + 1 - (d - 1) = Len(history') + 1 - d
                /\ Len(history) + 1 - (d - 1) \in 1..Len(history)
            BY <5>1, <3>1, <3>3 DEF KmsgRingInv
          <5> QED BY <5>3, <5>4, <5>5, <3>1
        <4> QED BY <4>1, <4>2, <3>2, <3>3
      <3> QED BY <3>4, <3>5 DEF KmsgRingInv
    <2>3. CASE UNCHANGED kmsgVars
      BY <2>3 DEF kmsgVars, KmsgRingInv, Behind
    <2> QED BY <2>1, <2>2, <2>3 DEF KmsgNext
  <1> QED BY <1>1, <1>2, KmsgTypeCorrect, PTL DEF KmsgSpec

(* For every ring size, reading kmsg_get(0..kmsg_count-1), as dmesg does,  *)
(* yields the newest kmsg_count messages in the order they were added.     *)
THEOREM DmesgCorrect == KmsgSpec => []DmesgShowsNewest
  <1> USE KMsgAssumption
  <1>1. KmsgTypeOK /\ KmsgRingInv => DmesgShowsNewest
    <2> SUFFICES ASSUME KmsgTypeOK, KmsgRingInv PROVE DmesgShowsNewest
      OBVIOUS
    <2>1. /\ kmsg_head \in 0..(KMSG_BUF_SIZE-1) /\ kmsg_total \in 0..KMSG_BUF_SIZE /\ KMSG_BUF_SIZE \in Nat \ {0}
          /\ Len(history) \in Nat
      BY DEF KmsgTypeOK
    <2>2. ASSUME NEW i \in 0..(kmsg_total - 1)
          PROVE  kmsg_get(i) = history[Len(history) - kmsg_total + 1 + i]
      <3> DEFINE d == kmsg_total - i
                 a == (IF kmsg_total < KMSG_BUF_SIZE THEN 0 ELSE kmsg_head) + i
      <3>1. d \in 1..kmsg_total /\ a \in 0..(2 * KMSG_BUF_SIZE - 1)
        BY <2>1
      <3>2. Behind(d) = IF a < KMSG_BUF_SIZE THEN a ELSE a - KMSG_BUF_SIZE
        BY <2>1 DEF Behind, KmsgRingInv
      <3>3. kmsg_get(i) = kmsg_ring[a % KMSG_BUF_SIZE]
        BY DEF kmsg_get
      <3>4. kmsg_get(i) = kmsg_ring[Behind(d)]
        <4> HIDE DEF a
        <4>1. a % KMSG_BUF_SIZE = IF a < KMSG_BUF_SIZE THEN a ELSE a - KMSG_BUF_SIZE
          BY <3>1, KmsgWrap
        <4> QED BY <3>2, <3>3, <4>1
      <3>5. kmsg_ring[Behind(d)] = history[Len(history) + 1 - d]
        BY <3>1 DEF KmsgRingInv
      <3>6. Len(history) + 1 - d = Len(history) - kmsg_total + 1 + i
        BY <2>1
      <3> QED BY <3>4, <3>5, <3>6
    <2> QED BY <2>1, <2>2 DEF DmesgShowsNewest, kmsg_count, KmsgRingInv
  <1> QED BY <1>1, KmsgTypeCorrect, KmsgRingInvHolds, PTL

-----------------------------------------------------------------------------
(***************************************************************************)
(* The shell's commands.  Its paths and its texts are worked on in loops;  *)
(* what such a loop computes is shown by induction on its rounds, with the  *)
(* least round that fails.                                                  *)
(***************************************************************************)
(* A set of rounds that holds the first and, with each, the next, holds all. *)
LEMMA AllRounds ==
  ASSUME NEW n \in Nat, NEW T, 0 \in T, \A k \in 1 .. n : k - 1 \in T => k \in T
  PROVE  \A k \in 0 .. n : k \in T
  <1> DEFINE D == {k \in 0 .. n : k \notin T}
  <1>1. SUFFICES ASSUME D # {} PROVE FALSE
    OBVIOUS
  <1>2. PICK k \in D : \A j \in D : k <= j
    <2>1. D \subseteq Nat
      OBVIOUS
    <2> HIDE DEF D
    <2> QED BY <1>1, <2>1, SmallestExists
  <1>3. k \in 1 .. n /\ k - 1 \in 0 .. n
    BY <1>2
  <1>4. k - 1 \in T
    BY <1>2, <1>3
  <1> QED BY <1>2, <1>3, <1>4

(***************************************************************************)
(* A loop is a recursive function of the number of its rounds.  Its rounds *)
(* exist when the step, as a function, stays in a set.                     *)
(***************************************************************************)
RoundsOf(f, start, step, n) == f = [k \in 0 .. n |-> IF k = 0 THEN start ELSE step[<<f[k - 1], k>>]]

LEMMA RoundsThere ==
  ASSUME NEW S, NEW start \in S, NEW n \in Nat, NEW step \in [S \X (1 .. n) -> S]
  PROVE  \E f \in [0 .. n -> S] : RoundsOf(f, start, step, n)
  <1> DEFINE Is(f, m) == f \in [0 .. m -> S] /\ RoundsOf(f, start, step, m)
             T == {m \in 0 .. n : \E f : Is(f, m)}
  <1>1. 0 \in T
    <2>1. Is([k \in 0 .. 0 |-> start], 0)
      BY DEF RoundsOf
    <2> QED BY <2>1
  <1>2. ASSUME NEW m \in 1 .. n, m - 1 \in T PROVE m \in T
    <2>1. PICK f : Is(f, m - 1)
      BY <1>2
    <2> DEFINE g == [k \in 0 .. m |-> IF k = m THEN step[<<f[m - 1], m>>] ELSE f[k]]
    <2>2. m - 1 \in 0 .. m - 1 /\ f[m - 1] \in S
      BY <2>1
    <2>3. ASSUME NEW k \in 0 .. m
          PROVE  g[k] \in S /\ g[k] = IF k = 0 THEN start ELSE step[<<g[k - 1], k>>]
      <3>1. CASE k = m
        <4>1. g[k - 1] = f[m - 1] /\ k # 0 /\ g[k] = step[<<f[m - 1], m>>]
          BY <3>1
        <4>2. step[<<f[m - 1], m>>] \in S
          BY <2>2
        <4> HIDE DEF g
        <4> QED BY <3>1, <4>1, <4>2
      <3>2. CASE k # m
        <4>1. k \in 0 .. m - 1 /\ g[k] = f[k] /\ f[k] \in S
          BY <2>1, <3>2
        <4>2. f[k] = IF k = 0 THEN start ELSE step[<<f[k - 1], k>>]
          BY <2>1, <4>1 DEF RoundsOf
        <4>3. k # 0 => k - 1 \in 0 .. m /\ k - 1 # m
          BY <4>1
        <4>4. k # 0 => g[k - 1] = f[k - 1]
          BY <4>3
        <4> HIDE DEF g
        <4> QED BY <4>1, <4>2, <4>4
      <3> QED BY <3>1, <3>2
    <2>4. g = [k \in 0 .. m |-> g[k]]
      OBVIOUS
    <2> HIDE DEF g
    <2>5. g \in [0 .. m -> S]
      BY <2>3, <2>4
    <2>6. [k \in 0 .. m |-> g[k]] = [k \in 0 .. m |-> IF k = 0 THEN start ELSE step[<<g[k - 1], k>>]]
      BY <2>3
    <2>7. Is(g, m)
      BY <2>4, <2>5, <2>6 DEF RoundsOf
    <2>8. m \in 0 .. n
      OBVIOUS
    <2> QED BY <2>7, <2>8
  <1> HIDE DEF T
  <1>3. \A k \in 0 .. n : k \in T
    BY <1>1, <1>2, AllRounds
  <1>4. n \in T
    BY <1>3
  <1> QED BY <1>4 DEF T

(***************************************************************************)
(* Paths.  A name is a text, or one with the blank before a '|'.           *)
(***************************************************************************)
Names == STRING \cup {c \o " " : c \in STRING} \cup {"?"}
Paths == Seq(Names)

LEMMA NoNodeIsPath == NoSuchNode \in Paths
  <1>1. "?" \in Names
    BY DEF Names
  <1> QED BY <1>1 DEF NoSuchNode, Paths

(* What Front leaves of a sequence. *)
LEMMA FrontOf ==
  ASSUME NEW S, NEW p \in Seq(S), p # <<>>
  PROVE  /\ Front(p) \in Seq(S) /\ Len(p) \in Nat \ {0} /\ Len(Front(p)) = Len(p) - 1
         /\ \A i \in 1 .. Len(p) - 1 : Front(p)[i] = p[i]
         /\ p[Len(p)] \in S /\ p = Append(Front(p), p[Len(p)])
  <1>1. Len(p) \in Nat \ {0}
    BY EmptySeq
  <1>2. /\ Front(p) \in Seq(S) /\ Len(Front(p)) = Len(p) - 1
        /\ \A i \in 1 .. Len(p) - 1 : Front(p)[i] = p[i]
    <2>1. Len(p) - 1 \in Int /\ 1 \in Int /\ \A i \in 1 .. Len(p) - 1 : p[i] \in S
      BY <1>1
    <2>2. /\ SubSeq(p, 1, Len(p) - 1) \in Seq(S)
          /\ Len(SubSeq(p, 1, Len(p) - 1)) = IF 1 <= Len(p) - 1 THEN Len(p) - 1 - 1 + 1 ELSE 0
          /\ \A i \in 1 .. Len(p) - 1 - 1 + 1 : SubSeq(p, 1, Len(p) - 1)[i] = p[1 + i - 1]
      BY <2>1, SubSeqProperties
    <2>3. Front(p) = SubSeq(p, 1, Len(p) - 1)
      BY DEF Front
    <2> DEFINE f == SubSeq(p, 1, Len(p) - 1)
    <2> HIDE DEF f
    <2>4. f \in Seq(S)
      BY <2>2 DEF f
    <2>5. Len(f) = Len(p) - 1
      <3>1. Len(f) = IF 1 <= Len(p) - 1 THEN Len(p) - 1 - 1 + 1 ELSE 0
        BY <2>2 DEF f
      <3>2. \A n \in Nat \ {0} : (IF 1 <= n - 1 THEN n - 1 - 1 + 1 ELSE 0) = n - 1
        OBVIOUS
      <3> QED BY <1>1, <3>1, <3>2
    <2>6. \A i \in 1 .. Len(p) - 1 : f[i] = p[i]
      <3>1. \A i \in 1 .. Len(p) - 1 : i \in 1 .. Len(p) - 1 - 1 + 1 /\ 1 + i - 1 = i
        BY <1>1
      <3>2. \A i \in 1 .. Len(p) - 1 - 1 + 1 : f[i] = p[1 + i - 1]
        BY <2>2 DEF f
      <3> QED BY <3>1, <3>2
    <2> QED BY <2>3, <2>4, <2>5, <2>6 DEF f
  <1>3. p[Len(p)] \in S
    BY <1>1
  <1>4. p = Append(Front(p), p[Len(p)])
    <2> DEFINE f == Front(p)
    <2> HIDE DEF f
    <2>1. /\ Append(f, p[Len(p)]) \in Seq(S) /\ Len(Append(f, p[Len(p)])) = Len(p)
          /\ \A i \in 1 .. Len(p) : Append(f, p[Len(p)])[i] = p[i]
      BY <1>1, <1>2, <1>3 DEF f
    <2> QED BY <2>1, SeqEqual DEF f
  <1> QED BY <1>1, <1>2, <1>3, <1>4

WalkOf(at, tmp, start, comps) ==
  /\ at \in [0 .. Len(comps) -> Paths]
  /\ at[0] = start /\ KsWalk(tmp, start, comps) = at[Len(comps)]
  /\ \A k \in 1 .. Len(comps) : at[k] = KsStep(tmp, at[k - 1], comps[k])

LEMMA WalkUnfolds ==
  ASSUME NEW tmp, NEW start \in Paths, NEW comps \in Paths
  PROVE  \E at : WalkOf(at, tmp, start, comps)
  <1> DEFINE n == Len(comps)
             step == [x \in Paths \X (1 .. n) |-> KsStep(tmp, x[1], comps[x[2]])]
             Is(at) == at = [k \in 0 .. n |-> IF k = 0 THEN start ELSE KsStep(tmp, at[k - 1], comps[k])]
             walk == CHOOSE at : Is(at)
  <1>1. n \in Nat
    OBVIOUS
  <1>2. ASSUME NEW p \in Paths, NEW k \in 1 .. n PROVE KsStep(tmp, p, comps[k]) \in Paths
    <2>1. comps[k] \in Names
      BY DEF Paths
    <2>2. NoSuchNode \in Paths
      BY NoNodeIsPath
    <2>3. Append(p, comps[k]) \in Paths
      BY <2>1 DEF Paths
    <2>4. p # <<>> => Front(p) \in Paths
      BY DEF Front, Paths
    <2> QED BY <2>2, <2>3, <2>4 DEF KsStep
  <1>3. step \in [Paths \X (1 .. n) -> Paths]
    BY <1>2
  <1>4. PICK f \in [0 .. n -> Paths] : RoundsOf(f, start, step, n)
    <2> HIDE DEF step, n
    <2> QED BY <1>1, <1>3, RoundsThere
  <1>5. ASSUME NEW k \in 1 .. n PROVE k - 1 \in 0 .. n /\ step[<<f[k - 1], k>>] = KsStep(tmp, f[k - 1], comps[k])
    <2>1. f[k - 1] \in Paths
      BY <1>4
    <2> QED BY <2>1
  <1> HIDE DEF step
  <1>6. \A k \in 0 .. n : (IF k = 0 THEN start ELSE step[<<f[k - 1], k>>]) = IF k = 0 THEN start ELSE KsStep(tmp, f[k - 1], comps[k])
    <2>1. \A k \in 0 .. n : k = 0 \/ k \in 1 .. n
      BY <1>1
    <2> HIDE DEF n
    <2> QED BY <1>5, <2>1
  <1>7. Is(f)
    <2>1. [k \in 0 .. n |-> IF k = 0 THEN start ELSE step[<<f[k - 1], k>>]]
            = [k \in 0 .. n |-> IF k = 0 THEN start ELSE KsStep(tmp, f[k - 1], comps[k])]
      BY <1>6
    <2> QED BY <1>4, <2>1 DEF RoundsOf
  <1>8. Is(walk)
    <2> HIDE DEF Is
    <2> QED BY <1>7
  <1>9. KsWalk(tmp, start, comps) = walk[n]
    BY DEF KsWalk
  <1> HIDE DEF walk
  <1>10. walk[0] = start /\ \A k \in 1 .. n : walk[k] = KsStep(tmp, walk[k - 1], comps[k])
    BY <1>1, <1>8
  <1>11. DOMAIN walk = 0 .. n /\ \A k \in 0 .. n : walk[k] \in Paths
    <2> DEFINE T == {k \in 0 .. n : walk[k] \in Paths}
    <2>1. 0 \in T /\ \A k \in 1 .. n : k - 1 \in T => k \in T
      BY <1>1, <1>2, <1>10
    <2> HIDE DEF T
    <2>2. \A k \in 0 .. n : k \in T
      BY <1>1, <2>1, AllRounds
    <2> QED BY <1>8, <2>2 DEF T
  <1>12. walk \in [0 .. n -> Paths]
    BY <1>8, <1>11
  <1> QED BY <1>9, <1>10, <1>12 DEF WalkOf

(* The names of a path are looked at from the left. *)
NamesOf(parts, comps) ==
  /\ parts \in [0 .. Len(comps) -> Paths]
  /\ parts[0] = <<>> /\ KsNames(comps) = parts[Len(comps)]
  /\ \A k \in 1 .. Len(comps) : parts[k] = KsName(parts[k - 1], comps[k])

LEMMA NamesUnfold ==
  ASSUME NEW comps \in Paths
  PROVE  \E parts : NamesOf(parts, comps)
  <1> DEFINE n == Len(comps)
             step == [x \in Paths \X (1 .. n) |-> KsName(x[1], comps[x[2]])]
             Is(at) == at = [k \in 0 .. n |-> IF k = 0 THEN <<>> ELSE KsName(at[k - 1], comps[k])]
             loop == CHOOSE at : Is(at)
  <1>1. n \in Nat /\ <<>> \in Paths
    BY DEF Paths
  <1>2. ASSUME NEW p \in Paths, NEW k \in 1 .. n PROVE KsName(p, comps[k]) \in Paths
    <2>1. comps[k] \in Names
      BY DEF Paths
    <2>2. Append(p, comps[k]) \in Paths
      BY <2>1 DEF Paths
    <2>3. p # <<>> => Front(p) \in Paths
      BY DEF Front, Paths
    <2> QED BY <2>2, <2>3 DEF KsName
  <1>3. step \in [Paths \X (1 .. n) -> Paths]
    BY <1>2
  <1>4. PICK f \in [0 .. n -> Paths] : RoundsOf(f, <<>>, step, n)
    <2> HIDE DEF step, n
    <2> QED BY <1>1, <1>3, RoundsThere
  <1>5. ASSUME NEW k \in 1 .. n PROVE k - 1 \in 0 .. n /\ step[<<f[k - 1], k>>] = KsName(f[k - 1], comps[k])
    <2>1. f[k - 1] \in Paths
      BY <1>4
    <2> QED BY <2>1
  <1> HIDE DEF step
  <1>6. \A k \in 0 .. n : (IF k = 0 THEN <<>> ELSE step[<<f[k - 1], k>>]) = IF k = 0 THEN <<>> ELSE KsName(f[k - 1], comps[k])
    <2>1. \A k \in 0 .. n : k = 0 \/ k \in 1 .. n
      BY <1>1
    <2> HIDE DEF n
    <2> QED BY <1>5, <2>1
  <1>7. Is(f)
    <2>1. [k \in 0 .. n |-> IF k = 0 THEN <<>> ELSE step[<<f[k - 1], k>>]]
            = [k \in 0 .. n |-> IF k = 0 THEN <<>> ELSE KsName(f[k - 1], comps[k])]
      BY <1>6
    <2> QED BY <1>4, <2>1 DEF RoundsOf
  <1>8. Is(loop)
    <2> HIDE DEF Is
    <2> QED BY <1>7
  <1>9. KsNames(comps) = loop[n]
    BY DEF KsNames
  <1> HIDE DEF loop
  <1>10. loop[0] = <<>> /\ \A k \in 1 .. n : loop[k] = KsName(loop[k - 1], comps[k])
    BY <1>1, <1>8
  <1>11. DOMAIN loop = 0 .. n /\ \A k \in 0 .. n : loop[k] \in Paths
    <2> DEFINE T == {k \in 0 .. n : loop[k] \in Paths}
    <2>1. 0 \in T /\ \A k \in 1 .. n : k - 1 \in T => k \in T
      BY <1>1, <1>2, <1>10
    <2> HIDE DEF T
    <2>2. \A k \in 0 .. n : k \in T
      BY <1>1, <2>1, AllRounds
    <2> QED BY <1>8, <2>2 DEF T
  <1>12. loop \in [0 .. n -> Paths]
    BY <1>8, <1>11
  <1> QED BY <1>9, <1>10, <1>12 DEF NamesOf

(* Two walks that agree on their rounds end at the same node. *)
LEMMA WalkDetermined ==
  ASSUME NEW tmp, NEW start \in Paths, NEW comps \in Paths, NEW f,
         f[0] = start, \A k \in 1 .. Len(comps) : f[k] = KsStep(tmp, f[k - 1], comps[k])
  PROVE  KsWalk(tmp, start, comps) = f[Len(comps)]
  <1>1. PICK at : WalkOf(at, tmp, start, comps)
    BY WalkUnfolds
  <1> DEFINE T == {k \in 0 .. Len(comps) : at[k] = f[k]}
  <1>2. Len(comps) \in Nat /\ \A k \in 1 .. Len(comps) : k \in 0 .. Len(comps)
    BY DEF Paths
  <1>3. 0 \in T /\ \A k \in 1 .. Len(comps) : k - 1 \in T => k \in T
    BY <1>1, <1>2 DEF WalkOf
  <1> HIDE DEF T
  <1>4. \A k \in 0 .. Len(comps) : k \in T
    BY <1>2, <1>3, AllRounds
  <1> QED BY <1>1, <1>2, <1>4 DEF T, WalkOf

(* The last step of a walk. *)
LEMMA WalkLast ==
  ASSUME NEW tmp, NEW start \in Paths, NEW comps \in Paths, NEW c \in Names
  PROVE  KsWalk(tmp, start, Append(comps, c)) = KsStep(tmp, KsWalk(tmp, start, comps), c)
  <1> DEFINE n == Len(comps)
             more == Append(comps, c)
  <1>1. /\ n \in Nat /\ more \in Paths /\ Len(more) = n + 1 /\ more[n + 1] = c
        /\ \A k \in 1 .. n : more[k] = comps[k] /\ k \in 1 .. n + 1
    BY DEF Paths
  <1>2. PICK at : WalkOf(at, tmp, start, more)
    <2> HIDE DEF more
    <2> QED BY <1>1, WalkUnfolds
  <1> HIDE DEF more
  <1>3. KsWalk(tmp, start, comps) = at[n]
    <2>1. at[0] = start /\ \A k \in 1 .. n : at[k] = KsStep(tmp, at[k - 1], comps[k])
      BY <1>1, <1>2 DEF WalkOf
    <2> QED BY <2>1, WalkDetermined
  <1>4. at[n + 1] = KsStep(tmp, at[n], c)
    <2>1. n + 1 \in 1 .. Len(more) /\ (n + 1) - 1 = n
      BY <1>1
    <2> QED BY <1>1, <1>2, <2>1 DEF WalkOf
  <1> QED BY <1>1, <1>2, <1>3, <1>4 DEF more, WalkOf

(***************************************************************************)
(* What resolve_path makes of a path: names only, and no more than fit.    *)
(***************************************************************************)
Plain == {p \in Paths : Len(p) <= KS_PARTS /\ \A i \in 1 .. Len(p) : p[i] \notin {".", ".."}}

LEMMA NameKeepsPlain ==
  ASSUME NEW p \in Plain, NEW c \in Names
  PROVE  KsName(p, c) \in Plain
  <1>1. p \in Seq(Names) /\ Len(p) \in Nat /\ KS_PARTS \in Nat
    BY KSAssumption DEF Plain, Paths
  <1>2. CASE p # <<>> /\ c = ".."
    <2>1. /\ Front(p) \in Seq(Names) /\ Len(Front(p)) = Len(p) - 1
          /\ \A i \in 1 .. Len(p) - 1 : Front(p)[i] = p[i] /\ i \in 1 .. Len(p)
      BY <1>1, <1>2, FrontOf
    <2>2. Front(p) \in Plain
      BY <1>1, <2>1 DEF Plain, Paths
    <2> QED BY <1>2, <2>2 DEF KsName
  <1>3. CASE Len(p) < KS_PARTS /\ c \notin {".", ".."}
    <2>1. /\ Append(p, c) \in Seq(Names) /\ Len(Append(p, c)) = Len(p) + 1
          /\ \A i \in 1 .. Len(p) + 1 : Append(p, c)[i] = IF i = Len(p) + 1 THEN c ELSE p[i]
      BY <1>1
    <2>2. \A i \in 1 .. Len(p) + 1 : Append(p, c)[i] \notin {".", ".."}
      <3>1. \A i \in 1 .. Len(p) + 1 : i = Len(p) + 1 \/ i \in 1 .. Len(p)
        BY <1>1
      <3>2. \A i \in 1 .. Len(p) : p[i] \notin {".", ".."}
        BY DEF Plain
      <3> QED BY <1>3, <2>1, <3>1, <3>2
    <2>3. Append(p, c) \in Plain
      <3>1. Append(p, c) \in Paths /\ Len(Append(p, c)) <= KS_PARTS
        BY <1>1, <1>3, <2>1 DEF Paths
      <3>2. \A i \in 1 .. Len(Append(p, c)) : Append(p, c)[i] \notin {".", ".."}
        BY <2>1, <2>2
      <3> QED BY <3>1, <3>2 DEF Plain
    <2> QED BY <1>3, <2>3 DEF KsName
  <1> QED BY <1>2, <1>3 DEF KsName

LEMMA NamesPlain ==
  ASSUME NEW comps \in Paths
  PROVE  KsNames(comps) \in Plain
  <1>1. PICK parts : NamesOf(parts, comps)
    BY NamesUnfold
  <1> DEFINE T == {k \in 0 .. Len(comps) : parts[k] \in Plain}
  <1>2. Len(comps) \in Nat /\ \A k \in 1 .. Len(comps) : k \in 0 .. Len(comps) /\ comps[k] \in Names
    BY DEF Paths
  <1>3. <<>> \in Plain
    BY KSAssumption DEF Plain, Paths
  <1>4. 0 \in T /\ \A k \in 1 .. Len(comps) : k - 1 \in T => k \in T
    BY <1>1, <1>2, <1>3, NameKeepsPlain DEF NamesOf
  <1> HIDE DEF T
  <1>5. \A k \in 0 .. Len(comps) : k \in T
    BY <1>2, <1>4, AllRounds
  <1> QED BY <1>1, <1>2, <1>5 DEF T, NamesOf

(* Plain names that fit come through as they are. *)
LEMMA PlainStays ==
  ASSUME NEW p \in Plain, NEW comps \in Paths, NEW parts,
         parts[0] = <<>>, \A k \in 1 .. Len(p \o comps) : parts[k] = KsName(parts[k - 1], (p \o comps)[k])
  PROVE  parts[Len(p)] = p
  <1> DEFINE all == p \o comps
             T == {k \in 0 .. Len(p) : parts[k] = SubSeq(p, 1, k)}
  <1>1. /\ p \in Seq(Names) /\ Len(p) \in Nat /\ Len(p) <= KS_PARTS /\ KS_PARTS \in Nat
        /\ \A i \in 1 .. Len(p) : p[i] \notin {".", ".."} /\ i \in 1 .. Len(all) /\ all[i] = p[i]
    BY KSAssumption DEF Plain, Paths
  <1>2. 0 \in T
    <2>1. SubSeq(p, 1, 0) = <<>> /\ 0 \in 0 .. Len(p)
      BY <1>1, SubSeqEmpty
    <2> QED BY <2>1
  <1>3. ASSUME NEW k \in 1 .. Len(p), k - 1 \in T PROVE k \in T
    <2>1. Len(SubSeq(p, 1, k - 1)) = k - 1 /\ SubSeq(p, 1, k) = Append(SubSeq(p, 1, k - 1), p[k])
      BY <1>1
    <2>2. parts[k - 1] = SubSeq(p, 1, k - 1) /\ parts[k] = KsName(parts[k - 1], p[k])
      BY <1>1, <1>3
    <2>3. parts[k] = Append(SubSeq(p, 1, k - 1), p[k])
      BY <1>1, <2>1, <2>2 DEF KsName
    <2>4. k \in 0 .. Len(p)
      BY <1>1
    <2> QED BY <2>1, <2>3, <2>4
  <1> HIDE DEF T
  <1>4. \A k \in 0 .. Len(p) : k \in T
    BY <1>1, <1>2, <1>3, AllRounds
  <1>5. SubSeq(p, 1, Len(p)) = p
    BY <1>1
  <1> QED BY <1>1, <1>4, <1>5 DEF T

(***************************************************************************)
(* Walking a path node by node and reducing its names agree.               *)
(***************************************************************************)
Settled(tmp, n) == n # NoSuchNode /\ vfs_resolve(tmp, n) = n

LEMMA TypeOfNowhere == \A tmp : KsType(tmp, NoSuchNode) = "none"
  BY DEF KsType, NoSuchNode

LEMMA PathsAreShort ==
  ASSUME NEW tmp, NEW n, KsType(tmp, n) # "none"
  PROVE  Len(n) <= 2
  <1>1. Len(<<>>) = 0 /\ Len(<<"dev">>) = 1 /\ Len(<<"proc">>) = 1 /\ Len(<<"tmp">>) = 1
    OBVIOUS
  <1> QED BY <1>1 DEF KsType

LEMMA StepAgrees ==
  ASSUME NEW tmp, NEW n \in Plain, Settled(tmp, n), NEW c \in Names, KsStep(tmp, n, c) # NoSuchNode
  PROVE  KsStep(tmp, n, c) \in Plain /\ Settled(tmp, KsStep(tmp, n, c)) /\ KsName(n, c) = KsStep(tmp, n, c)
  <1>0. n \in Seq(Names) /\ n \in Paths /\ <<>> \in Paths /\ KS_PARTS \in Nat /\ KS_PARTS >= 2
    BY KSAssumption DEF Plain, Paths
  <1>1. CASE c = "."
    BY <1>1 DEF KsStep, KsName, Settled
  <1>2. CASE c = ".." /\ n = <<>>
    BY <1>2 DEF KsStep, KsName, Settled
  <1>3. CASE c = ".." /\ n # <<>>
    <2> DEFINE f == Front(n)
               last == n[Len(n)]
               m == vfs_resolve(tmp, f)
    <2>1. /\ f \in Seq(Names) /\ Len(f) = Len(n) - 1 /\ last \in Names /\ n = Append(f, last)
          /\ Len(n) \in 1 .. Len(n)
      BY <1>0, <1>3, FrontOf
    <2> HIDE DEF f, last
    <2>2. last \notin {".", ".."}
      BY <2>1 DEF last, Plain
    <2>3. n = KsStep(tmp, m, last)
      BY <1>0, <2>1, WalkLast DEF vfs_resolve, Settled, Paths
    <2>4. m \in Paths
      <3>1. PICK at : WalkOf(at, tmp, <<>>, f)
        BY <1>0, <2>1, WalkUnfolds DEF Paths
      <3>2. Len(f) \in 0 .. Len(f)
        BY <2>1
      <3> QED BY <3>1, <3>2 DEF WalkOf, vfs_resolve
    <2>5. m # NoSuchNode /\ n = Append(m, last)
      BY <2>2, <2>3 DEF KsStep, Settled
    <2> HIDE DEF m
    <2>6. m = f
      <3>1. m \in Seq(Names) /\ f \in Seq(Names) /\ last \in Names /\ Append(m, last) = Append(f, last)
        BY <2>1, <2>4, <2>5 DEF Paths
      <3> QED BY <3>1, AppendInjective
    <2>7. KsName(n, c) = f /\ KsStep(tmp, n, c) = f
      BY <1>3 DEF KsName, KsStep, Settled, f
    <2>8. f \in Plain
      BY <2>7, NameKeepsPlain
    <2> QED BY <2>5, <2>6, <2>7, <2>8 DEF Settled, m
  <1>4. CASE c \notin {".", ".."}
    <2>1. KsStep(tmp, n, c) = Append(n, c) /\ KsType(tmp, Append(n, c)) # "none"
      BY <1>4 DEF KsStep, Settled
    <2>2. Len(n) \in Nat /\ Len(n) < KS_PARTS
      <3>1. Len(n) \in Nat /\ Len(Append(n, c)) = Len(n) + 1
        BY <1>0
      <3>2. Len(Append(n, c)) <= 2
        BY <2>1, PathsAreShort
      <3> QED BY <1>0, <3>1, <3>2
    <2>3. KsName(n, c) = Append(n, c)
      BY <1>4, <2>2 DEF KsName
    <2>4. Append(n, c) \in Plain
      BY <2>3, NameKeepsPlain
    <2>5. vfs_resolve(tmp, Append(n, c)) = KsStep(tmp, n, c)
      BY <1>0, WalkLast DEF vfs_resolve, Settled
    <2> QED BY <2>1, <2>3, <2>4, <2>5 DEF Settled
  <1> QED BY <1>1, <1>2, <1>3, <1>4

LEMMA StepFromNowhere == \A tmp, c : KsStep(tmp, NoSuchNode, c) = NoSuchNode
  BY DEF KsStep

LEMMA RootSettled == <<>> \in Plain /\ \A tmp : Settled(tmp, <<>>)
  <1>1. <<>> \in Plain /\ <<>> \in Paths /\ Len(<<>>) = 0
    BY KSAssumption DEF Plain, Paths
  <1>2. ASSUME NEW tmp PROVE KsWalk(tmp, <<>>, <<>>) = <<>>
    <2>1. PICK at : WalkOf(at, tmp, <<>>, <<>>)
      BY <1>1, WalkUnfolds
    <2> QED BY <1>1, <2>1 DEF WalkOf
  <1>3. <<>> # NoSuchNode
    BY DEF NoSuchNode
  <1> QED BY <1>1, <1>2, <1>3 DEF Settled, vfs_resolve

(* A walk from a settled node, and the names of the same path. *)
LEMMA WalkAgrees ==
  ASSUME NEW tmp, NEW start \in Plain, Settled(tmp, start), NEW comps \in Paths,
         KsWalk(tmp, start, comps) # NoSuchNode
  PROVE  /\ Settled(tmp, KsWalk(tmp, start, comps))
         /\ KsNames(start \o comps) = KsWalk(tmp, start, comps)
  <1> DEFINE n == Len(start)
             all == start \o comps
  <1>1. /\ start \in Paths /\ n \in Nat /\ Len(comps) \in Nat
        /\ \A k \in 1 .. Len(comps) : comps[k] \in Names
    BY DEF Plain, Paths
  <1>2. /\ all \in Paths /\ Len(all) = n + Len(comps)
        /\ \A k \in 1 .. Len(comps) : n + k \in 1 .. Len(all) /\ all[n + k] = comps[k]
    BY <1>1, ConcatProperties DEF Paths
  <1>3. PICK at : WalkOf(at, tmp, start, comps)
    BY <1>1, WalkUnfolds
  <1>4. PICK parts : NamesOf(parts, all)
    BY <1>2, NamesUnfold
  <1>5. parts[n] = start
    BY <1>4, PlainStays DEF NamesOf
  <1> HIDE DEF n, all
  <1> DEFINE Same(k) == at[k] \in Plain /\ Settled(tmp, at[k]) /\ parts[n + k] = at[k]
             T == {k \in 0 .. Len(comps) : at[k] = NoSuchNode \/ Same(k)}
  <1>6. 0 \in T
    BY <1>1, <1>3, <1>5 DEF WalkOf
  <1>7. ASSUME NEW k \in 1 .. Len(comps), k - 1 \in T PROVE k \in T
    <2>1. at[k] = KsStep(tmp, at[k - 1], comps[k]) /\ k \in 0 .. Len(comps)
      BY <1>1, <1>3 DEF WalkOf
    <2>2. parts[n + k] = KsName(parts[n + (k - 1)], comps[k])
      <3>1. parts[n + k] = KsName(parts[(n + k) - 1], all[n + k])
        BY <1>2, <1>4 DEF NamesOf
      <3>2. (n + k) - 1 = n + (k - 1)
        BY <1>1
      <3> QED BY <1>2, <3>1, <3>2
    <2>3. CASE at[k - 1] = NoSuchNode
      BY <2>1, <2>3, StepFromNowhere
    <2>4. CASE Same(k - 1) /\ at[k] # NoSuchNode
      BY <1>1, <2>1, <2>2, <2>4, StepAgrees
    <2> QED BY <1>7, <2>1, <2>3, <2>4
  <1> HIDE DEF T
  <1>8. \A k \in 0 .. Len(comps) : k \in T
    BY <1>1, <1>6, <1>7, AllRounds
  <1>9. Len(comps) \in 0 .. Len(comps)
    BY <1>1
  <1>10. Same(Len(comps)) /\ KsWalk(tmp, start, comps) = at[Len(comps)]
    BY <1>3, <1>8, <1>9 DEF T, WalkOf
  <1> QED BY <1>2, <1>4, <1>10 DEF NamesOf, all

(* What a plain path leads to is what it says. *)
LEMMA PlainSettled ==
  ASSUME NEW tmp, NEW p \in Plain, vfs_resolve(tmp, p) # NoSuchNode
  PROVE  Settled(tmp, p)
  <1>1. p \in Paths /\ <<>> \o p = p
    BY DEF Plain, Paths
  <1>2. KsNames(<<>> \o p) = KsWalk(tmp, <<>>, p)
    BY <1>1, RootSettled, WalkAgrees DEF vfs_resolve
  <1>3. KsNames(p) = p
    <2>1. PICK parts : NamesOf(parts, p)
      BY <1>1, NamesUnfold
    <2>2. p \o <<>> = p /\ <<>> \in Paths
      BY <1>1 DEF Paths
    <2>3. parts[Len(p)] = p
      BY <2>1, <2>2, PlainStays DEF NamesOf
    <2> QED BY <2>1, <2>3 DEF NamesOf
  <1> QED BY <1>1, <1>2, <1>3 DEF Settled, vfs_resolve

LEMMA PathsAgreeWhere ==
  ASSUME current_dir \in Plain
  PROVE  PathsAgree
  <1> SUFFICES ASSUME vfs_resolve(ks_tmp, current_dir) # NoSuchNode, NEW p \in KS_PATHS,
                      KsWalk(ks_tmp, IF p.abs THEN <<>> ELSE current_dir, p.comps) # NoSuchNode
               PROVE  vfs_resolve(ks_tmp, resolve_path(current_dir, p))
                        = KsWalk(ks_tmp, IF p.abs THEN <<>> ELSE current_dir, p.comps)
    BY Zenon DEF PathsAgree
  <1> DEFINE start == IF p.abs THEN <<>> ELSE current_dir
  <1>1. p.comps \in Paths /\ p.abs \in BOOLEAN
    <2>1. p \in [abs : BOOLEAN, comps : Seq(STRING)]
      BY KSAssumption
    <2>2. p.comps \in Seq(STRING) /\ STRING \subseteq Names
      BY <2>1 DEF Names
    <2> QED BY <2>1, <2>2, SeqMonotonic DEF Paths
  <1>2. start \in Plain /\ Settled(ks_tmp, start)
    BY RootSettled, PlainSettled
  <1>3. resolve_path(current_dir, p) = KsNames(start \o p.comps)
    <2>1. <<>> \o p.comps = p.comps
      BY <1>1, ConcatEmptySeq DEF Paths
    <2> QED BY <1>1, <2>1 DEF resolve_path
  <1> HIDE DEF start
  <1> QED BY <1>1, <1>2, <1>3, WalkAgrees DEF Settled, start
(***************************************************************************)
(* The ends of lines of a text, counted from the left.                     *)
(***************************************************************************)
ShellChars == STRING \cup {"nl"}
EndsOf(text) == {i \in DOMAIN text : text[i] = "nl"}
EndsUpTo(E, i) == Cardinality(E \cap (1 .. i))

LEMMA CountSteps ==
  ASSUME NEW L \in Nat, NEW E \in SUBSET (1 .. L)
  PROVE  /\ EndsUpTo(E, 0) = 0 /\ EndsUpTo(E, L) = Cardinality(E)
         /\ \A i \in 0 .. L : EndsUpTo(E, i) \in Nat
         /\ \A i \in 1 .. L : EndsUpTo(E, i) = EndsUpTo(E, i - 1) + (IF i \in E THEN 1 ELSE 0)
         /\ \A i, j \in 0 .. L : i <= j => EndsUpTo(E, i) <= EndsUpTo(E, j)
  <1>1. \A i \in 0 .. L : IsFiniteSet(E \cap (1 .. i))
    <2> TAKE i \in 0 .. L
    <2>1. IsFiniteSet(1 .. i) /\ E \cap (1 .. i) \in SUBSET (1 .. i)
      BY FS_Interval
    <2> QED BY <2>1, FS_Subset
  <1>2. \A i \in 0 .. L : EndsUpTo(E, i) \in Nat
    BY <1>1, FS_CardinalityType DEF EndsUpTo
  <1>3. EndsUpTo(E, 0) = 0 /\ EndsUpTo(E, L) = Cardinality(E)
    <2>1. 1 .. 0 = {}
      OBVIOUS
    <2>2. E \cap (1 .. 0) = {}
      BY <2>1
    <2>3. E \cap (1 .. L) = E
      OBVIOUS
    <2> QED BY <2>2, <2>3, FS_EmptySet DEF EndsUpTo
  <1>4. ASSUME NEW i \in 1 .. L PROVE EndsUpTo(E, i) = EndsUpTo(E, i - 1) + (IF i \in E THEN 1 ELSE 0)
    <2> DEFINE before == E \cap (1 .. i - 1)
    <2>1. IsFiniteSet(before) /\ i \notin before /\ i - 1 \in 0 .. L
      <3>1. i - 1 \in 0 .. L
        OBVIOUS
      <3> QED BY <1>1, <3>1
    <2>2. E \cap (1 .. i) = IF i \in E THEN before \cup {i} ELSE before
      OBVIOUS
    <2>3. Cardinality(before) \in Nat
      BY <1>2, <2>1 DEF EndsUpTo
    <2> HIDE DEF before
    <2>4. i \in E => Cardinality(E \cap (1 .. i)) = Cardinality(before) + 1
      BY <2>1, <2>2, FS_AddElement
    <2>5. i \notin E => Cardinality(E \cap (1 .. i)) = Cardinality(before)
      BY <2>2
    <2> QED BY <2>3, <2>4, <2>5 DEF EndsUpTo, before
  <1>5. ASSUME NEW i \in 0 .. L, NEW j \in 0 .. L, i <= j PROVE EndsUpTo(E, i) <= EndsUpTo(E, j)
    <2>1. E \cap (1 .. i) \in SUBSET (E \cap (1 .. j))
      BY <1>5
    <2> QED BY <1>1, <2>1, FS_Subset DEF EndsUpTo
  <1> QED BY <1>2, <1>3, <1>4, <1>5

(* Where the first n ends of lines are over. *)
IsNthEnd(E, L, n, e) ==
  /\ e \in 0 .. L /\ EndsUpTo(E, e) = n
  /\ e = 0 <=> n = 0
  /\ e # 0 => e \in E /\ EndsUpTo(E, e - 1) = n - 1
  /\ \A i \in 1 .. L : i <= e <=> EndsUpTo(E, i - 1) < n

LEMMA NthEnd ==
  ASSUME NEW L \in Nat, NEW E \in SUBSET (1 .. L), NEW n \in 0 .. Cardinality(E)
  PROVE  \E e : IsNthEnd(E, L, n, e)
  <1>1. Cardinality(E) \in Nat /\ n \in Nat
    <2>1. EndsUpTo(E, L) \in Nat /\ EndsUpTo(E, L) = Cardinality(E)
      BY CountSteps
    <2> QED BY <2>1
  <1> DEFINE T == {i \in 0 .. L : EndsUpTo(E, i) >= n}
  <1>2. T \subseteq Nat /\ L \in T
    BY <1>1, CountSteps
  <1>3. PICK e \in T : \A i \in T : e <= i
    <2> HIDE DEF T
    <2> QED BY <1>2, SmallestExists
  <1>4. CASE e = 0
    <2>1. n = 0
      <3>1. EndsUpTo(E, 0) = 0
        BY CountSteps
      <3>2. EndsUpTo(E, 0) >= n
        BY <1>3, <1>4
      <3> QED BY <1>1, <3>1, <3>2
    <2>2. \A i \in 1 .. L : EndsUpTo(E, i - 1) \in Nat
      BY CountSteps
    <2> QED BY <1>4, <2>1, <2>2, CountSteps DEF IsNthEnd
  <1>5. CASE e # 0
    <2>1. e \in 1 .. L /\ e - 1 \in 0 .. L /\ EndsUpTo(E, e) >= n /\ ~(EndsUpTo(E, e - 1) >= n)
      BY <1>3, <1>5
    <2>2. /\ EndsUpTo(E, e) \in Nat /\ EndsUpTo(E, e - 1) \in Nat
          /\ EndsUpTo(E, e) = EndsUpTo(E, e - 1) + (IF e \in E THEN 1 ELSE 0)
      BY <2>1, CountSteps
    <2>3. e \in E /\ EndsUpTo(E, e) = n /\ EndsUpTo(E, e - 1) = n - 1 /\ n # 0
      BY <1>1, <2>1, <2>2
    <2>4. ASSUME NEW i \in 1 .. L PROVE i <= e <=> EndsUpTo(E, i - 1) < n
      <3>1. i - 1 \in 0 .. L /\ EndsUpTo(E, i - 1) \in Nat
        BY CountSteps
      <3>2. CASE i <= e
        <4>1. i - 1 <= e - 1
          BY <2>1, <3>2
        <4> DEFINE j == i - 1  k == e - 1
        <4>2. j \in 0 .. L /\ k \in 0 .. L /\ j <= k
          BY <2>1, <3>1, <4>1
        <4> HIDE DEF j, k
        <4>3. EndsUpTo(E, j) <= EndsUpTo(E, k)
          BY <4>2, CountSteps
        <4>4. EndsUpTo(E, i - 1) <= EndsUpTo(E, e - 1)
          BY <4>3 DEF j, k
        <4> QED BY <1>1, <2>2, <2>3, <3>1, <3>2, <4>4
      <3>3. CASE i > e
        <4>1. e <= i - 1
          BY <2>1, <3>3
        <4>2. EndsUpTo(E, e) <= EndsUpTo(E, i - 1)
          BY <2>1, <3>1, <4>1, CountSteps
        <4> QED BY <1>1, <2>1, <2>3, <3>1, <3>3, <4>2
      <3> QED BY <2>1, <3>2, <3>3
    <2> QED BY <1>5, <2>1, <2>3, <2>4 DEF IsNthEnd
  <1> QED BY <1>4, <1>5

LEMMA NthEndOnly ==
  ASSUME NEW L \in Nat, NEW E \in SUBSET (1 .. L), NEW n \in Nat, NEW e, IsNthEnd(E, L, n, e),
         NEW i \in 0 .. L, EndsUpTo(E, i) = n, i = 0 \/ EndsUpTo(E, i - 1) < n
  PROVE  i = e
  <1>1. e \in 0 .. L
    BY DEF IsNthEnd
  <1>2. ~(i < e)
    <2> SUFFICES ASSUME i < e PROVE FALSE
      OBVIOUS
    <2>1. i + 1 \in 1 .. L /\ i + 1 <= e /\ (i + 1) - 1 = i
      BY <1>1
    <2>2. EndsUpTo(E, i) < n
      BY <2>1 DEF IsNthEnd
    <2> QED BY <2>2
  <1>3. ~(e < i)
    <2> SUFFICES ASSUME e < i PROVE FALSE
      OBVIOUS
    <2>1. i \in 1 .. L /\ i # 0
      BY <1>1
    <2>2. i <= e
      BY <2>1 DEF IsNthEnd
    <2> QED BY <1>1, <2>2
  <1> QED BY <1>1, <1>2, <1>3
(* What of a text of whole lines its head and its tail show. *)
WholeLines(text) == text \in Seq(ShellChars) /\ text # <<>> /\ text[Len(text)] = "nl"

LEMMA EndsOfCut ==
  ASSUME NEW text \in Seq(ShellChars), NEW i \in 0 .. Len(text)
  PROVE  /\ SubSeq(text, 1, i) \in Seq(ShellChars) /\ Len(SubSeq(text, 1, i)) = i
         /\ \A j \in 1 .. i : SubSeq(text, 1, i)[j] = text[j]
         /\ EndsOf(SubSeq(text, 1, i)) = EndsOf(text) \cap (1 .. i)
         /\ KsCount(SubSeq(text, 1, i), {"nl"}) = EndsUpTo(EndsOf(text), i)
  <1> DEFINE cut == SubSeq(text, 1, i)
  <1>1. Len(text) \in Nat /\ i \in Nat /\ DOMAIN text = 1 .. Len(text)
    OBVIOUS
  <1>2. cut \in Seq(ShellChars) /\ Len(cut) = i /\ \A j \in 1 .. i : cut[j] = text[j]
    <2>1. \A j \in 1 .. i : text[j] \in ShellChars
      BY <1>1
    <2>2. /\ cut \in Seq(ShellChars) /\ Len(cut) = IF 1 <= i THEN i - 1 + 1 ELSE 0
          /\ \A j \in 1 .. i - 1 + 1 : cut[j] = text[1 + j - 1]
      BY <1>1, <2>1, SubSeqProperties
    <2> HIDE DEF cut
    <2>3. Len(cut) = i
      <3>1. \A k \in Nat : (IF 1 <= k THEN k - 1 + 1 ELSE 0) = k
        OBVIOUS
      <3> QED BY <1>1, <2>2, <3>1
    <2>4. \A j \in 1 .. i : j \in 1 .. i - 1 + 1 /\ 1 + j - 1 = j
      BY <1>1
    <2> QED BY <2>2, <2>3, <2>4
  <1> HIDE DEF cut
  <1>3. DOMAIN cut = 1 .. i
    BY <1>2
  <1>4. EndsOf(cut) = EndsOf(text) \cap (1 .. i)
    BY <1>1, <1>2, <1>3 DEF EndsOf
  <1>5. {j \in DOMAIN cut : cut[j] \in {"nl"}} = EndsOf(cut)
    BY DEF EndsOf
  <1>6. KsCount(cut, {"nl"}) = EndsUpTo(EndsOf(text), i)
    BY <1>4, <1>5 DEF KsCount, EndsUpTo
  <1> QED BY <1>2, <1>4, <1>6 DEF cut

LEMMA HeadShows ==
  ASSUME NEW text, WholeLines(text), NEW n \in 0 .. Cardinality(EndsOf(text)),
         NEW e, IsNthEnd(EndsOf(text), Len(text), n, e)
  PROVE  HeadText(text, n) = SubSeq(text, 1, e)
  <1> DEFINE L == Len(text)
             E == EndsOf(text)
             kept == {i \in 1 .. L : KsCount(SubSeq(text, 1, i - 1), {"nl"}) < n}
  <1>1. text \in Seq(ShellChars) /\ L \in Nat /\ e \in 0 .. L
    BY DEF WholeLines, IsNthEnd
  <1>2. kept = 1 .. e
    <2>1. ASSUME NEW i \in 1 .. L PROVE KsCount(SubSeq(text, 1, i - 1), {"nl"}) < n <=> i <= e
      <3>1. i - 1 \in 0 .. L
        BY <1>1
      <3>2. KsCount(SubSeq(text, 1, i - 1), {"nl"}) = EndsUpTo(E, i - 1)
        BY <1>1, <3>1, EndsOfCut
      <3> QED BY <3>2 DEF IsNthEnd
    <2> QED BY <1>1, <2>1
  <1>3. Cardinality(kept) = e
    <2>1. Cardinality(1 .. e) = IF 1 > e THEN 0 ELSE e - 1 + 1
      <3>1. 1 \in Int /\ e \in Int
        BY <1>1
      <3> QED BY <3>1, FS_Interval
    <2>2. (IF 1 > e THEN 0 ELSE e - 1 + 1) = e
      BY <1>1
    <2> QED BY <1>2, <2>1, <2>2
  <1>4. KsEnded(SubSeq(text, 1, e)) = SubSeq(text, 1, e)
    <2> DEFINE cut == SubSeq(text, 1, e)
    <2>1. cut \in Seq(ShellChars) /\ Len(cut) = e /\ \A j \in 1 .. e : cut[j] = text[j]
      BY <1>1, EndsOfCut
    <2> HIDE DEF cut
    <2>2. e # 0 => e \in 1 .. e /\ text[e] = "nl"
      BY <1>1 DEF IsNthEnd, EndsOf
    <2>3. cut # <<>> => e # 0
      BY <2>1, EmptySeq
    <2>4. cut # <<>> => cut[Len(cut)] = "nl"
      BY <2>1, <2>2, <2>3
    <2> QED BY <2>4 DEF KsEnded, cut
  <1> HIDE DEF kept
  <1>5. HeadText(text, n) = KsEnded(SubSeq(text, 1, Cardinality(kept)))
    BY DEF HeadText, kept
  <1> QED BY <1>3, <1>4, <1>5

LEMMA TailShows ==
  ASSUME NEW text, WholeLines(text), NEW n \in 0 .. Cardinality(EndsOf(text)),
         NEW e, IsNthEnd(EndsOf(text), Len(text), n, e)
  PROVE  TailText(text, Cardinality(EndsOf(text)) - n) = SubSeq(text, e + 1, Len(text))
  <1> DEFINE L == Len(text)
             E == EndsOf(text)
             m == Cardinality(E)
             Stops(i) == /\ KsCount(SubSeq(text, 1, i), {"nl"}) = n
                         /\ i = 0 \/ KsCount(SubSeq(text, 1, i - 1), {"nl"}) < n
             at == CHOOSE i \in 0 .. L : Stops(i)
  <1>1. text \in Seq(ShellChars) /\ L \in Nat /\ e \in 0 .. L /\ E \in SUBSET (1 .. L)
    BY DEF WholeLines, IsNthEnd, EndsOf
  <1>2. m \in Nat /\ n \in Nat /\ KsCount(text, {"nl"}) = m
    <2>1. EndsUpTo(E, L) = m /\ EndsUpTo(E, L) \in Nat
      <3>1. L \in 0 .. L
        BY <1>1
      <3> QED BY <1>1, <3>1, CountSteps
    <2>3. m \in Nat /\ n \in Nat
      BY <2>1
    <2>2. {i \in DOMAIN text : text[i] \in {"nl"}} = E
      BY DEF EndsOf
    <2> QED BY <2>2, <2>3 DEF KsCount
  <1>3. \A i \in 0 .. L : KsCount(SubSeq(text, 1, i), {"nl"}) = EndsUpTo(E, i)
    BY <1>1, EndsOfCut
  <1>4. \A i \in 0 .. L : i # 0 => i - 1 \in 0 .. L
    BY <1>1
  <1>5. Stops(e)
    <2>1. EndsUpTo(E, e) = n /\ (e # 0 => EndsUpTo(E, e - 1) = n - 1)
      BY DEF IsNthEnd
    <2> QED BY <1>1, <1>2, <1>3, <1>4, <2>1
  <1>6. at \in 0 .. L /\ Stops(at)
    BY <1>1, <1>5
  <1> HIDE DEF at
  <1>7. EndsUpTo(E, at) = n /\ (at = 0 \/ EndsUpTo(E, at - 1) < n)
    BY <1>3, <1>4, <1>6
  <1>8. at = e
    BY <1>1, <1>2, <1>6, <1>7, NthEndOnly
  <1>9. (IF m > m - n THEN m - (m - n) ELSE 0) = n
    BY <1>2
  <1>10. TailText(text, m - n) = KsEnded(SubSeq(text, at + 1, L))
    <2>1. \A i : Stops(i) <=> /\ KsCount(SubSeq(text, 1, i), {"nl"}) = n
                              /\ i = 0 \/ KsCount(SubSeq(text, 1, i - 1), {"nl"}) < n
      OBVIOUS
    <2> HIDE DEF Stops
    <2> QED BY <1>2, <1>9 DEF TailText, at, Stops
  <1>11. KsEnded(SubSeq(text, e + 1, L)) = SubSeq(text, e + 1, L)
    <2> DEFINE cut == SubSeq(text, e + 1, L)
    <2>1. CASE e = L
      <3>1. cut = <<>>
        BY <1>1, <2>1, SubSeqEmpty
      <3> QED BY <3>1 DEF KsEnded
    <2>2. CASE e # L
      <3>1. e + 1 \in Int /\ L \in Int /\ e + 1 <= L /\ \A j \in e + 1 .. L : text[j] \in ShellChars
        BY <1>1, <2>2
      <3>2. Len(cut) = L - (e + 1) + 1 /\ \A j \in 1 .. L - (e + 1) + 1 : cut[j] = text[(e + 1) + j - 1]
        BY <3>1, SubSeqProperties
      <3> HIDE DEF cut
      <3>3. L - (e + 1) + 1 \in 1 .. L - (e + 1) + 1 /\ (e + 1) + (L - (e + 1) + 1) - 1 = L
        BY <1>1, <3>1
      <3>4. cut[Len(cut)] = text[L]
        BY <3>2, <3>3
      <3> QED BY <3>4 DEF KsEnded, WholeLines, cut
    <2> QED BY <2>1, <2>2
  <1> QED BY <1>8, <1>10, <1>11
(* The lines of a text of whole lines, one for each end. *)
LEMMA WholeEnds ==
  ASSUME NEW text, WholeLines(text)
  PROVE  /\ Len(text) \in EndsOf(text) /\ EndsOf(text) \in SUBSET (1 .. Len(text)) /\ Len(text) \in Nat \ {0}
         /\ {i \in DOMAIN text : text[i] = "nl" \/ i = Len(text)} = EndsOf(text)
  <1>1. text \in Seq(ShellChars) /\ DOMAIN text = 1 .. Len(text) /\ Len(text) \in Nat
    BY DEF WholeLines
  <1>2. Len(text) # 0
    BY <1>1, EmptySeq DEF WholeLines
  <1>3. Len(text) \in 1 .. Len(text) /\ text[Len(text)] = "nl"
    BY <1>1, <1>2 DEF WholeLines
  <1> QED BY <1>1, <1>2, <1>3 DEF EndsOf

LEMMA LinesOfWhole ==
  ASSUME NEW text, WholeLines(text)
  PROVE  KsLines(text) = [k \in 1 .. Cardinality(EndsOf(text)) |->
                            SubSeq(text, KsLineStart(EndsOf(text), KsLineEnd(EndsOf(text), k)), KsLineEnd(EndsOf(text), k))]
  <1>1. {i \in DOMAIN text : text[i] = "nl" \/ i = Len(text)} = EndsOf(text)
    BY WholeEnds
  <1>2. KsLines(text) = KsLinesTo(text, EndsOf(text))
    BY <1>1, Zenon DEF KsLines
  <1> QED BY <1>2, Zenon DEF KsLinesTo

LEMMA LineEndIs ==
  ASSUME NEW L \in Nat, NEW E \in SUBSET (1 .. L), NEW k \in 1 .. Cardinality(E), NEW e, IsNthEnd(E, L, k, e)
  PROVE  KsLineEnd(E, k) = e /\ e \in E
  <1>1. \A i \in E : {j \in E : j <= i} = E \cap (1 .. i)
    <2>1. \A j \in E : j \in Nat /\ 1 <= j
      OBVIOUS
    <2>2. ASSUME NEW i \in E PROVE {j \in E : j <= i} = E \cap (1 .. i)
      <3>1. \A j \in E : j <= i <=> j \in 1 .. i
        BY <2>1
      <3> QED BY <3>1, Zenon
    <2> QED BY <2>2
  <1>2. Cardinality(E) \in Nat /\ k \in Nat \ {0}
    <2>1. EndsUpTo(E, L) = Cardinality(E) /\ EndsUpTo(E, L) \in Nat
      <3>1. L \in 0 .. L
        OBVIOUS
      <3> QED BY <3>1, CountSteps
    <2> QED BY <2>1
  <1>3. \A i \in E : Cardinality({j \in E : j <= i}) = EndsUpTo(E, i)
    BY <1>1 DEF EndsUpTo
  <1>4. e \in E /\ EndsUpTo(E, e) = k
    BY <1>2 DEF IsNthEnd
  <1>5. KsLineEnd(E, k) \in E /\ EndsUpTo(E, KsLineEnd(E, k)) = k
    <2>1. \E i \in E : Cardinality({j \in E : j <= i}) = k
      BY <1>3, <1>4
    <2>2. KsLineEnd(E, k) \in E /\ Cardinality({j \in E : j <= KsLineEnd(E, k)}) = k
      BY <2>1 DEF KsLineEnd
    <2> QED BY <1>3, <2>2
  <1> DEFINE i == KsLineEnd(E, k)
  <1> HIDE DEF i
  <1>6. i \in 1 .. L /\ i - 1 \in 0 .. L /\ i \in 0 .. L
    <2>1. i \in E
      BY <1>5 DEF i
    <2> QED BY <2>1
  <1>7. EndsUpTo(E, i - 1) \in Nat /\ EndsUpTo(E, i) = EndsUpTo(E, i - 1) + 1
    BY <1>5, <1>6, CountSteps DEF i
  <1>8. EndsUpTo(E, i - 1) < k /\ EndsUpTo(E, i) = k
    BY <1>2, <1>5, <1>7 DEF i
  <1>9. i = e
    BY <1>2, <1>6, <1>8, NthEndOnly
  <1> QED BY <1>4, <1>9 DEF i

LEMMA LineStartIn ==
  ASSUME NEW L \in Nat, NEW E \in SUBSET (1 .. L), NEW i \in 1 .. L
  PROVE  KsLineStart(E, i) \in 1 .. i
  <1> DEFINE before == {j \in E : j < i}
  <1>1. CASE before = {}
    BY <1>1 DEF KsLineStart
  <1>2. CASE before # {}
    <2> DEFINE T == {t \in 0 .. L : L - t \in before}
    <2>1. T \subseteq Nat /\ T # {}
      <3>1. PICK j \in E : j < i
        BY <1>2
      <3>2. L - (L - j) = j /\ L - j \in 0 .. L
        <4>1. j \in 1 .. L
          OBVIOUS
        <4> QED BY <4>1
      <3>3. L - j \in T
        BY <3>1, <3>2
      <3>4. \A x \in 0 .. L : x \in Nat
        OBVIOUS
      <3> HIDE DEF before
      <3>5. T \subseteq Nat
        BY <3>4, Zenon
      <3> QED BY <3>3, <3>5, Zenon
    <2>2. PICK t \in T : \A u \in T : t <= u
      <3> HIDE DEF T
      <3> QED BY <2>1, SmallestExists
    <2>3. L - t \in before /\ \A j \in before : L - t >= j
      <3>1. ASSUME NEW j \in before PROVE L - t >= j
        <4>1. L - j \in T
          <5>1. L - (L - j) = j /\ L - j \in 0 .. L
            OBVIOUS
          <5> QED BY <5>1
        <4> QED BY <2>2, <4>1
      <3> QED BY <2>2, <3>1
    <2>4. Max(before) \in before
      <3> HIDE DEF before
      <3> QED BY <2>3, Zenon DEF Max
    <2>5. KsLineStart(E, i) = Max(before) + 1
      BY <1>2 DEF KsLineStart
    <2>6. \A j \in before : j + 1 \in 1 .. i
      OBVIOUS
    <2> QED BY <2>4, <2>5, <2>6
  <1> QED BY <1>1, <1>2

(* The lines of the first part of a text are its first lines. *)
LEMMA LinesOfHead ==
  ASSUME NEW text, WholeLines(text), NEW n \in 0 .. Cardinality(EndsOf(text)),
         NEW e, IsNthEnd(EndsOf(text), Len(text), n, e)
  PROVE  KsLines(SubSeq(text, 1, e)) = SubSeq(KsLines(text), 1, n)
  <1> DEFINE L == Len(text)
             E == EndsOf(text)
             head == SubSeq(text, 1, e)
             lines == KsLines(text)
  <1>1. /\ text \in Seq(ShellChars) /\ L \in Nat /\ e \in 0 .. L /\ E \in SUBSET (1 .. L)
        /\ Cardinality(E) \in Nat /\ n \in Nat
    <2>1. L \in 0 .. L /\ L \in Nat /\ E \in SUBSET (1 .. L)
      BY WholeEnds
    <2>2. EndsUpTo(E, L) = Cardinality(E) /\ EndsUpTo(E, L) \in Nat
      BY <2>1, CountSteps
    <2> QED BY <2>1, <2>2 DEF WholeLines, IsNthEnd
  <1>2. /\ head \in Seq(ShellChars) /\ Len(head) = e /\ \A j \in 1 .. e : head[j] = text[j]
        /\ EndsOf(head) = E \cap (1 .. e)
    BY <1>1, EndsOfCut
  <1>3. lines = [k \in 1 .. Cardinality(E) |-> SubSeq(text, KsLineStart(E, KsLineEnd(E, k)), KsLineEnd(E, k))]
    BY LinesOfWhole
  <1>4. Len(lines) = Cardinality(E) /\ lines \in Seq(Seq(ShellChars))
    <2>1. ASSUME NEW k \in 1 .. Cardinality(E)
          PROVE  SubSeq(text, KsLineStart(E, KsLineEnd(E, k)), KsLineEnd(E, k)) \in Seq(ShellChars)
      <3>1. k \in 0 .. Cardinality(E)
        OBVIOUS
      <3>2. PICK i : IsNthEnd(E, L, k, i)
        BY <1>1, <3>1, NthEnd
      <3>3. KsLineEnd(E, k) = i /\ i \in 1 .. L
        BY <1>1, <3>2, LineEndIs
      <3>4. KsLineStart(E, i) \in 1 .. i
        BY <1>1, <3>3, LineStartIn
      <3>5. KsLineStart(E, i) \in Int /\ i \in Int /\ \A j \in KsLineStart(E, i) .. i : text[j] \in ShellChars
        BY <1>1, <3>3, <3>4
      <3> QED BY <3>3, <3>5, SubSeqProperties
    <2> HIDE DEF lines, E
    <2>2. lines \in [1 .. Cardinality(E) -> Seq(ShellChars)]
      BY <1>3, <2>1
    <2> QED BY <1>1, <2>2
  <1> HIDE DEF head, lines
  <1>5. CASE n = 0
    <2>1. e = 0
      BY <1>5 DEF IsNthEnd
    <2>2. head = <<>> /\ DOMAIN head = {}
      BY <1>2, <2>1, EmptySeq
    <2>3. {i \in DOMAIN head : head[i] = "nl" \/ i = Len(head)} = {}
      BY <2>2
    <2>4. Cardinality({}) = 0 /\ 1 .. 0 = {}
      BY FS_EmptySet
    <2>5. DOMAIN KsLines(head) = {} /\ KsLines(head) = [k \in {} |-> KsLines(head)[k]]
      BY <2>3, <2>4 DEF KsLines, KsLinesTo
    <2>6. KsLines(head) = <<>>
      BY <2>5
    <2>7. SubSeq(lines, 1, n) = <<>>
      BY <1>5, SubSeqEmpty
    <2> QED BY <2>6, <2>7 DEF head, lines
  <1>6. CASE n # 0
    <2> DEFINE F == EndsOf(head)
    <2>1. e # 0 /\ e \in E
      BY <1>6 DEF IsNthEnd
    <2>2. WholeLines(head)
      <3>1. head # <<>> /\ e \in 1 .. e
        BY <1>1, <1>2, <2>1, EmptySeq
      <3> QED BY <1>2, <2>1, <3>1 DEF WholeLines, EndsOf
    <2>3. F \in SUBSET (1 .. e) /\ Cardinality(F) = n
      BY <1>2 DEF IsNthEnd, EndsUpTo
    <2>4. KsLines(head) = [k \in 1 .. n |-> SubSeq(head, KsLineStart(F, KsLineEnd(F, k)), KsLineEnd(F, k))]
      BY <2>2, <2>3, LinesOfWhole
    <2>5. ASSUME NEW k \in 1 .. n
          PROVE  SubSeq(head, KsLineStart(F, KsLineEnd(F, k)), KsLineEnd(F, k)) = lines[k]
      <3>0. k \in 0 .. Cardinality(E) /\ k \in 1 .. Cardinality(E) /\ k \in 1 .. Cardinality(F)
        BY <1>1, <2>3
      <3>1. PICK i : IsNthEnd(E, L, k, i)
        BY <1>1, <3>0, NthEnd
      <3>2. KsLineEnd(E, k) = i /\ i \in E /\ i \in 1 .. L /\ EndsUpTo(E, i) = k /\ i # 0
        <4>1. KsLineEnd(E, k) = i /\ i \in E
          BY <1>1, <3>0, <3>1, LineEndIs
        <4>2. i \in 1 .. L
          BY <1>1, <4>1
        <4> QED BY <3>1, <4>1, <4>2 DEF IsNthEnd
      <3>3. i <= e
        <4>1. EndsUpTo(E, i - 1) < n
          BY <1>1, <3>1, <3>2 DEF IsNthEnd
        <4> QED BY <3>2, <4>1 DEF IsNthEnd
      <3>4. \A j \in 0 .. e : F \cap (1 .. j) = E \cap (1 .. j)
        BY <1>1, <1>2
      <3>5. \A j \in 0 .. e : EndsUpTo(F, j) = EndsUpTo(E, j)
        BY <3>4 DEF EndsUpTo
      <3>6. IsNthEnd(F, e, k, i)
        <4>1. i \in 0 .. e /\ i - 1 \in 0 .. e /\ i \in F
          BY <1>1, <1>2, <3>2, <3>3
        <4>2. \A j \in 1 .. e : j \in 1 .. L /\ j - 1 \in 0 .. e
          BY <1>1
        <4>3. \A j \in 1 .. e : j <= i <=> EndsUpTo(F, j - 1) < k
          BY <3>1, <3>5, <4>2 DEF IsNthEnd
        <4>4. EndsUpTo(F, i) = k /\ EndsUpTo(F, i - 1) = k - 1
          BY <3>1, <3>2, <3>5, <4>1 DEF IsNthEnd
        <4> QED BY <3>2, <4>1, <4>3, <4>4, <3>0 DEF IsNthEnd
      <3>7. KsLineEnd(F, k) = i
        BY <1>1, <2>3, <3>0, <3>6, LineEndIs
      <3>8. KsLineStart(F, i) = KsLineStart(E, i)
        <4>1. {j \in F : j < i} = {j \in E : j < i}
          BY <1>1, <1>2, <3>2, <3>3
        <4> QED BY <4>1 DEF KsLineStart
      <3>9. KsLineStart(E, i) \in 1 .. i
        BY <1>1, <3>2, LineStartIn
      <3> DEFINE st == KsLineStart(E, i)
      <3> HIDE DEF st
      <3>10. SubSeq(head, st, i) = SubSeq(text, st, i)
        <4>1. 1 \in 1 .. L /\ e \in 1 .. L /\ st \in 1 .. e - 1 + 1 /\ i \in 1 .. e - 1 + 1
          BY <1>1, <2>1, <3>2, <3>3, <3>9 DEF st
        <4>2. SubSeq(SubSeq(text, 1, e), st, i) = SubSeq(text, 1 + st - 1, 1 + i - 1)
          BY <1>1, <4>1, SubSeqOfSubSeq
        <4>3. 1 + st - 1 = st /\ 1 + i - 1 = i
          BY <4>1
        <4> QED BY <4>2, <4>3 DEF head
      <3>11. lines[k] = SubSeq(text, st, i)
        BY <1>3, <3>0, <3>2 DEF st
      <3> QED BY <3>7, <3>8, <3>10, <3>11 DEF st
    <2> HIDE DEF F
    <2>6. KsLines(head) = [k \in 1 .. n |-> lines[k]]
      BY <2>4, <2>5
    <2>7. SubSeq(lines, 1, n) = [k \in 1 .. n |-> lines[k]]
      <3> DEFINE first == SubSeq(lines, 1, n)
      <3>1. \A k \in 1 .. n : lines[k] \in Seq(ShellChars)
        BY <1>1, <1>4
      <3>2. /\ first \in Seq(Seq(ShellChars)) /\ Len(first) = IF 1 <= n THEN n - 1 + 1 ELSE 0
            /\ \A k \in 1 .. n - 1 + 1 : first[k] = lines[1 + k - 1]
        BY <1>1, <3>1, SubSeqProperties
      <3> HIDE DEF first
      <3>3. n - 1 + 1 = n /\ 1 <= n /\ \A k \in 1 .. n : 1 + k - 1 = k
        BY <1>1, <1>6
      <3>4. first = [k \in 1 .. n |-> first[k]]
        BY <3>2, <3>3
      <3>5. \A k \in 1 .. n : first[k] = lines[k]
        BY <3>2, <3>3
      <3> QED BY <3>4, <3>5 DEF first
    <2> QED BY <2>6, <2>7 DEF head, lines
  <1> QED BY <1>5, <1>6
(* Head and tail share out a text of whole lines. *)
LEMMA FiltersOf ==
  ASSUME NEW text, WholeLines(text), NEW n \in 0 .. Len(KsLines(text))
  PROVE  /\ HeadText(text, n) \o TailText(text, Len(KsLines(text)) - n) = text
         /\ KsLines(HeadText(text, n)) = SubSeq(KsLines(text), 1, n)
  <1> DEFINE L == Len(text)
             E == EndsOf(text)
  <1>1. text \in Seq(ShellChars) /\ L \in Nat /\ E \in SUBSET (1 .. L)
    BY WholeEnds DEF WholeLines
  <1>2. Cardinality(E) \in Nat
    <2>1. IsFiniteSet(1 .. L)
      BY <1>1, FS_Interval
    <2> QED BY <1>1, <2>1, FS_Subset, FS_CardinalityType
  <1>3. Len(KsLines(text)) = Cardinality(E)
    BY <1>2, LinesOfWhole
  <1>4. n \in 0 .. Cardinality(E)
    BY <1>3
  <1>5. PICK e : IsNthEnd(E, L, n, e)
    BY <1>1, <1>4, NthEnd
  <1>6. HeadText(text, n) = SubSeq(text, 1, e)
    BY <1>4, <1>5, HeadShows
  <1>7. TailText(text, Len(KsLines(text)) - n) = SubSeq(text, e + 1, L)
    BY <1>3, <1>4, <1>5, TailShows
  <1>8. SubSeq(text, 1, e) \o SubSeq(text, e + 1, L) = text
    <2>1. 1 \in 1 .. L + 1 /\ e \in 1 - 1 .. L /\ L \in e .. L
      BY <1>1, <1>5 DEF IsNthEnd
    <2>2. SubSeq(text, 1, e) \o SubSeq(text, e + 1, L) = SubSeq(text, 1, L)
      BY <1>1, <2>1, ConcatAdjacentSubSeq
    <2> QED BY <1>1, <2>2, SubSeqFull
  <1>9. KsLines(SubSeq(text, 1, e)) = SubSeq(KsLines(text), 1, n)
    BY <1>4, <1>5, LinesOfHead
  <1> QED BY <1>6, <1>7, <1>8, <1>9

(***************************************************************************)
(* The tree keeps its form whatever the commands do.                       *)
(***************************************************************************)
ShellNode == [name : Names, type : {"file", "dir"}, text : Seq(ShellChars)]
ShellKeeps(s) ==
  /\ DOMAIN s = {"cwd", "tmp", "out", "hung"}
  /\ s.cwd \in Plain /\ s.tmp \in Seq(ShellNode)
ShellInv == current_dir \in Plain /\ ks_tmp \in Seq(ShellNode)

LEMMA ShellSoundWhere == ShellInv => PathsAgree /\ FiltersAgree
  <1> SUFFICES ASSUME ShellInv PROVE PathsAgree /\ FiltersAgree
    OBVIOUS
  <1>1. PathsAgree
    BY PathsAgreeWhere DEF ShellInv
  <1>2. ASSUME NEW i \in DOMAIN ks_tmp, ks_tmp[i].text # <<>>, ks_tmp[i].text[Len(ks_tmp[i].text)] = "nl"
        PROVE  WholeLines(ks_tmp[i].text)
    <2>1. ks_tmp[i] \in ShellNode
      BY DEF ShellInv
    <2> QED BY <1>2, <2>1 DEF ShellNode, WholeLines
  <1>3. FiltersAgree
    BY <1>2, FiltersOf, Zenon DEF FiltersAgree
  <1> QED BY <1>1, <1>3

LEMMA FindIs ==
  ASSUME NEW tmp \in Seq(ShellNode), NEW name
  PROVE  KsFind(tmp, name) = 0 \/ KsFind(tmp, name) \in 1 .. Len(tmp)
  <1> DEFINE hits == {i \in DOMAIN tmp : tmp[i].name = name}
  <1>1. CASE hits = {}
    BY <1>1 DEF KsFind
  <1>2. CASE hits # {}
    <2>1. hits \subseteq Nat
      OBVIOUS
    <2> HIDE DEF hits
    <2>2. PICK i \in hits : \A j \in hits : i <= j
      BY <1>2, <2>1, SmallestExists
    <2>3. (CHOOSE x \in hits : \A j \in hits : x <= j) \in hits
      BY <2>2, Zenon
    <2>4. KsFind(tmp, name) \in hits
      BY <1>2, <2>3, Zenon DEF KsFind, hits
    <2> QED BY <2>4 DEF hits
  <1> QED BY <1>1, <1>2

LEMMA AttachKeeps ==
  ASSUME NEW tmp \in Seq(ShellNode), NEW path \in Plain, KsParentIsTmp(path), NEW type \in {"file", "dir"}
  PROVE  KsAttach(tmp, [name |-> path[Len(path)], type |-> type, text |-> <<>>]) \in Seq(ShellNode)
  <1>1. path[Len(path)] \in Names
    BY DEF KsParentIsTmp, Plain, Paths
  <1>2. [name |-> path[Len(path)], type |-> type, text |-> <<>>] \in ShellNode
    BY <1>1 DEF ShellNode
  <1> QED BY <1>2 DEF KsAttach

LEMMA CreateKeeps ==
  ASSUME NEW tmp \in Seq(ShellNode), NEW path \in Plain
  PROVE  vfs_create(tmp, path) \in Seq(ShellNode) /\ vfs_mkdir(tmp, path) \in Seq(ShellNode)
  BY AttachKeeps DEF vfs_create, vfs_mkdir

LEMMA UnlinkKeeps ==
  ASSUME NEW tmp \in Seq(ShellNode), NEW path
  PROVE  vfs_unlink(tmp, path) \in Seq(ShellNode)
  <1>1. ASSUME NEW i \in 1 .. Len(tmp) PROVE RemoveAt(tmp, i) \in Seq(ShellNode)
    <2>1. \A j \in 1 .. i - 1 : tmp[j] \in ShellNode
      OBVIOUS
    <2>2. \A j \in i + 1 .. Len(tmp) : tmp[j] \in ShellNode
      OBVIOUS
    <2>3. 1 \in Int /\ i - 1 \in Int /\ i + 1 \in Int /\ Len(tmp) \in Int
      OBVIOUS
    <2>4. SubSeq(tmp, 1, i - 1) \in Seq(ShellNode) /\ SubSeq(tmp, i + 1, Len(tmp)) \in Seq(ShellNode)
      BY <2>1, <2>2, <2>3, SubSeqProperties
    <2> QED BY <2>4 DEF RemoveAt
  <1>2. \A name : tmpfs_unlink(tmp, name) \in Seq(ShellNode)
    BY <1>1, FindIs DEF tmpfs_unlink
  <1> QED BY <1>2 DEF vfs_unlink

LEMMA OverwriteKeeps ==
  ASSUME NEW old \in Seq(ShellChars), NEW text \in Seq(STRING)
  PROVE  KsOverwrite(old, Append(text, "nl")) \in Seq(ShellChars)
  <1>1. text \in Seq(ShellChars) /\ "nl" \in ShellChars
    <2>1. STRING \subseteq ShellChars
      BY DEF ShellChars
    <2> QED BY <2>1, SeqMonotonic DEF ShellChars
  <1> DEFINE new == Append(text, "nl")
  <1>2. new \in Seq(ShellChars) /\ Len(new) \in Nat
    BY <1>1
  <1> HIDE DEF new
  <1>3. \A j \in Len(new) + 1 .. Len(old) : old[j] \in ShellChars
    BY <1>2
  <1>4. SubSeq(old, Len(new) + 1, Len(old)) \in Seq(ShellChars)
    <2>1. Len(new) + 1 \in Int /\ Len(old) \in Int
      BY <1>2
    <2> QED BY <1>3, <2>1, SubSeqProperties
  <1> QED BY <1>2, <1>4 DEF KsOverwrite, new
LEMMA WriteKeeps ==
  ASSUME NEW s, ShellKeeps(s), NEW path \in Plain, NEW text \in Seq(STRING)
  PROVE  ShellKeeps(cmd_write(s, path, text))
  <1> DEFINE tmp == vfs_create(s.tmp, path)
             n == vfs_resolve(tmp, path)
             at == KsFind(tmp, n[2])
  <1>1. tmp \in Seq(ShellNode)
    BY CreateKeeps DEF ShellKeeps
  <1> HIDE DEF tmp
  <1>2. at = 0 \/ at \in 1 .. Len(tmp)
    BY <1>1, FindIs
  <1>3. [tmp EXCEPT ![at].text = KsOverwrite(@, Append(text, "nl"))] \in Seq(ShellNode)
    <2>1. CASE at \in 1 .. Len(tmp)
      <3>1. tmp[at] \in ShellNode
        BY <1>1, <2>1
      <3> DEFINE new == KsOverwrite(tmp[at].text, Append(text, "nl"))
      <3>2. new \in Seq(ShellChars)
        BY <3>1, OverwriteKeeps DEF ShellNode
      <3> HIDE DEF new
      <3>3. [tmp[at] EXCEPT !.text = new] \in ShellNode
        BY <3>1, <3>2 DEF ShellNode
      <3> DEFINE node == [tmp[at] EXCEPT !.text = new]
      <3>4. [tmp EXCEPT ![at] = node] \in Seq(ShellNode)
        <4> HIDE DEF node
        <4>1. node \in ShellNode
          BY <3>3 DEF node
        <4> QED BY <1>1, <2>1, <4>1
      <3>5. [tmp EXCEPT ![at].text = KsOverwrite(@, Append(text, "nl"))] = [tmp EXCEPT ![at] = node]
        BY DEF new
      <3> QED BY <3>4, <3>5
    <2>2. CASE at = 0
      <3>1. DOMAIN tmp = 1 .. Len(tmp) /\ at \notin DOMAIN tmp
        BY <1>1, <2>2
      <3>2. \A v : [tmp EXCEPT ![at] = v] = tmp
        BY <1>1, <3>1
      <3> QED BY <1>1, <3>2
    <2> QED BY <1>2, <2>1, <2>2
  <1> DEFINE over == [tmp EXCEPT ![at].text = KsOverwrite(@, Append(text, "nl"))]
  <1>4. cmd_write(s, path, text) \in {[s EXCEPT !.out = @ \o Err, !.tmp = tmp], [s EXCEPT !.tmp = tmp], [s EXCEPT !.tmp = over]}
    BY Zenon DEF cmd_write, tmp
  <1>5. over \in Seq(ShellNode)
    BY <1>3
  <1> HIDE DEF over
  <1>6. \A t \in Seq(ShellNode) : ShellKeeps([s EXCEPT !.tmp = t]) /\ \A o : ShellKeeps([s EXCEPT !.out = o, !.tmp = t])
    BY DEF ShellKeeps
  <1> QED BY <1>1, <1>4, <1>5, <1>6

LEMMA ArgIsPath ==
  ASSUME NEW line \in KS_LINES, NEW i \in 1 .. Len(line), NEW trimmed \in BOOLEAN
  PROVE  KsArg(line[i], trimmed).comps \in Paths /\ line[i].text \in Seq(STRING)
  <1> DEFINE cmd == line[i]
             Path == [abs : BOOLEAN, comps : Seq(STRING)]
             Cmd == [c : STRING, p : Path, n : Nat, text : Seq(STRING), space : BOOLEAN]
  <1>1. cmd \in Cmd
    <2>1. line \in Seq(Cmd)
      BY KSAssumption, Zenon
    <2> HIDE DEF Cmd
    <2> QED BY <2>1
  <1> HIDE DEF cmd
  <1>2. cmd.p \in Path /\ cmd.text \in Seq(STRING) /\ cmd.p.comps \in Seq(STRING)
    BY <1>1
  <1>3. cmd.p.comps \in Paths
    <2>1. STRING \subseteq Names
      BY DEF Names
    <2> QED BY <1>2, <2>1, SeqMonotonic DEF Paths
  <1> DEFINE comps == cmd.p.comps
             n == Len(comps)
             more == [comps EXCEPT ![n] = @ \o " "]
  <1>4. more \in Paths
    <2>1. CASE comps # <<>>
      <3>1. n \in 1 .. n /\ comps[n] \in STRING
        BY <1>2, <2>1, EmptySeq
      <3> DEFINE last == comps[n] \o " "
      <3>2. last \in Names
        BY <3>1 DEF Names
      <3> HIDE DEF last
      <3>3. [comps EXCEPT ![n] = last] \in Paths
        BY <1>3, <3>1, <3>2 DEF Paths
      <3> QED BY <3>3 DEF last
    <2>2. CASE comps = <<>>
      <3>1. n = 0 /\ DOMAIN comps = {}
        BY <2>2
      <3> QED BY <1>3, <2>2, <3>1
    <2> QED BY <2>1, <2>2
  <1>5. [cmd.p EXCEPT !.comps[n] = @ \o " "].comps = more
    BY <1>2
  <1> HIDE DEF more, comps
  <1>6. KsArg(cmd, trimmed).comps \in Paths
    BY <1>3, <1>4, <1>5 DEF KsArg, comps
  <1> QED BY <1>2, <1>6 DEF cmd

LEMMA ResolvedPlain ==
  ASSUME NEW cwd \in Plain, NEW p, p.comps \in Paths
  PROVE  resolve_path(cwd, p) \in Plain
  <1>1. cwd \o p.comps \in Paths
    BY ConcatProperties DEF Plain, Paths
  <1> QED BY <1>1, NamesPlain DEF resolve_path

LEMMA DispatchKeeps ==
  ASSUME NEW s, ShellKeeps(s), NEW line \in KS_LINES, NEW i \in 1 .. Len(line), NEW pipe, NEW trimmed \in BOOLEAN
  PROVE  ShellKeeps(dispatch_single_cmd(s, line[i], pipe, trimmed))
  <1> DEFINE cmd == line[i]
             p == KsArg(cmd, trimmed)
             path == resolve_path(s.cwd, p)
  <1>1. path \in Plain /\ cmd.text \in Seq(STRING)
    BY ArgIsPath, ResolvedPlain DEF ShellKeeps
  <1>2. DOMAIN s = {"cwd", "tmp", "out", "hung"} /\ s.cwd \in Plain /\ s.tmp \in Seq(ShellNode)
    BY DEF ShellKeeps
  <1> HIDE DEF cmd, p
  <1>3. ASSUME NEW o PROVE ShellKeeps([s EXCEPT !.out = o])
    BY <1>2 DEF ShellKeeps
  <1>4. ASSUME NEW tmp \in Seq(ShellNode), NEW done PROVE ShellKeeps(KsChange(s, tmp, done))
    BY <1>2 DEF ShellKeeps, KsChange
  <1>5. ShellKeeps(cmd_cd(s, p, path))
    <2>1. <<>> \in Plain
      BY RootSettled
    <2> HIDE DEF path
    <2> QED BY <1>1, <1>2, <2>1 DEF cmd_cd, ShellKeeps
  <1>6. ShellKeeps(cmd_cat(s, path))
    <2>1. ShellKeeps([s EXCEPT !.hung = TRUE])
      BY <1>2 DEF ShellKeeps
    <2> HIDE DEF path
    <2> QED BY <1>3, <2>1, Zenon DEF cmd_cat
  <1>7. ShellKeeps(cmd_write(s, path, cmd.text))
    BY <1>1, WriteKeeps
  <1>8. ShellKeeps(KsFilter(s, cmd, KsSource(s, cmd, path, pipe)))
    BY <1>3, Zenon DEF KsFilter
  <1>9. ShellKeeps(cmd_pwd(s)) /\ ShellKeeps(cmd_ls(s, path)) /\ ShellKeeps(cmd_stat(s, path))
    <2>1. ShellKeeps(cmd_pwd(s))
      BY <1>3, Zenon DEF cmd_pwd
    <2>2. ShellKeeps(cmd_ls(s, path))
      BY <1>3, Zenon DEF cmd_ls
    <2>3. ShellKeeps(cmd_stat(s, path))
      BY <1>3, Zenon DEF cmd_stat
    <2> QED BY <2>1, <2>2, <2>3
  <1>10. \A blank : ShellKeeps(cmd_echo(s, cmd.text, blank))
    BY <1>3, Zenon DEF cmd_echo
  <1>11. vfs_create(s.tmp, path) \in Seq(ShellNode) /\ vfs_mkdir(s.tmp, path) \in Seq(ShellNode) /\ vfs_unlink(s.tmp, path) \in Seq(ShellNode)
    BY <1>1, <1>2, CreateKeeps, UnlinkKeeps
  <1> DEFINE err == [s EXCEPT !.out = @ \o Err]
             touched == KsChange(s, vfs_create(s.tmp, path), vfs_resolve(vfs_create(s.tmp, path), path) # NoSuchNode)
             made == KsChange(s, vfs_mkdir(s.tmp, path), vfs_mkdir(s.tmp, path) # s.tmp)
             removed == KsChange(s, vfs_unlink(s.tmp, path), vfs_unlink(s.tmp, path) # s.tmp)
             filtered == KsFilter(s, cmd, KsSource(s, cmd, path, pipe))
             echoed == cmd_echo(s, cmd.text, cmd.space /\ ~trimmed)
  <1>12. ShellKeeps(err) /\ ShellKeeps(touched) /\ ShellKeeps(made) /\ ShellKeeps(removed) /\ ShellKeeps(filtered) /\ ShellKeeps(echoed)
    BY <1>3, <1>4, <1>8, <1>10, <1>11, Zenon
  <1> HIDE DEF err, touched, made, removed, filtered, echoed
  <1>13. dispatch_single_cmd(s, cmd, pipe, trimmed) =
           IF p = KsNoPath /\ cmd.c \in {"cat", "touch", "mkdir", "rm", "write", "stat"} THEN err ELSE
           CASE cmd.c = "pwd" -> IF cmd.space /\ ~trimmed THEN err ELSE cmd_pwd(s)
             [] cmd.c = "cd" -> cmd_cd(s, p, path)
             [] cmd.c = "ls" -> cmd_ls(s, path)
             [] cmd.c = "stat" -> cmd_stat(s, path)
             [] cmd.c = "cat" -> cmd_cat(s, path)
             [] cmd.c = "touch" -> touched
             [] cmd.c = "mkdir" -> made
             [] cmd.c = "rm" -> removed
             [] cmd.c = "write" -> cmd_write(s, path, cmd.text)
             [] cmd.c = "echo" -> echoed
             [] OTHER -> filtered
    BY Zenon DEF dispatch_single_cmd, p, err, touched, made, removed, filtered, echoed
  <1> HIDE DEF path
  <1>14. ShellKeeps(dispatch_single_cmd(s, cmd, pipe, trimmed))
    BY <1>5, <1>6, <1>7, <1>9, <1>12, <1>13
  <1> QED BY <1>14 DEF cmd

LEMMA ShellInductive == ShellInv /\ [KSNext]_ksVars => ShellInv'
  <1> SUFFICES ASSUME ShellInv, [KSNext]_ksVars PROVE ShellInv'
    OBVIOUS
  <1>1. ASSUME NEW line \in KS_LINES, process_command(line) PROVE ShellInv'
    <2> DEFINE s0 == [cwd |-> current_dir, tmp |-> ks_tmp, out |-> <<>>, hung |-> FALSE]
               s1 == dispatch_single_cmd(s0, line[1], <<>>, Len(line) = 1)
               s2 == IF Len(line) = 1 \/ s1.hung THEN s1
                     ELSE dispatch_single_cmd([s1 EXCEPT !.out = <<>>], line[2], KsCut(s1.out, KS_PIPE), FALSE)
    <2>1. /\ line # <<>> /\ Len(line) \in Nat \ {0} /\ 1 \in 1 .. Len(line) /\ (Len(line) # 1 => 2 \in 1 .. Len(line))
      <3>1. \E S : line \in Seq(S)
        BY KSAssumption
      <3>2. line # <<>>
        BY KSAssumption
      <3>3. Len(line) \in Nat \ {0}
        BY <3>1, <3>2, EmptySeq
      <3> QED BY <3>2, <3>3
    <2>2. ShellKeeps(s0)
      BY DEF ShellKeeps, ShellInv
    <2>3. ShellKeeps(s1)
      <3> HIDE DEF s0
      <3> QED BY <2>1, <2>2, DispatchKeeps
    <2>4. ShellKeeps(s2)
      <3> HIDE DEF s1
      <3>1. ShellKeeps([s1 EXCEPT !.out = <<>>])
        BY <2>3 DEF ShellKeeps
      <3> QED BY <2>1, <2>3, <3>1, DispatchKeeps
    <2>5. current_dir' = s2.cwd /\ ks_tmp' = s2.tmp
      BY <1>1, Zenon DEF process_command
    <2> HIDE DEF s2
    <2> QED BY <2>4, <2>5 DEF ShellKeeps, ShellInv
  <1>2. CASE UNCHANGED ksVars
    BY <1>2 DEF ksVars, ShellInv
  <1> QED BY <1>1, <1>2 DEF KSNext

LEMMA ShellInit == KSInit => ShellInv
  BY RootSettled DEF KSInit, ShellInv

(***************************************************************************)
(* The run checks the parts together; a behaviour of it is one of each.    *)
(***************************************************************************)
LEMMA PartsTogether == Spec => KmsgSpec /\ ConsoleSpec /\ KSSpec
  <1>1. Init => KmsgInit /\ ConsoleInit /\ KSInit
    BY DEF Init
  <1>2. [Next]_vars => [KmsgNext]_kmsgVars /\ [ConsoleNext]_consoleVars /\ [KSNext]_ksVars
    <2>1. ASSUME Next PROVE [KmsgNext]_kmsgVars /\ [ConsoleNext]_consoleVars /\ [KSNext]_ksVars
      BY <2>1, Zenon DEF Next
    <2>2. ASSUME UNCHANGED vars PROVE [KmsgNext]_kmsgVars /\ [ConsoleNext]_consoleVars /\ [KSNext]_ksVars
      BY <2>2 DEF vars
    <2> QED BY <2>1, <2>2
  <1> QED BY <1>1, <1>2, PTL DEF Spec, KmsgSpec, ConsoleSpec, KSSpec

LEMMA ShellInvHolds == KSSpec => []ShellInv
  BY ShellInit, ShellInductive, PTL DEF KSSpec

(* The variables of kmsg.c, of keyboard.c and of the line editor keep their *)
(* types and their indices stay inside the arrays.                           *)
THEOREM IoTypeCorrect == Spec => []IoTypeOK
  <1>1. KmsgTypeOK /\ ConsoleTypeOK => IoTypeOK
    BY DEF IoTypeOK
  <1> QED BY <1>1, PartsTogether, KmsgTypeCorrect, TypeCorrect, PTL

(* Whatever the shell's paths and lines are (shell.c): the names a path is   *)
(* reduced to lead where walking it from the current directory leads, and    *)
(* head and tail share out every file of whole lines.                        *)
THEOREM ShellCorrect == Spec => []ShellSound
  <1>1. ShellInv => ShellSound
    BY ShellSoundWhere, Zenon DEF ShellSound
  <1> QED BY <1>1, PartsTogether, ShellInvHolds, PTL
=============================================================================
