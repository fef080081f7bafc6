---------------------------- MODULE ConsoleProofs ----------------------------
(* Proofs about ConsoleDevice.tla, for every size of the buffer, every       *)
(* program image and every set of writes: the console stays inside of its    *)
(* buffer, the buffer holds the line, and the console implements Terminal.   *)
EXTENDS ConsoleDevice, TLAPS, WellFoundedInduction

Octet == 0..255

(* A set of natural numbers that is not empty has a least element.          *)
LEMMA Least ==
    ASSUME NEW S \in SUBSET Nat, S # {}
    PROVE  \E n \in S : \A i \in Nat : i < n => i \notin S
<1>1. PICK n \in S : \A i \in S : ~ (<<i, n>> \in OpToRel(<, Nat))
    BY NatLessThanWellFounded, WFMin, Zenon
<1>2. ASSUME NEW i \in S, i < n
      PROVE  <<i, n>> \in OpToRel(<, Nat)
    BY <1>2, Zenon DEF OpToRel
<1> QED
    BY <1>1, <1>2, Zenon

(* How much of a line the buffer holds, and that it holds it.               *)
Held(line) == IF Len(line) < BufSize THEN Len(line) ELSE BufSize - 1

Holds(m, line) ==
    /\ m.m_idx = IF Held(line) = BufSize - 1 THEN BufSize - 2 ELSE Held(line)
    /\ m.m_buf[Held(line)] = 0
    /\ \A i \in 0..(Held(line) - 1) :
         m.m_buf[i] = IF i = BufSize - 2 THEN line[Len(line)] ELSE line[i + 1]

(* The inductive invariant, on the object and the line.                     *)
Device(m, line) ==
    /\ m = [file |-> "image", m_mem |-> m.m_mem, m_buf |-> m.m_buf,
            m_idx |-> m.m_idx, printed |-> m.printed]
    /\ \A address \in DOMAIN m.m_mem : m.m_mem[address] \in Octet
    /\ m.m_buf \in [0..(BufSize - 1) -> Octet]
    /\ m.m_idx \in 0..(BufSize - 2)
    /\ line \in Seq(Octet)
    /\ Holds(m, line)

-----------------------------------------------------------------------------
(* Memory                                                                   *)

(* Every read gives a byte.                                                 *)
LEMMA ReadByte ==
    ASSUME NEW m, NEW line, Device(m, line), NEW address \in 0..(KB64 - 1)
    PROVE  readMem(m, address) \in Octet
<1>1. m.file = "image"
    BY DEF Device
<1>2. CASE address \in DOMAIN m.m_mem
    BY <1>2 DEF readMem, Device
<1>3. CASE address \notin DOMAIN m.m_mem /\ address < FileSize("image")
  <2>1. address \in 0..(FileSize("image") - 1)
    <3>1. FileSize("image") \in Nat
        BY DeviceAssumption
    <3>2. address \in Nat
        BY DEF KB64
    <3>3. address < FileSize("image")
        BY <1>3
    <3> QED
        BY <3>1, <3>2, <3>3
  <2>2. Image("image", address) \in Octet
      BY <2>1, DeviceAssumption DEF Octet
  <2> QED
      BY <1>1, <1>3, <2>2 DEF readMem
<1>4. CASE address \notin DOMAIN m.m_mem /\ ~ (address < FileSize("image"))
    BY <1>1, <1>4 DEF readMem, Octet, NOP
<1> QED
    BY <1>2, <1>3, <1>4

(* A byte that is stored is the one that is read, and no other changes.     *)
LEMMA StoredRead ==
    ASSUME NEW m, NEW line, Device(m, line), NEW address, NEW value \in Octet
    PROVE  LET s == Stored(m, address, value)
           IN  /\ Device(s, line)
               /\ s.printed = m.printed
               /\ readMem(s, address) = value
               /\ \A other : other # address => readMem(s, other) = readMem(m, other)
<1> DEFINE s == Stored(m, address, value)
           contents == [a \in DOMAIN m.m_mem \union {address} |->
                          IF a = address THEN value ELSE m.m_mem[a]]
<1>1. s = [file |-> "image", m_mem |-> contents, m_buf |-> m.m_buf,
           m_idx |-> m.m_idx, printed |-> m.printed]
    BY DEF Stored, Device
<1> HIDE DEF s
<1>2. Device(s, line)
    BY <1>1 DEF Device, Holds
<1>3. readMem(s, address) = value
    BY <1>1 DEF readMem
<1>4. ASSUME NEW other, other # address
      PROVE  readMem(s, other) = readMem(m, other)
  <2>1. m.file = "image"
      BY DEF Device
  <2> QED
      BY <1>1, <1>4, <2>1 DEF readMem
<1>5. s.printed = m.printed
    BY <1>1
<1> QED
    BY <1>2, <1>3, <1>4, <1>5 DEF s

-----------------------------------------------------------------------------
(* The three commands                                                       *)

(* Two members of the object change.                                        *)
LEMMA Fields ==
    ASSUME NEW m, NEW buf, NEW idx,
           m = [file |-> "image", m_mem |-> m.m_mem, m_buf |-> m.m_buf,
                m_idx |-> m.m_idx, printed |-> m.printed]
    PROVE  [m EXCEPT !.m_buf = buf, !.m_idx = idx]
             = [file |-> "image", m_mem |-> m.m_mem, m_buf |-> buf,
                m_idx |-> idx, printed |-> m.printed]
<1> DEFINE n == [m EXCEPT !.m_buf = buf]
<1>1. n = [file |-> "image", m_mem |-> m.m_mem, m_buf |-> buf,
           m_idx |-> m.m_idx, printed |-> m.printed]
    OBVIOUS
<1>2. [m EXCEPT !.m_buf = buf, !.m_idx = idx] = [n EXCEPT !.m_idx = idx]
    OBVIOUS
<1> HIDE DEF n
<1>3. [n EXCEPT !.m_idx = idx]
        = [file |-> "image", m_mem |-> m.m_mem, m_buf |-> buf,
           m_idx |-> idx, printed |-> m.printed]
    BY <1>1
<1> QED
    BY <1>2, <1>3

(* print appends a byte to the line.                                        *)
LEMMA PrintHolds ==
    ASSUME NEW m, NEW line, Device(m, line)
    PROVE  /\ Device(print(m), Append(line, readMem(m, CONS_DATA1)))
           /\ print(m).printed = m.printed
           /\ \A address : readMem(print(m), address) = readMem(m, address)
<1> DEFINE byte == readMem(m, CONS_DATA1)
           next == m.m_idx + 1
           buf == [m.m_buf EXCEPT ![m.m_idx] = byte, ![next] = 0]
           idx == IF next = BufSize - 1 THEN next - 1 ELSE next
           longer == Append(line, byte)
<1>1. byte \in Octet
  <2>1. CONS_DATA1 \in 0..(KB64 - 1)
      BY DEF CONS_DATA1, KB64
  <2> QED
      BY <2>1, ReadByte
<1>2. print(m) = [file |-> "image", m_mem |-> m.m_mem, m_buf |-> buf, m_idx |-> idx,
                  printed |-> m.printed]
  <2>1. print(m) = [m EXCEPT !.m_buf = buf, !.m_idx = idx]
      BY Zenon DEF print
  <2> QED
      BY <2>1, Fields, Zenon DEF Device
<1>3. /\ m.m_buf \in [0..(BufSize - 1) -> Octet]
      /\ m.m_idx \in 0..(BufSize - 2)
      /\ line \in Seq(Octet)
      /\ BufSize \in Nat /\ BufSize >= 2
      /\ m.file = "image"
    BY BufSizeAssumption DEF Device
<1> HIDE DEF byte
<1>4. buf \in [0..(BufSize - 1) -> Octet] /\ idx \in 0..(BufSize - 2)
  <2>1. m.m_idx \in 0..(BufSize - 1) /\ next \in 0..(BufSize - 1)
      BY <1>3
  <2>2. 0 \in Octet
      BY DEF Octet
  <2>3. [m.m_buf EXCEPT ![m.m_idx] = byte] \in [0..(BufSize - 1) -> Octet]
      BY <1>1, <1>3, <2>1
  <2>4. buf \in [0..(BufSize - 1) -> Octet]
      BY <2>1, <2>2, <2>3
  <2> QED
      BY <1>3, <2>4
<1>5. /\ longer \in Seq(Octet)
      /\ Len(longer) = Len(line) + 1
      /\ longer[Len(longer)] = byte
      /\ \A i \in 1..Len(line) : longer[i] = line[i]
      /\ Len(line) \in Nat
    BY <1>1, <1>3
<1>6. /\ buf[m.m_idx] = byte
      /\ buf[next] = 0
      /\ \A i \in 0..(m.m_idx - 1) : buf[i] = m.m_buf[i]
    BY <1>3
<1> HIDE DEF buf, idx, next, longer
<1>7. ASSUME Len(line) < BufSize - 2
      PROVE  Holds(print(m), longer)
  <2>1. m.m_idx = Len(line) /\ Held(line) = Len(line) /\ Held(longer) = Len(line) + 1
      BY <1>3, <1>5, <1>7 DEF Held, Device, Holds
  <2>2. \A i \in 0..(Len(line) - 1) : m.m_buf[i] = line[i + 1]
    <3>1. \A i \in 0..(Held(line) - 1) :
              m.m_buf[i] = IF i = BufSize - 2 THEN line[Len(line)] ELSE line[i + 1]
        BY Zenon DEF Device, Holds
    <3> QED
        BY <1>3, <1>5, <1>7, <2>1, <3>1
  <2>3. idx = Len(line) + 1 /\ next = Len(line) + 1
      BY <1>3, <1>5, <1>7, <2>1 DEF idx, next
  <2>4. buf[Len(line) + 1] = 0
      BY <1>6, <2>3
  <2>5. ASSUME NEW i \in 0..Len(line)
        PROVE  buf[i] = longer[i + 1]
    <3>1. CASE i = Len(line)
        BY <1>5, <1>6, <2>1, <3>1
    <3>2. CASE i < Len(line)
        BY <1>5, <1>6, <2>1, <2>2, <3>2
    <3> QED
        BY <1>5, <3>1, <3>2
  <2>6. print(m).m_buf = buf /\ print(m).m_idx = idx
      BY <1>2
  <2>7. ASSUME NEW i \in 0..(Held(longer) - 1)
        PROVE  buf[i] = longer[i + 1] /\ i # BufSize - 2
    <3>1. i \in 0..Len(line) /\ i # BufSize - 2
        BY <1>3, <1>5, <1>7, <2>1
    <3> QED
        BY <2>5, <3>1
  <2> QED
      BY <1>3, <1>5, <1>7, <2>1, <2>3, <2>4, <2>6, <2>7 DEF Holds
<1>8. ASSUME Len(line) >= BufSize - 2
      PROVE  Holds(print(m), longer)
  <2>1. m.m_idx = BufSize - 2 /\ Held(longer) = BufSize - 1
    <3>1. Held(line) = BufSize - 2 \/ Held(line) = BufSize - 1
        BY <1>3, <1>5, <1>8 DEF Held
    <3>2. m.m_idx = IF Held(line) = BufSize - 1 THEN BufSize - 2 ELSE Held(line)
        BY Zenon DEF Device, Holds
    <3>3. Held(longer) = BufSize - 1
        BY <1>3, <1>5, <1>8, SMT DEF Held
    <3> QED
        BY <3>1, <3>2, <3>3
  <2>2. \A i \in 0..(BufSize - 3) : m.m_buf[i] = line[i + 1]
    <3>1. Held(line) = BufSize - 2 \/ Held(line) = BufSize - 1
        BY <1>3, <1>5, <1>8 DEF Held
    <3>2. \A i \in 0..(Held(line) - 1) :
              m.m_buf[i] = IF i = BufSize - 2 THEN line[Len(line)] ELSE line[i + 1]
        BY Zenon DEF Device, Holds
    <3>3. ASSUME NEW i \in 0..(BufSize - 3)
          PROVE  i \in 0..(Held(line) - 1) /\ i # BufSize - 2
        BY <1>3, <3>1
    <3> QED
        BY <3>2, <3>3
  <2>3. idx = BufSize - 2 /\ next = BufSize - 1
      BY <1>3, <2>1 DEF idx, next
  <2>4. buf[BufSize - 1] = 0 /\ buf[BufSize - 2] = longer[Len(longer)]
      BY <1>5, <1>6, <2>1, <2>3
  <2>5. ASSUME NEW i \in 0..(BufSize - 3)
        PROVE  buf[i] = longer[i + 1]
      BY <1>3, <1>5, <1>6, <1>8, <2>1, <2>2
  <2>6. print(m).m_buf = buf /\ print(m).m_idx = idx
      BY <1>2
  <2>7. ASSUME NEW i \in 0..(Held(longer) - 1)
        PROVE  buf[i] = IF i = BufSize - 2 THEN longer[Len(longer)] ELSE longer[i + 1]
      BY <1>3, <2>1, <2>4, <2>5
  <2> QED
      BY <1>3, <2>1, <2>3, <2>4, <2>6, <2>7 DEF Holds
<1>9. Device(print(m), longer)
  <2>1. Holds(print(m), longer)
      BY <1>3, <1>5, <1>7, <1>8
  <2> QED
      BY <1>2, <1>4, <1>5, <2>1 DEF Device
<1>10. \A address : readMem(print(m), address) = readMem(m, address)
    BY <1>2, <1>3 DEF readMem
<1> QED
    BY <1>2, <1>9, <1>10 DEF longer, byte

(* clear leaves an empty line.                                              *)
LEMMA ClearHolds ==
    ASSUME NEW m, NEW line, Device(m, line)
    PROVE  /\ Device(clear(m), <<>>)
           /\ clear(m).printed = m.printed
           /\ \A address : readMem(clear(m), address) = readMem(m, address)
<1> DEFINE buf == [m.m_buf EXCEPT ![0] = 0]
<1>1. clear(m) = [file |-> "image", m_mem |-> m.m_mem, m_buf |-> buf, m_idx |-> 0,
                  printed |-> m.printed]
  <2>1. clear(m) = [m EXCEPT !.m_buf = buf, !.m_idx = 0]
      BY Zenon DEF clear
  <2> QED
      BY <2>1, Fields, Zenon DEF Device
<1>2. /\ m.m_buf \in [0..(BufSize - 1) -> Octet]
      /\ BufSize \in Nat /\ BufSize >= 2
      /\ m.file = "image"
    BY BufSizeAssumption DEF Device
<1>3. buf \in [0..(BufSize - 1) -> Octet] /\ buf[0] = 0
  <2>1. 0 \in 0..(BufSize - 1) /\ 0 \in Octet
      BY <1>2 DEF Octet
  <2> QED
      BY <1>2, <2>1
<1> HIDE DEF buf
<1>4. Held(<<>>) = 0
    BY <1>2 DEF Held
<1>5. Holds(clear(m), <<>>)
    BY <1>1, <1>2, <1>3, <1>4 DEF Holds
<1>6. Device(clear(m), <<>>)
    BY <1>1, <1>2, <1>3, <1>5 DEF Device
<1>7. \A address : readMem(clear(m), address) = readMem(m, address)
    BY <1>1, <1>2 DEF readMem
<1> QED
    BY <1>1, <1>6, <1>7

(* flush prints the text in the buffer and leaves an empty line.            *)
LEMMA FlushHolds ==
    ASSUME NEW m, NEW line, Device(m, line)
    PROVE  /\ Device(flush(m), <<>>)
           /\ flush(m).printed
                = Append(m.printed, [i \in 1..FirstZero(m.m_buf) |-> m.m_buf[i - 1]])
           /\ \A address : readMem(flush(m), address) = readMem(m, address)
<1> DEFINE lines == Append(m.printed, [i \in 1..FirstZero(m.m_buf) |-> m.m_buf[i - 1]])
           n == [m EXCEPT !.printed = lines]
<1>1. flush(m) = clear(n)
    BY DEF flush
<1> HIDE DEF lines
<1>2. n = [file |-> "image", m_mem |-> m.m_mem, m_buf |-> m.m_buf, m_idx |-> m.m_idx,
           printed |-> lines]
    BY DEF Device
<1> HIDE DEF n
<1>3. Device(n, line)
    BY <1>2 DEF Device, Holds
<1>4. \A address : readMem(n, address) = readMem(m, address)
  <2>1. m.file = "image"
      BY DEF Device
  <2> QED
      BY <1>2, <2>1 DEF readMem
<1>5. n.printed = lines
    BY <1>2
<1> QED
    BY <1>1, <1>3, <1>4, <1>5, ClearHolds DEF lines

(* What printf() finds in front of the first zero of the buffer is the text *)
(* of the line, cut to what the console holds.                              *)
LEMMA TextOfBuffer ==
    ASSUME NEW m, NEW line, Device(m, line)
    PROVE  T!Text(T!Kept(line)) = [i \in 1..FirstZero(m.m_buf) |-> m.m_buf[i - 1]]
<1> DEFINE buf == m.m_buf
           held == Held(line)
           kept == T!Kept(line)
           Zeros == {n \in 0..(BufSize - 1) : buf[n] = 0}
           First(n) == buf[n] = 0 /\ \A i \in 0..(n - 1) : buf[i] # 0
<1>1. /\ line \in Seq(Octet) /\ Len(line) \in Nat
      /\ BufSize \in Nat /\ BufSize >= 2
      /\ buf \in [0..(BufSize - 1) -> Octet]
      /\ held \in 0..(BufSize - 1)
      /\ buf[held] = 0
    BY BufSizeAssumption DEF Device, Holds, Held
<1>2. kept \in Seq(Octet) /\ Len(kept) = held
  <2>1. CASE Len(line) <= BufSize - 1
      BY <1>1, <2>1 DEF T!Kept, Held
  <2>2. CASE ~ (Len(line) <= BufSize - 1)
    <3>1. kept = [i \in 1..(BufSize - 1) |->
                    IF i = BufSize - 1 THEN line[Len(line)] ELSE line[i]]
        BY <2>2 DEF T!Kept
    <3>2. \A i \in 1..(BufSize - 1) : kept[i] \in Octet
        BY <1>1, <2>2, <3>1
    <3>3. held = BufSize - 1
        BY <1>1, <2>2 DEF Held
    <3> QED
        BY <1>1, <3>1, <3>2, <3>3
  <2> QED
      BY <2>1, <2>2
<1>3. ASSUME NEW i \in 1..held
      PROVE  kept[i] = buf[i - 1]
  <2>1. buf[i - 1] = IF i - 1 = BufSize - 2 THEN line[Len(line)] ELSE line[(i - 1) + 1]
      BY <1>1 DEF Device, Holds
  <2>2. CASE Len(line) <= BufSize - 1
      BY <1>1, <2>1, <2>2 DEF T!Kept, Held
  <2>3. CASE ~ (Len(line) <= BufSize - 1)
      BY <1>1, <2>1, <2>3 DEF T!Kept, Held
  <2> QED
      BY <2>2, <2>3
<1> HIDE DEF kept, held, buf
<1>4. PICK z \in Zeros : \A i \in Nat : i < z => i \notin Zeros
  <2>1. Zeros \in SUBSET Nat /\ Zeros # {}
      BY <1>1
  <2> QED
      BY <2>1, Least
<1>5. z \in 0..held /\ First(z)
    BY <1>1, <1>4
<1>6. FirstZero(buf) = z
  <2>1. FirstZero(buf) = CHOOSE n \in 0..(BufSize - 1) : First(n)
      BY DEF FirstZero
  <2>2. \A n \in 0..(BufSize - 1) : First(n) => n = z
      BY <1>1, <1>5
  <2> QED
      BY <1>1, <1>5, <2>1, <2>2
<1>7. T!Text(kept) = SubSeq(kept, 1, z)
  <2>1. T!EndsAt(kept, z)
      BY <1>1, <1>2, <1>3, <1>5 DEF T!EndsAt
  <2>2. ASSUME NEW n \in 0..held, T!EndsAt(kept, n)
        PROVE  n = z
    <3>1. n = held \/ kept[n + 1] = 0
        BY <1>2, <2>2 DEF T!EndsAt
    <3>2. \A i \in 1..n : kept[i] # 0
        BY <2>2 DEF T!EndsAt
    <3>3. buf[n] = 0
        BY <1>1, <1>3, <3>1
    <3>4. \A i \in 0..(n - 1) : buf[i] # 0
      <4> SUFFICES ASSUME NEW i \in 0..(n - 1)
                   PROVE  buf[i] # 0
          OBVIOUS
      <4>1. i + 1 \in 1..held /\ i + 1 \in 1..n /\ (i + 1) - 1 = i
          BY <1>1
      <4> QED
          BY <1>3, <3>2, <4>1
    <3> QED
        BY <1>1, <1>5, <3>3, <3>4
  <2>3. (CHOOSE n \in 0..held : T!EndsAt(kept, n)) = z
      BY <1>5, <2>1, <2>2
  <2> QED
      BY <1>2, <2>3 DEF T!Text
<1>8. SubSeq(kept, 1, z) = [i \in 1..z |-> buf[i - 1]]
    BY <1>1, <1>2, <1>3, <1>5
<1> QED
    BY <1>6, <1>7, <1>8 DEF kept, buf

-----------------------------------------------------------------------------
(* The state machine                                                        *)

DeviceInv == Device(mem, sent)

(* A new object holds an empty line.                                         *)
LEMMA InitHolds == Init => DeviceInv
<1> SUFFICES ASSUME Init
             PROVE  Device(mem, sent)
    BY DEF DeviceInv
<1>1. /\ mem = [file |-> "image", m_mem |-> [address \in {} |-> 0],
                m_buf |-> [i \in 0..(BufSize - 1) |-> 0], m_idx |-> 0, printed |-> <<>>]
      /\ sent = <<>>
    BY DEF Init, fillMem
<1>2. BufSize \in Nat /\ BufSize >= 2 /\ 0 \in 0..(BufSize - 1) /\ 0 \in Octet
    BY BufSizeAssumption DEF Octet
<1>3. Held(sent) = 0
    BY <1>1, <1>2 DEF Held
<1>4. Holds(mem, sent)
    BY <1>1, <1>2, <1>3 DEF Holds
<1> QED
    BY <1>1, <1>2, <1>4 DEF Device

(* What a write comes to: one of the three commands on the memory with the  *)
(* command stored, a plain store, or nothing.                               *)
LEMMA WriteCases ==
    ASSUME DeviceInv, NEW address \in 0..(KB64 - 1), NEW value \in Octet,
           Write(address, value)
    PROVE  LET s == Stored(mem, address, value)
           IN  \/ /\ address = CONS_CTRL /\ mem' = print(s)
                  /\ sent' = Append(sent, readMem(mem, CONS_DATA1))
               \/ address = CONS_CTRL /\ mem' = flush(s) /\ sent' = <<>>
               \/ address = CONS_CTRL /\ mem' = clear(s) /\ sent' = <<>>
               \/ mem' = s /\ sent' = sent
               \/ mem' = mem /\ sent' = sent
<1> DEFINE s == Stored(mem, address, value)
<1>1. mem' = writeMem(mem, address, value)
    BY DEF Write
<1>2. readMem(s, address) = value
    BY StoredRead DEF DeviceInv
<1>3. sent' = IF Commands(address, value, CONS_CMD_PRINT)
                THEN Append(sent, readMem(mem, CONS_DATA1))
              ELSE IF \/ Commands(address, value, CONS_CMD_FLUSH)
                      \/ Commands(address, value, CONS_CMD_CLEAR)
                THEN <<>>
              ELSE sent
    BY DEF Write
<1> HIDE DEF s
<1>4. CASE address = CONS_CTRL
  <2>1. mem' = write(s, address)
      BY <1>1, <1>4 DEF writeMem, s
  <2>2. mem' = IF value = CONS_CMD_PRINT THEN print(s)
               ELSE IF value = CONS_CMD_FLUSH THEN flush(s)
               ELSE IF value = CONS_CMD_CLEAR THEN clear(s)
               ELSE s
      BY <1>2, <1>4, <2>1, Zenon DEF write
  <2>3. sent' = IF value = CONS_CMD_PRINT THEN Append(sent, readMem(mem, CONS_DATA1))
                ELSE IF value = CONS_CMD_FLUSH \/ value = CONS_CMD_CLEAR THEN <<>>
                ELSE sent
      BY <1>3, <1>4 DEF Commands
  <2> QED
      BY <1>4, <2>2, <2>3 DEF s
<1>5. CASE address # CONS_CTRL
  <2>1. sent' = sent
      BY <1>3, <1>5 DEF Commands
  <2>2. mem' = s \/ mem' = mem
      BY <1>1, <1>5 DEF writeMem, write, s
  <2> QED
      BY <2>1, <2>2 DEF s
<1> QED
    BY <1>4, <1>5

(* No step breaks the invariant.                                            *)
LEMMA StepHolds == DeviceInv /\ [Next]_vars => DeviceInv'
<1> SUFFICES ASSUME DeviceInv, [Next]_vars
             PROVE  Device(mem', sent')
    BY DEF DeviceInv
<1>1. CASE UNCHANGED vars
    BY <1>1 DEF vars, DeviceInv
<1>2. CASE Next
  <2>1. PICK pair \in Writes : Write(pair[1], pair[2])
      BY <1>2 DEF Next
  <2> DEFINE address == pair[1]
             value == pair[2]
             s == Stored(mem, address, value)
  <2>2. address \in 0..(KB64 - 1) /\ value \in Octet
      BY <2>1, DeviceAssumption DEF Octet
  <2>3. Device(s, sent)
      BY <2>2, StoredRead DEF DeviceInv
  <2>4. CONS_CTRL # CONS_DATA1
      BY DEF CONS_CTRL, CONS_DATA1
  <2>5. address = CONS_CTRL => readMem(s, CONS_DATA1) = readMem(mem, CONS_DATA1)
      BY <2>2, <2>4, StoredRead DEF DeviceInv
  <2>6. \/ /\ address = CONS_CTRL /\ mem' = print(s)
           /\ sent' = Append(sent, readMem(mem, CONS_DATA1))
        \/ address = CONS_CTRL /\ mem' = flush(s) /\ sent' = <<>>
        \/ address = CONS_CTRL /\ mem' = clear(s) /\ sent' = <<>>
        \/ mem' = s /\ sent' = sent
        \/ mem' = mem /\ sent' = sent
      BY <2>1, <2>2, WriteCases
  <2> HIDE DEF s, address, value
  <2>7. CASE /\ address = CONS_CTRL /\ mem' = print(s)
             /\ sent' = Append(sent, readMem(mem, CONS_DATA1))
      BY <2>3, <2>5, <2>7, PrintHolds
  <2>8. CASE mem' = flush(s) /\ sent' = <<>>
      BY <2>3, <2>8, FlushHolds
  <2>9. CASE mem' = clear(s) /\ sent' = <<>>
      BY <2>3, <2>9, ClearHolds
  <2>10. CASE sent' = sent /\ (mem' = s \/ mem' = mem)
      BY <2>3, <2>10 DEF DeviceInv
  <2> QED
      BY <2>6, <2>7, <2>8, <2>9, <2>10
<1> QED
    BY <1>1, <1>2

(* The invariant holds throughout.                                           *)
LEMMA DeviceInvariant == Spec => []DeviceInv
<1> QED
    BY InitHolds, StepHolds, PTL DEF Spec

(* Type correctness: memory holds bytes and the index leaves room for a     *)
(* byte and the zero behind it, whatever a program writes.                  *)
THEOREM TypeCorrect == Spec => []TypeOK
<1>1. DeviceInv => TypeOK
    BY DEF DeviceInv, Device, TypeOK, Octet
<1> QED
    BY <1>1, DeviceInvariant, PTL

(* The buffer is the line, as much of it as fits, with a zero behind it,    *)
(* for every size of the buffer.                                            *)
THEOREM BufferIsLine == Spec => []BufferHoldsLine
<1>1. DeviceInv => BufferHoldsLine
    BY DEF DeviceInv, Device, Holds, Held, BufferHoldsLine
<1> QED
    BY <1>1, DeviceInvariant, PTL

-----------------------------------------------------------------------------
(* The refinement                                                           *)

(* A new object shows an empty terminal.                                     *)
LEMMA InitRefines == Init => T!Init
<1> SUFFICES ASSUME Init
             PROVE  T!Init
    OBVIOUS
<1>1. sent = <<>> /\ mem.printed = <<>>
    BY DEF Init, fillMem
<1>2. CONS_DATA1 \in 0..(KB64 - 1)
    BY DEF CONS_DATA1, KB64
<1>3. readMem(mem, CONS_DATA1) \in 0..255
    BY <1>2, InitHolds, ReadByte DEF DeviceInv, Octet
<1> QED
    BY <1>1, <1>3 DEF T!Init

(* Every write is a step of Terminal: print sends, flush prints, clear      *)
(* clears, and any other write loads the data register, perhaps with what   *)
(* it has.                                                                  *)
LEMMA StepRefines == DeviceInv /\ [Next]_vars => [T!Next]_T!vars
<1> SUFFICES ASSUME DeviceInv, [Next]_vars
             PROVE  [T!Next]_T!vars
    OBVIOUS
<1>1. CASE UNCHANGED vars
    BY <1>1 DEF vars, T!vars, readMem
<1>2. CASE Next
  <2>1. PICK pair \in Writes : Write(pair[1], pair[2])
      BY <1>2 DEF Next
  <2> DEFINE address == pair[1]
             value == pair[2]
             s == Stored(mem, address, value)
  <2>2. address \in 0..(KB64 - 1) /\ value \in Octet
      BY <2>1, DeviceAssumption DEF Octet
  <2>3. Device(s, sent) /\ s.printed = mem.printed
      BY <2>2, StoredRead DEF DeviceInv
  <2>4. CONS_CTRL # CONS_DATA1 /\ CONS_DATA1 \in 0..(KB64 - 1)
      BY DEF CONS_CTRL, CONS_DATA1, KB64
  <2>5. address = CONS_CTRL => readMem(s, CONS_DATA1) = readMem(mem, CONS_DATA1)
      BY <2>2, <2>4, StoredRead DEF DeviceInv
  <2>6. \/ /\ address = CONS_CTRL /\ mem' = print(s)
           /\ sent' = Append(sent, readMem(mem, CONS_DATA1))
        \/ address = CONS_CTRL /\ mem' = flush(s) /\ sent' = <<>>
        \/ address = CONS_CTRL /\ mem' = clear(s) /\ sent' = <<>>
        \/ mem' = s /\ sent' = sent
        \/ mem' = mem /\ sent' = sent
      BY <2>1, <2>2, WriteCases
  <2> HIDE DEF s, address, value
  <2>7. CASE /\ address = CONS_CTRL /\ mem' = print(s)
             /\ sent' = Append(sent, readMem(mem, CONS_DATA1))
    <3>1. readMem(mem', CONS_DATA1) = readMem(mem, CONS_DATA1) /\ mem'.printed = mem.printed
        BY <2>3, <2>5, <2>7, PrintHolds
    <3> QED
        BY <2>7, <3>1 DEF T!Next, T!Send
  <2>8. CASE address = CONS_CTRL /\ mem' = flush(s) /\ sent' = <<>>
    <3>1. readMem(mem', CONS_DATA1) = readMem(mem, CONS_DATA1)
        BY <2>3, <2>5, <2>8, FlushHolds
    <3>2. mem'.printed = Append(mem.printed, T!Text(T!Kept(sent)))
        BY <2>3, <2>8, FlushHolds, TextOfBuffer
    <3> QED
        BY <2>8, <3>1, <3>2 DEF T!Next, T!Flush
  <2>9. CASE address = CONS_CTRL /\ mem' = clear(s) /\ sent' = <<>>
    <3>1. readMem(mem', CONS_DATA1) = readMem(mem, CONS_DATA1) /\ mem'.printed = mem.printed
        BY <2>3, <2>5, <2>9, ClearHolds
    <3> QED
        BY <2>9, <3>1 DEF T!Next, T!Clear
  <2>10. CASE sent' = sent /\ (mem' = s \/ mem' = mem)
    <3>1. Device(mem', sent) /\ mem'.printed = mem.printed
        BY <2>3, <2>10 DEF DeviceInv
    <3>2. readMem(mem', CONS_DATA1) \in 0..255
        BY <2>4, <3>1, ReadByte DEF Octet
    <3> QED
        BY <2>10, <3>1, <3>2 DEF T!Next, T!Load
  <2> QED
      BY <2>6, <2>7, <2>8, <2>9, <2>10
<1> QED
    BY <1>1, <1>2

(* The console implements Terminal: every line printed is the text of what  *)
(* was sent for it, up to the capacity of the buffer, for every size of it. *)
THEOREM ConsoleImplementsTerminal == Spec => ImplementsTerminal
<1> QED
    BY InitRefines, StepRefines, DeviceInvariant, PTL DEF Spec, ImplementsTerminal, T!Spec
=============================================================================
