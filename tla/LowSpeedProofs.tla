---------------------------- MODULE LowSpeedProofs ----------------------------
(***************************************************************************)
(* Proofs about the I2C controller, a bank of GPIO lines and the codec.    *)
(***************************************************************************)
EXTENDS MCLowSpeed, RecursionLemmas

-----------------------------------------------------------------------------
(* The I2C controller: what has been on the bus.                           *)

Transfers == {t \in [read : BOOLEAN, len : Nat] : t.read => t.len # 0}

\* What the first transfers of a request put on the bus, for each number of them.
Frames(r) == [i \in DOMAIN r.transfers |-> OnTheWire(r.transfers[i])]
Parts(r)  == CHOOSE F : Flattens(Int, Frames(r), F)

Transfer == request.transfers[index]
Before   == Parts(request)[index - 1]
After    == Parts(request)[index]

\* n numbers, one after the other.
Numbers(k, n) == [i \in 1 .. n |-> i + k]

\* The first n symbols of a transfer: START, the address and the bytes are -1, 0, 1, and so on.
Wired(n) == Numbers(-2, n)
\* The first n bytes of it.
Stored(n) == Numbers(0, n)

\* Nothing is under way between controller and device, nor pending.
Quiet == con \cap {"START", "STOP"} = {} /\ ipd = {} /\ tx = <<>> /\ rx = 0

\* An interrupt is pending: its routine has not begun, or has found it.
Pending(bits) == ipd = bits /\ tx = <<>> /\ rx = 0 /\ con \cap {"START", "STOP"} = {}
\* What the interrupt routine has found, if it runs.
Routine == isr.on => isr.ipd = ipd /\ isr.state = state

Starting ==
  /\ state = "START" /\ ien = {"START"} /\ processed = 0 /\ ok /\ mdl = <<>> /\ descriptor = Transfer
  /\ \/ con = {"EN", "START"} /\ ipd = {} /\ tx = <<>> /\ rx = 0 /\ ~isr.on /\ wire = Before
     \/ Pending({"START"}) /\ con = {"EN"} /\ wire = Before \o Wired(1)

Writing ==
  /\ state = "WRITE" /\ ien = {"MBTF", "NAKRCV"} /\ ok /\ descriptor = Transfer /\ ~Transfer.read
  /\ processed \in 0 .. Transfer.len /\ (processed = 0 => Transfer.len = 0) /\ con = {"EN"}
  /\ \/ /\ ipd = {} /\ tx \in Seq(Int) /\ tx # <<>> /\ rx = 0 /\ ~isr.on
        /\ wire \o tx = Before \o Wired(2 + processed)
     \/ Pending({"MBTF"}) /\ wire = Before \o Wired(2 + processed)
     \/ Pending({"NAKRCV"})

\* As many bytes as the controller has been told to read next.
Chunk == IF Transfer.len - processed > Buffer THEN Buffer ELSE Transfer.len - processed

Reading ==
  /\ state = "READ" /\ ien = {"MBRF", "NAKRCV"} /\ ok /\ descriptor = Transfer /\ Transfer.read
  /\ processed \in 0 .. Transfer.len - 1 /\ mdl = Stored(processed)
  /\ "EN" \in con /\ con \cap {"START", "STOP"} = {} /\ ("RX" \in con <=> processed # 0)
  /\ \/ /\ ipd = {} /\ tx = <<>> /\ rx = Chunk /\ ~isr.on
        /\ wire = Before \o Wired(IF processed = 0 THEN 1 ELSE 2 + processed)
     \/ /\ Pending({"MBRF", "START"}) /\ got = [i \in 1 .. Chunk |-> processed + i]
        /\ wire = Before \o Wired(2 + processed + Chunk)
     \/ Pending({"NAKRCV"})

Stopping ==
  /\ state = "STOP" /\ ien = {"STOP"} /\ ok /\ "EN" \in con /\ "START" \notin con
  /\ Transfer.read => mdl = Stored(Transfer.len)
  /\ \/ /\ "STOP" \in con /\ ipd = {} /\ tx = <<>> /\ rx = 0 /\ ~isr.on
        /\ wire = Before \o Wired(2 + Transfer.len)
     \/ Pending({"STOP"}) /\ wire = After

\* The end of the transfer is on its way to the thread, or has come.
Ended ==
  /\ state = "IDLE" /\ Quiet /\ ~isr.on /\ (dpc \/ event) /\ ~(dpc /\ event)
  /\ ok => wire = After /\ (Transfer.read => mdl = Stored(Transfer.len))

Running ==
  /\ ~dpc /\ ~event /\ isLastMsg = (state = "STOP") /\ Routine
  /\ Starting \/ Writing \/ Reading \/ Stopping

\* Between two waits: no interrupt is enabled, or the routine finds nothing to do.
Resting == Quiet /\ ~isr.on /\ ~dpc /\ (state = "IDLE" \/ ien = {})

Timely ==
  /\ pc \in {"idle", "clear", "start", "wait"}
  /\ pc # "idle" => request \in Requests /\ index \in 1 .. Len(request.transfers) /\ result = "none"
  /\ pc # "wait" => Resting
  /\ pc \in {"clear", "start"} => wire = Before
  /\ pc = "start" => ~event
  /\ pc = "wait" => Ended \/ Running
  /\ TransferredAsAsked

BusInv == late \in Nat /\ (late = 0 => Timely)

-----------------------------------------------------------------------------
(* The sequences on the bus.                                               *)

\* Joining sequences, and their elements.
LEMMA Joined ==
  ASSUME NEW E, NEW s \in Seq(E), NEW u \in Seq(E)
  PROVE  /\ s \o u \in Seq(E) /\ Len(s \o u) = Len(s) + Len(u)
         /\ \A i \in 1 .. Len(s) + Len(u) : (s \o u)[i] = IF i <= Len(s) THEN s[i] ELSE u[i - Len(s)]
  BY ConcatProperties

\* Numbers are numbers.
LEMMA NumbersType ==
  ASSUME NEW k \in Int, NEW n \in Nat
  PROVE  /\ Numbers(k, n) \in Seq(Int) /\ Len(Numbers(k, n)) = n
         /\ \A i \in 1 .. n : Numbers(k, n)[i] = i + k
  BY DEF Numbers

\* The next ones follow the first ones.
LEMMA NumbersOn ==
  ASSUME NEW k \in Int, NEW c \in Nat, NEW n \in Nat, NEW s \in Seq(Int),
         Len(s) = n, \A i \in 1 .. n : s[i] = c + i + k
  PROVE  Numbers(k, c) \o s = Numbers(k, c + n)
  <1> DEFINE w == Numbers(k, c)
             all == Numbers(k, c + n)
             u == w \o s
  <1>1. /\ c + n \in Nat /\ w \in Seq(Int) /\ all \in Seq(Int) /\ Len(w) = c /\ Len(all) = c + n
        /\ \A i \in 1 .. c : w[i] = i + k
        /\ \A i \in 1 .. c + n : all[i] = i + k
    <2>1. c + n \in Nat
      OBVIOUS
    <2>2. w \in Seq(Int) /\ Len(w) = c /\ \A i \in 1 .. c : w[i] = i + k
      BY NumbersType
    <2> HIDE DEF w
    <2>3. all \in Seq(Int) /\ Len(all) = c + n /\ \A i \in 1 .. c + n : all[i] = i + k
      BY <2>1, NumbersType
    <2> HIDE DEF all
    <2>4. QED
      BY <2>1, <2>2, <2>3
  <1> HIDE DEF w, all
  <1>2. /\ u \in Seq(Int) /\ Len(u) = c + n
        /\ \A i \in 1 .. c + n : u[i] = IF i <= c THEN w[i] ELSE s[i - c]
    BY <1>1, Joined
  <1> HIDE DEF u
  <1>3. ASSUME NEW i \in 1 .. c + n PROVE u[i] = all[i]
    <2>1. CASE i <= c
      <3>1. i \in 1 .. c
        BY <2>1
      <3>2. QED
        BY <1>1, <1>2, <2>1, <3>1
    <2>2. CASE ~(i <= c)
      <3>1. i - c \in 1 .. n /\ c + (i - c) + k = i + k
        BY <2>2
      <3>2. s[i - c] = i + k
        BY <3>1
      <3>3. QED
        BY <1>1, <1>2, <2>2, <3>2
    <2>3. QED
      BY <2>1, <2>2
  <1>4. u = all
    BY <1>1, <1>2, <1>3, SeqEqual
  <1>5. QED
    BY <1>4 DEF u, w, all

\* What is on the bus is a sequence of symbols.
LEMMA WiredType ==
  ASSUME NEW n \in Nat
  PROVE  Wired(n) \in Seq(Int) /\ Len(Wired(n)) = n /\ \A i \in 1 .. n : Wired(n)[i] = i - 2
  <1> DEFINE k == -2
  <1>1. k \in Int /\ \A i \in 1 .. n : i + k = i - 2
    OBVIOUS
  <1> HIDE DEF k
  <1>2. /\ Numbers(k, n) \in Seq(Int) /\ Len(Numbers(k, n)) = n
        /\ \A i \in 1 .. n : Numbers(k, n)[i] = i + k
    BY <1>1, NumbersType
  <1>3. Wired(n) = Numbers(k, n)
    BY DEF Wired, k
  <1>4. QED
    BY <1>1, <1>2, <1>3

\* Joining symbols is associative.
LEMMA JoinedThrice ==
  ASSUME NEW s \in Seq(Int), NEW t \in Seq(Int), NEW u \in Seq(Int)
  PROVE  (s \o t) \o u = s \o (t \o u)
  BY ConcatAssociative

\* n symbols that may follow c symbols of a transfer.
Follow(c, n, s) == s \in Seq(Int) /\ Len(s) = n /\ \A i \in 1 .. n : s[i] = c + i - 2

\* The next symbols are the next numbers.
Grows(b, c, n, s) == b \in Seq(Int) /\ c \in Nat /\ n \in Nat /\ Follow(c, n, s)
Grown(b, c, n, s) == (b \o Wired(c)) \o s = b \o Wired(c + n)

LEMMA WiredOn ==
  ASSUME NEW b, NEW c, NEW n, NEW s, Grows(b, c, n, s)
  PROVE  Grown(b, c, n, s)
  <1>0. /\ b \in Seq(Int) /\ c \in Nat /\ n \in Nat
        /\ s \in Seq(Int) /\ Len(s) = n /\ \A i \in 1 .. n : s[i] = c + i - 2
    BY DEF Grows, Follow
  <1>1. Wired(c) \in Seq(Int)
    BY <1>0, WiredType
  <1>2. (b \o Wired(c)) \o s = b \o (Wired(c) \o s)
    BY <1>0, <1>1, JoinedThrice
  <1>3. Wired(c) \o s = Wired(c + n)
    <2> DEFINE k == -2
    <2>1. k \in Int /\ \A i \in 1 .. n : s[i] = c + i + k
      BY <1>0
    <2> HIDE DEF k
    <2>2. Numbers(k, c) \o s = Numbers(k, c + n)
      BY <1>0, <2>1, NumbersOn
    <2>3. QED
      BY <2>2 DEF Wired, k
  <1>4. QED
    BY <1>2, <1>3 DEF Grown

\* The last symbol of the bus, while a transfer is under way.
LEMMA WiredLast ==
  ASSUME NEW b \in Seq(Int), NEW c \in Nat \ {0}
  PROVE  b \o Wired(c) # <<>> /\ Last(b \o Wired(c)) = c - 2
  <1>1. Wired(c) \in Seq(Int) /\ Len(Wired(c)) = c /\ Wired(c)[c] = c - 2
    BY WiredType
  <1>2. /\ Len(b \o Wired(c)) = Len(b) + c /\ b \o Wired(c) \in Seq(Int)
        /\ \A i \in 1 .. Len(b) + c : (b \o Wired(c))[i] = IF i <= Len(b) THEN b[i] ELSE Wired(c)[i - Len(b)]
    <2> DEFINE w == Wired(c)
    <2>1. w \in Seq(Int) /\ Len(w) = c
      BY <1>1
    <2> HIDE DEF w
    <2>2. /\ b \o w \in Seq(Int) /\ Len(b \o w) = Len(b) + Len(w)
          /\ \A i \in 1 .. Len(b) + Len(w) : (b \o w)[i] = IF i <= Len(b) THEN b[i] ELSE w[i - Len(b)]
      BY <2>1, Joined
    <2>3. QED
      BY <2>1, <2>2 DEF w
  <1>3. /\ Len(b) \in Nat /\ Len(b) + c \in 1 .. Len(b) + c /\ ~(Len(b) + c <= Len(b))
        /\ Len(b) + c - Len(b) = c /\ Len(b) + c # 0
    BY LenProperties
  <1>4. (b \o Wired(c))[Len(b) + c] = c - 2
    BY <1>1, <1>2, <1>3
  <1>5. b \o Wired(c) # <<>>
    BY <1>2, <1>3, EmptySeq
  <1>6. QED
    BY <1>2, <1>4, <1>5 DEF Last

\* The whole of a transfer ends with the STOP condition.
LEMMA WholeTransfer ==
  ASSUME NEW t \in Transfers
  PROVE  OnTheWire(t) = Wired(2 + t.len) \o <<STOP>> /\ OnTheWire(t) \in Seq(Int)
  <1> DEFINE n == t.len
             bytes == [i \in 1 .. n |-> i]
             first == <<START, Address>>
  <1>1. n \in Nat
    BY DEF Transfers
  <1>2. /\ first \in Seq(Int) /\ Len(first) = 2 /\ first[1] = -1 /\ first[2] = 0
        /\ bytes \in Seq(Int) /\ Len(bytes) = n /\ \A i \in 1 .. n : bytes[i] = i
        /\ <<STOP>> \in Seq(Int)
    BY <1>1 DEF START, Address, STOP
  <1> HIDE DEF n, bytes, first
  <1>3. first \o bytes = Wired(2 + n)
    <2>1. /\ first \o bytes \in Seq(Int) /\ Len(first \o bytes) = 2 + n
          /\ \A i \in 1 .. 2 + n : (first \o bytes)[i] = IF i <= 2 THEN first[i] ELSE bytes[i - 2]
      <3>1. first \in Seq(Int) /\ bytes \in Seq(Int) /\ Len(first) = 2 /\ Len(bytes) = n
        BY <1>2
      <3>2. /\ first \o bytes \in Seq(Int) /\ Len(first \o bytes) = Len(first) + Len(bytes)
            /\ \A i \in 1 .. Len(first) + Len(bytes) :
                 (first \o bytes)[i] = IF i <= Len(first) THEN first[i] ELSE bytes[i - Len(first)]
        BY <3>1, Joined
      <3>3. QED
        BY <3>1, <3>2
    <2>2. Wired(2 + n) \in Seq(Int) /\ Len(Wired(2 + n)) = 2 + n /\ \A i \in 1 .. 2 + n : Wired(2 + n)[i] = i - 2
      BY <1>1, WiredType
    <2>3. ASSUME NEW i \in 1 .. 2 + n PROVE (first \o bytes)[i] = i - 2
      <3>1. CASE i <= 2
        <4>1. i = 1 \/ i = 2
          BY <3>1, <1>1
        <4>2. QED
          BY <1>2, <2>1, <3>1, <4>1
      <3>2. CASE ~(i <= 2)
        <4>1. i - 2 \in 1 .. n
          BY <3>2, <1>1
        <4>2. QED
          BY <1>2, <2>1, <3>2, <4>1
      <3>3. QED
        BY <3>1, <3>2
    <2>4. QED
      BY <2>1, <2>2, <2>3, SeqEqual
  <1>4. OnTheWire(t) = (first \o bytes) \o <<STOP>>
    BY DEF OnTheWire, first, bytes, n
  <1>5. Wired(2 + n) \in Seq(Int)
    BY <1>1, WiredType
  <1>6. QED
    BY <1>2, <1>3, <1>4, <1>5, Joined DEF n

\* The transfers of a request are put on the bus one after the other.
LEMMA PartByPart ==
  ASSUME NEW r \in Requests
  PROVE  /\ Len(r.transfers) \in Nat \ {0} /\ \A i \in 1 .. Len(r.transfers) : r.transfers[i] \in Transfers
         /\ Parts(r)[0] = <<>> /\ Parts(r)[Len(r.transfers)] = FlattenSeq(Frames(r))
         /\ \A i \in 0 .. Len(r.transfers) : Parts(r)[i] \in Seq(Int)
         /\ \A i \in 1 .. Len(r.transfers) : Parts(r)[i] = Parts(r)[i - 1] \o OnTheWire(r.transfers[i])
  <1> DEFINE n == Len(r.transfers)
  <1>1. /\ r.transfers \in Seq(Transfers) /\ r.transfers # <<>>
        /\ n \in Nat \ {0} /\ \A i \in 1 .. n : r.transfers[i] \in Transfers
    <2>1. r.transfers \in Seq(Transfers) /\ r.transfers # <<>>
      BY I2cAssumption, Zenon DEF I2cAssumption, Transfers
    <2>2. n \in Nat /\ n # 0 /\ \A i \in 1 .. n : r.transfers[i] \in Transfers
      BY <2>1, EmptySeq, LenProperties
    <2>3. QED
      BY <2>1, <2>2
  <1>2. Frames(r) \in Seq(Seq(Int)) /\ Len(Frames(r)) = n
        /\ \A i \in 1 .. n : Frames(r)[i] = OnTheWire(r.transfers[i])
    <2>1. DOMAIN r.transfers = 1 .. n
      BY <1>1
    <2>2. \A i \in 1 .. n : OnTheWire(r.transfers[i]) \in Seq(Int)
      BY <1>1, WholeTransfer
    <2> HIDE DEF n
    <2>3. QED
      BY <1>1, <2>1, <2>2 DEF Frames
  <1>3. Flattens(Int, Frames(r), Parts(r))
    BY <1>2, FlattenStepwise DEF Parts
  <1>4. QED
    BY <1>1, <1>2, <1>3 DEF Flattens

-----------------------------------------------------------------------------
(* The steps of the driver.                                                *)

\* Where a request stands.
LEMMA Here ==
  ASSUME request \in Requests, index \in 1 .. Len(request.transfers)
  PROVE  /\ Transfer \in Transfers /\ Before \in Seq(Int) /\ After \in Seq(Int)
         /\ After = (Before \o Wired(2 + Transfer.len)) \o <<STOP>>
  <1>1. /\ index - 1 \in 0 .. Len(request.transfers) /\ index \in 0 .. Len(request.transfers)
        /\ Len(request.transfers) \in Nat
    BY PartByPart
  <1>2. /\ Transfer \in Transfers /\ Before \in Seq(Int) /\ After \in Seq(Int)
        /\ After = Before \o OnTheWire(Transfer)
    BY <1>1, PartByPart DEF Transfer, Before, After
  <1>3. OnTheWire(Transfer) = Wired(2 + Transfer.len) \o <<STOP>>
    BY <1>2, WholeTransfer
  <1>4. Wired(2 + Transfer.len) \in Seq(Int) /\ <<STOP>> \in Seq(Int)
    <2>1. 2 + Transfer.len \in Nat
      BY <1>2 DEF Transfers
    <2>2. QED
      BY <2>1, WiredType DEF STOP
  <1>5. (Before \o Wired(2 + Transfer.len)) \o <<STOP>> = Before \o OnTheWire(Transfer)
    <2> DEFINE b == Before
               w == Wired(2 + Transfer.len)
               u == <<STOP>>
    <2>1. b \in Seq(Int) /\ w \in Seq(Int) /\ u \in Seq(Int)
      BY <1>2, <1>4
    <2> HIDE DEF b, w, u
    <2>2. (b \o w) \o u = b \o (w \o u)
      BY <2>1, JoinedThrice
    <2>3. QED
      BY <1>3, <2>2 DEF b, w, u
  <1>6. QED
    BY <1>2, <1>5

\* It stands there as long as request and index do not change.
LEMMA StillHere ==
  ASSUME UNCHANGED <<request, index>>
  PROVE  Before' = Before /\ After' = After /\ Transfer' = Transfer
  BY DEF Before, After, Transfer

\* i2c_xfer takes a request.
LEMMA SubmitKeeps ==
  ASSUME Timely, Submit
  PROVE  Timely'
  <1>1. /\ pc = "idle" /\ pc' = "clear" /\ request' \in Requests /\ index' = 1 /\ wire' = <<>>
        /\ result' = "none"
        /\ UNCHANGED <<con, ipd, tx, rx, isr, dpc, state, ien>>
    BY DEF Submit, regs, driver
  <1>2. Resting'
    BY <1>1 DEF Timely, Resting, Quiet
  <1>3. index' \in 1 .. Len(request'.transfers) /\ Before' = <<>>
    <2>1. Parts(request')[0] = <<>> /\ Len(request'.transfers) \in Nat \ {0}
      BY <1>1, PartByPart
    <2>2. index' - 1 = 0 /\ Before' = Parts(request')[index' - 1]
      BY <1>1 DEF Before, Parts, Frames
    <2>3. QED
      BY <1>1, <2>1, <2>2
  <1>4. TransferredAsAsked'
    BY <1>1 DEF TransferredAsAsked
  <1>5. QED
    BY <1>1, <1>2, <1>3, <1>4 DEF Timely

\* It clears the event.
LEMMA ClearEventKeeps ==
  ASSUME Timely, ClearEvent
  PROVE  Timely'
  <1>1. /\ pc = "clear" /\ pc' = "start" /\ event' = FALSE
        /\ UNCHANGED <<request, index, con, ipd, tx, rx, isr, dpc, state, ien, wire, result>>
    BY DEF ClearEvent, regs, driver, xfer
  <1>2. Resting' /\ Before' = Before
    BY <1>1, StillHere DEF Timely, Resting, Quiet
  <1>3. result = "none"
    BY <1>1 DEF Timely
  <1>4. QED
    BY <1>1, <1>2, <1>3 DEF Timely, TransferredAsAsked

\* rk3x_i2c_start: nothing of an earlier transfer is pending.
LEMMA StartTransferKeeps ==
  ASSUME Timely, StartTransfer
  PROVE  Timely'
  <1>1. /\ pc = "start" /\ pc' = "wait"
        /\ descriptor' = Transfer /\ isLastMsg' = FALSE /\ state' = "START" /\ processed' = 0 /\ ok' = TRUE
        /\ ien' = {"START"} /\ con' = {"EN", "START"} /\ tx' = <<>> /\ rx' = 0 /\ mdl' = <<>>
        /\ UNCHANGED <<request, index, event, dpc, isr, ipd, wire, result>>
    BY DEF StartTransfer, xfer, Transfer
  <1>2. /\ ipd = {} /\ ~isr.on /\ ~dpc /\ ~event /\ wire = Before /\ result = "none"
        /\ request \in Requests /\ index \in 1 .. Len(request.transfers)
    BY <1>1 DEF Timely, Resting, Quiet
  <1>3. Before' = Before /\ Transfer' = Transfer
    BY <1>1, StillHere
  <1>4. Starting'
    BY <1>1, <1>2, <1>3 DEF Starting
  <1>5. Running'
    BY <1>1, <1>2, <1>4 DEF Running, Routine
  <1>6. QED
    BY <1>1, <1>2, <1>5 DEF Timely, TransferredAsAsked

\* The wait has ended: the transfer is on the bus and stored, or the request fails.
LEMMA WaitEndsKeeps ==
  ASSUME Timely, WaitEnds
  PROVE  Timely'
  <1>1. /\ pc = "wait" /\ event
        /\ UNCHANGED <<request, con, ipd, tx, rx, isr, dpc, state, ien, wire, mdl, ok>>
        /\ \/ ok /\ index < Len(request.transfers) /\ pc' = "clear" /\ index' = index + 1 /\ result' = result
           \/ /\ ~(ok /\ index < Len(request.transfers)) /\ pc' = "idle" /\ index' = index
              /\ result' = (IF ok THEN "success" ELSE "error")
    BY DEF WaitEnds, regs, driver
  <1>2. /\ Ended /\ request \in Requests /\ index \in 1 .. Len(request.transfers) /\ result = "none"
    BY <1>1 DEF Timely, Running
  <1>0. Len(request.transfers) \in Nat \ {0}
    BY <1>2, PartByPart
  <1>3. Resting'
    BY <1>1, <1>2 DEF Ended, Resting, Quiet
  <1>4. CASE ok /\ index < Len(request.transfers)
    <2>1. pc' = "clear" /\ index' = index + 1 /\ index' \in 1 .. Len(request.transfers) /\ result' = "none"
      BY <1>0, <1>1, <1>2, <1>4
    <2>2. Before' = After
      <3>1. index' - 1 = index
        BY <1>2, <2>1
      <3>2. QED
        BY <1>1, <3>1 DEF Before, After, Parts, Frames
    <2>3. wire' = After
      BY <1>1, <1>2, <1>4 DEF Ended
    <2>4. TransferredAsAsked'
      BY <2>1 DEF TransferredAsAsked
    <2>5. QED
      BY <1>1, <1>2, <1>3, <2>1, <2>2, <2>3, <2>4 DEF Timely
  <1>5. CASE ~(ok /\ index < Len(request.transfers))
    <2>1. pc' = "idle" /\ index' = index /\ result' = (IF ok THEN "success" ELSE "error")
      BY <1>1, <1>5
    <2>2. ASSUME result' = "success"
          PROVE  /\ wire' = FlattenSeq(Frames(request))
                 /\ Last(request.transfers).read => mdl' = Stored(Last(request.transfers).len)
      <3>1. ok
        BY <2>1, <2>2
      <3>2. index = Len(request.transfers)
        BY <1>0, <1>2, <1>5, <3>1
      <3>3. After = FlattenSeq(Frames(request)) /\ Transfer = Last(request.transfers)
        BY <1>2, <3>2, PartByPart DEF After, Transfer, Last
      <3>4. QED
        BY <1>1, <1>2, <3>1, <3>3 DEF Ended
    <2>3. \A n \in Nat : Stored(n) = [i \in 1 .. n |-> i]
      BY DEF Stored, Numbers
    <2>4. Last(request.transfers).len \in Nat
      <3>1. Len(request.transfers) \in 1 .. Len(request.transfers)
        BY <1>0
      <3>2. Last(request.transfers) \in Transfers
        BY <1>2, <3>1, PartByPart DEF Last
      <3>3. QED
        BY <3>2 DEF Transfers
    <2>5. TransferredAsAsked'
      BY <1>1, <2>2, <2>3, <2>4 DEF TransferredAsAsked, Frames
    <2>6. QED
      BY <1>1, <1>2, <1>3, <2>1, <2>5 DEF Timely
  <1>6. QED
    BY <1>4, <1>5

\* rk3x_i2c_dpc ends the wait.
LEMMA DpcKeeps ==
  ASSUME Timely, Dpc
  PROVE  Timely'
  <1>1. /\ dpc /\ dpc' = FALSE /\ event' = TRUE
        /\ UNCHANGED <<pc, request, index, con, ipd, tx, rx, isr, state, ien, wire, mdl, ok, result>>
    BY DEF Dpc, xfer, regs, driver
  <1>2. pc = "wait" /\ Ended
    BY <1>1 DEF Timely, Resting, Running
  <1>3. After' = After /\ Transfer' = Transfer
    BY <1>1, StillHere
  <1>4. Ended'
    BY <1>1, <1>2, <1>3 DEF Ended, Quiet
  <1>5. TransferredAsAsked'
    BY <1>1 DEF Timely, TransferredAsAsked
  <1>6. QED
    BY <1>1, <1>2, <1>4, <1>5 DEF Timely

\* Whatever a request that has timed out has left, it is gone after D3.
LEMMA PowerCycleRests ==
  ASSUME PowerCycle
  PROVE  Timely'
  <1>1. /\ pc' = "idle" /\ result' = "none" /\ con' = {} /\ ipd' = {} /\ ien' = {} /\ tx' = <<>> /\ rx' = 0
        /\ ~isr'.on /\ ~dpc'
    BY DEF PowerCycle
  <1>2. Resting'
    BY <1>1 DEF Resting, Quiet
  <1>3. QED
    BY <1>1, <1>2 DEF Timely, TransferredAsAsked

-----------------------------------------------------------------------------
(* The steps of the interrupt routine and of the controller: a transfer is *)
(* running, and all that they need of the thread is that it waits.         *)

\* While the routine runs, an interrupt is pending or a transfer goes on.
LEMMA OnlyWhileRunning ==
  ASSUME Timely,
         isr.on \/ ipd # {} \/ tx # <<>> \/ rx > 0 \/ "START" \in con \/ "STOP" \in con
  PROVE  /\ pc = "wait" /\ Running /\ result = "none"
         /\ request \in Requests /\ index \in 1 .. Len(request.transfers)
  <1>1. ~Resting
    BY DEF Resting, Quiet
  <1>2. ~Ended
    BY DEF Ended, Quiet
  <1>3. QED
    BY <1>1, <1>2 DEF Timely

\* The thread goes on waiting.
LEMMA GoesOn ==
  ASSUME Timely, pc = "wait", result = "none",
         request \in Requests, index \in 1 .. Len(request.transfers),
         UNCHANGED <<pc, request, index, result>>, Ended' \/ Running'
  PROVE  Timely'
  BY DEF Timely, TransferredAsAsked

\* The routine reads REG_IPD and the state.
LEMMA IsrEntersKeeps ==
  ASSUME Timely, IsrEnters
  PROVE  Timely'
  <1>1. /\ ipd \cap ien # {} /\ ~isr.on
        /\ UNCHANGED <<pc, request, index, event, dpc, state, descriptor, processed, isLastMsg, ok, con,
                      ien, tx, rx, got, wire, mdl, result>>
        /\ \/ state = "IDLE" /\ ipd' = {} /\ isr' = isr
           \/ state # "IDLE" /\ isr' = [on |-> TRUE, ipd |-> ipd, state |-> state] /\ ipd' = ipd
    BY DEF IsrEnters, xfer, driver
  <1>2. /\ pc = "wait" /\ Running /\ result = "none"
        /\ request \in Requests /\ index \in 1 .. Len(request.transfers)
    BY <1>1, OnlyWhileRunning
  <1>3. Before' = Before /\ After' = After /\ Transfer' = Transfer
    BY <1>1, StillHere
  <1>4. state # "IDLE"
    BY <1>2 DEF Running, Starting, Writing, Reading, Stopping
  <1>5. isr' = [on |-> TRUE, ipd |-> ipd, state |-> state] /\ ipd' = ipd /\ ipd # {}
    BY <1>1, <1>4
  <1>6. (Starting => Starting') /\ (Stopping => Stopping')
    BY <1>1, <1>3, <1>5 DEF Starting, Stopping, Pending
  <1>7. Writing => Writing'
    BY <1>1, <1>3, <1>5 DEF Writing, Pending
  <1>8. Chunk' = Chunk /\ (Reading => Reading')
    BY <1>1, <1>3, <1>5 DEF Reading, Pending, Chunk
  <1>9. Routine'
    BY <1>1, <1>5 DEF Routine
  <1>10. Running'
    BY <1>1, <1>2, <1>6, <1>7, <1>8, <1>9 DEF Running
  <1>11. QED
    BY <1>1, <1>2, <1>10, GoesOn

\* With one state of the routine goes one phase of the transfer.
LEMMA RoutineFinds ==
  ASSUME Timely, isr.on
  PROVE  /\ pc = "wait" /\ Running /\ result = "none" /\ isr.ipd = ipd /\ isr.state = state
         /\ request \in Requests /\ index \in 1 .. Len(request.transfers)
         /\ ~dpc /\ ~event /\ isLastMsg = (state = "STOP")
         /\ \/ Starting /\ Pending({"START"}) /\ con = {"EN"} /\ wire = Before \o Wired(1)
            \/ Writing /\ Pending({"MBTF"}) /\ wire = Before \o Wired(2 + processed)
            \/ Writing /\ Pending({"NAKRCV"})
            \/ /\ Reading /\ Pending({"MBRF", "START"}) /\ got = [i \in 1 .. Chunk |-> processed + i]
               /\ wire = Before \o Wired(2 + processed + Chunk)
            \/ Reading /\ Pending({"NAKRCV"})
            \/ Stopping /\ Pending({"STOP"}) /\ wire = After
  <1>1. /\ pc = "wait" /\ Running /\ result = "none"
        /\ request \in Requests /\ index \in 1 .. Len(request.transfers)
    BY OnlyWhileRunning
  <1>2. isr.ipd = ipd /\ isr.state = state /\ ~dpc /\ ~event /\ isLastMsg = (state = "STOP")
    BY <1>1 DEF Running, Routine
  <1>3. Starting \/ Writing \/ Reading \/ Stopping
    BY <1>1 DEF Running
  <1>4. Starting => Pending({"START"}) /\ con = {"EN"} /\ wire = Before \o Wired(1)
    BY DEF Starting
  <1>5. Writing => Pending({"NAKRCV"}) \/ (Pending({"MBTF"}) /\ wire = Before \o Wired(2 + processed))
    BY DEF Writing
  <1>6. Reading => \/ Pending({"NAKRCV"})
                   \/ /\ Pending({"MBRF", "START"}) /\ got = [i \in 1 .. Chunk |-> processed + i]
                      /\ wire = Before \o Wired(2 + processed + Chunk)
    BY DEF Reading
  <1>7. Stopping => Pending({"STOP"}) /\ wire = After
    BY DEF Stopping
  <1>8. QED
    BY <1>1, <1>2, <1>3, <1>4, <1>5, <1>6, <1>7

\* rk3x_i2c_fill_transmit_buf at the beginning: the address, and what follows of the message.
LEMMA FirstBytes ==
  ASSUME NEW len \in Nat, FillTransmitBuf(0, len), ok
  PROVE  \E n \in 0 .. len : /\ (n = 0 => len = 0) /\ processed' = n /\ ok' /\ tx' \in Seq(Int) /\ Len(tx') = 1 + n
                             /\ \A i \in 1 .. 1 + n : tx'[i] = 1 + i - 2
  <1> DEFINE room == Buffer - 1
             n == IF len > room THEN room ELSE len
             bytes == [i \in 1 .. n |-> i]
  <1>1. Buffer \in Nat /\ Buffer > 1
    BY I2cAssumption
  <1>2. n \in 0 .. len /\ (n = 0 => len = 0) /\ len - 0 = len /\ 0 + n = n
    BY <1>1
  <1>3. /\ processed' = n /\ ok'
        /\ tx' = <<Address>> \o [i \in 1 .. n |-> IF 0 + i <= len THEN 0 + i ELSE Junk]
    BY <1>2 DEF FillTransmitBuf
  <1>4. [i \in 1 .. n |-> IF 0 + i <= len THEN 0 + i ELSE Junk] = bytes
    BY <1>1
  <1>5. /\ <<Address>> \in Seq(Int) /\ Len(<<Address>>) = 1 /\ <<Address>>[1] = 0
        /\ bytes \in Seq(Int) /\ Len(bytes) = n /\ \A i \in 1 .. n : bytes[i] = i
    BY <1>2 DEF Address
  <1> HIDE DEF n, bytes
  <1>6. /\ tx' \in Seq(Int) /\ Len(tx') = 1 + n
        /\ \A i \in 1 .. 1 + n : tx'[i] = IF i <= 1 THEN <<Address>>[i] ELSE bytes[i - 1]
    <2> DEFINE a == <<Address>>
    <2>1. a \in Seq(Int) /\ bytes \in Seq(Int) /\ Len(a) = 1 /\ Len(bytes) = n /\ tx' = a \o bytes
      BY <1>3, <1>4, <1>5
    <2> HIDE DEF a
    <2>2. /\ a \o bytes \in Seq(Int) /\ Len(a \o bytes) = Len(a) + Len(bytes)
          /\ \A i \in 1 .. Len(a) + Len(bytes) :
               (a \o bytes)[i] = IF i <= Len(a) THEN a[i] ELSE bytes[i - Len(a)]
      BY <2>1, Joined
    <2>3. /\ tx' \in Seq(Int) /\ Len(tx') = 1 + n
          /\ \A i \in 1 .. 1 + n : tx'[i] = IF i <= 1 THEN a[i] ELSE bytes[i - 1]
      BY <2>1, <2>2
    <2>4. QED
      BY <2>3 DEF a
  <1>7. ASSUME NEW i \in 1 .. 1 + n PROVE tx'[i] = 1 + i - 2
    <2>1. CASE i = 1
      BY <1>2, <1>5, <1>6, <2>1
    <2>2. CASE i # 1
      <3>1. i - 1 \in 1 .. n /\ ~(i <= 1) /\ i - 1 = 1 + i - 2
        BY <1>2, <2>2
      <3>2. QED
        BY <1>5, <1>6, <3>1
    <2>3. QED
      BY <2>1, <2>2
  <1>8. QED
    BY <1>2, <1>3, <1>6, <1>7

\* START is on the bus: the first bytes are written, or asked for.
LEMMA HandleStartKeeps ==
  ASSUME Timely, HandleStart
  PROVE  Timely'
  <1> DEFINE len == Transfer.len
  <1>1. /\ isr.on /\ isr.state = "START" /\ isr' = NoIsr /\ ipd' = ipd \ {"START"}
        /\ \/ /\ descriptor.read /\ state' = "READ" /\ ien' = ReadInterrupts
              /\ PrepareRead(processed, descriptor.len) /\ UNCHANGED <<tx, processed, ok>>
           \/ /\ ~descriptor.read /\ state' = "WRITE" /\ ien' = {"MBTF", "NAKRCV"}
              /\ con' = con \ {"START"} /\ FillTransmitBuf(processed, descriptor.len) /\ rx' = rx
        /\ UNCHANGED <<pc, request, index, event, dpc, descriptor, isLastMsg, got, wire, mdl, result>>
    BY DEF HandleStart, IsrEnds, xfer
  <1>2. /\ pc = "wait" /\ result = "none" /\ request \in Requests /\ index \in 1 .. Len(request.transfers)
        /\ ~dpc /\ ~event /\ isLastMsg = FALSE /\ Starting /\ Pending({"START"}) /\ con = {"EN"}
        /\ wire = Before \o Wired(1)
    BY <1>1, RoutineFinds DEF Starting, Writing, Reading, Stopping
  <1>3. Before' = Before /\ After' = After /\ Transfer' = Transfer
    BY <1>1, StillHere
  <1>4. Transfer \in Transfers /\ Before \in Seq(Int)
    BY <1>2, Here
  <1>5. len \in Nat /\ (Transfer.read => len # 0) /\ Buffer \in Nat /\ Buffer > 1
    BY <1>4, I2cAssumption DEF Transfers
  <1>6. /\ descriptor = Transfer /\ processed = 0 /\ ok /\ mdl = <<>> /\ ipd' = {} /\ tx = <<>> /\ rx = 0
        /\ ~isr'.on
    BY <1>1, <1>2 DEF Starting, Pending, NoIsr
  <1>7. CASE descriptor.read
    <2>1. /\ state' = "READ" /\ ien' = {"MBRF", "NAKRCV"} /\ processed' = 0 /\ ok' /\ tx' = <<>>
          /\ PrepareRead(0, len)
      BY <1>1, <1>6, <1>7 DEF ReadInterrupts
    <2>2. rx' = Chunk' /\ "EN" \in con' /\ con' \cap {"START", "STOP", "RX"} = {}
      <3>1. len - 0 = len /\ ~(len < 0)
        BY <1>5
      <3>2. rx' = IF len > Buffer THEN Buffer ELSE len
        BY <2>1, <3>1 DEF PrepareRead
      <3>3. Chunk' = IF len > Buffer THEN Buffer ELSE len
        BY <1>3, <2>1, <3>1 DEF Chunk
      <3>4. con' = {"EN"} \/ con' = {"EN", "LASTACK"}
        BY <1>2, <2>1 DEF PrepareRead
      <3>5. QED
        BY <3>2, <3>3, <3>4
    <2>3. processed' \in 0 .. len - 1 /\ Stored(0) = <<>>
      <3>1. Stored(0) = <<>>
        BY DEF Stored, Numbers
      <3>2. QED
        BY <1>5, <1>6, <1>7, <2>1, <3>1
    <2>4. Reading'
      BY <1>1, <1>2, <1>3, <1>6, <1>7, <2>1, <2>2, <2>3 DEF Reading
    <2>5. Running'
      BY <1>1, <1>2, <1>6, <2>1, <2>4 DEF Running, Routine
    <2>6. QED
      BY <1>1, <1>2, <2>5, GoesOn
  <1>8. CASE ~descriptor.read
    <2>1. /\ state' = "WRITE" /\ ien' = {"MBTF", "NAKRCV"} /\ con' = {"EN"} /\ FillTransmitBuf(0, len) /\ rx' = 0
      BY <1>1, <1>2, <1>6, <1>8
    <2>2. PICK n \in 0 .. len : /\ (n = 0 => len = 0) /\ processed' = n /\ ok' /\ tx' \in Seq(Int) /\ Len(tx') = 1 + n
                                /\ \A i \in 1 .. 1 + n : tx'[i] = 1 + i - 2
      BY <1>5, <1>6, <2>1, FirstBytes
    <2>3. wire' \o tx' = Before \o Wired(2 + n)
      <3>1. 1 + n \in Nat /\ 1 + (1 + n) = 2 + n
        BY <1>5
      <3>2. Follow(1, 1 + n, tx')
        BY <2>2 DEF Follow
      <3>3. (Before \o Wired(1)) \o tx' = Before \o Wired(1 + (1 + n))
        <4> DEFINE s == tx'
                   m == 1 + n
        <4>1. Grows(Before, 1, m, s)
          BY <1>4, <3>1, <3>2 DEF Grows
        <4> HIDE DEF s, m
        <4>2. Grown(Before, 1, m, s)
          BY <4>1, WiredOn
        <4>3. QED
          BY <4>2 DEF Grown, s, m
      <3>4. QED
        BY <1>1, <1>2, <3>1, <3>3
    <2>4. tx' # <<>>
      BY <1>5, <2>2, EmptySeq
    <2>5. Writing'
      BY <1>1, <1>2, <1>3, <1>6, <1>8, <2>1, <2>2, <2>3, <2>4 DEF Writing
    <2>6. Running'
      BY <1>1, <1>2, <1>6, <2>1, <2>5 DEF Running, Routine
    <2>7. QED
      BY <1>1, <1>2, <2>6, GoesOn
  <1>9. QED
    BY <1>7, <1>8

\* In the middle of a message: the next bytes of it.
LEMMA NextBytes ==
  ASSUME NEW len \in Nat, NEW done \in Nat, done # 0, done < len, FillTransmitBuf(done, len), ok
  PROVE  \E n \in Nat : /\ n # 0 /\ done + n <= len /\ processed' = done + n /\ ok'
                        /\ tx' \in Seq(Int) /\ Len(tx') = n
                        /\ \A i \in 1 .. n : tx'[i] = (2 + done) + i - 2
  <1> DEFINE n == IF len - done > Buffer THEN Buffer ELSE len - done
  <1>1. Buffer \in Nat /\ Buffer > 1
    BY I2cAssumption
  <1>2. n \in Nat /\ n # 0 /\ done + n <= len /\ ~(done >= len)
    BY <1>1
  <1>3. /\ processed' = done + n /\ ok'
        /\ tx' = [i \in 1 .. n |-> IF done + i <= len THEN done + i ELSE Junk]
    BY <1>2 DEF FillTransmitBuf
  <1> HIDE DEF n
  <1>4. \A i \in 1 .. n : done + i <= len /\ done + i \in Int /\ done + i = (2 + done) + i - 2
    BY <1>2
  <1>5. tx' = [i \in 1 .. n |-> done + i]
    BY <1>3, <1>4
  <1>6. tx' \in Seq(Int) /\ Len(tx') = n /\ \A i \in 1 .. n : tx'[i] = (2 + done) + i - 2
    BY <1>2, <1>4, <1>5
  <1>7. QED
    BY <1>2, <1>3, <1>6

\* The buffer has been sent: the next one, or the STOP condition.
LEMMA HandleWriteKeeps ==
  ASSUME Timely, HandleWrite
  PROVE  Timely'
  <1> DEFINE len == Transfer.len
  <1>1. /\ isr.on /\ isr.state = "WRITE" /\ "NAKRCV" \notin isr.ipd /\ isr' = NoIsr /\ ipd' = ipd \ {"MBTF"}
        /\ \/ Finished /\ Stop(TRUE, ok)
           \/ /\ ~Finished /\ FillTransmitBuf(processed, descriptor.len)
              /\ UNCHANGED <<dpc, state, descriptor, isLastMsg, con, ien, rx>>
        /\ UNCHANGED <<pc, request, index, event, got, wire, mdl, result>>
    BY DEF HandleWrite, IsrEnds, xfer
  <1>2. /\ pc = "wait" /\ result = "none" /\ request \in Requests /\ index \in 1 .. Len(request.transfers)
        /\ ~dpc /\ ~event /\ isLastMsg = FALSE /\ Writing /\ Pending({"MBTF"})
        /\ wire = Before \o Wired(2 + processed)
    BY <1>1, RoutineFinds DEF Starting, Writing, Reading, Stopping, Pending
  <1>3. Before' = Before /\ After' = After /\ Transfer' = Transfer
    BY <1>1, StillHere
  <1>4. Transfer \in Transfers /\ Before \in Seq(Int)
    BY <1>2, Here
  <1>5. len \in Nat /\ processed \in Nat /\ (processed = 0 => len = 0) /\ processed <= len
    BY <1>2, <1>4 DEF Transfers, Writing
  <1>6. /\ descriptor = Transfer /\ ~Transfer.read /\ ok /\ ipd' = {} /\ tx = <<>> /\ rx = 0 /\ con = {"EN"}
        /\ ~isr'.on /\ state = "WRITE" /\ ien = {"MBTF", "NAKRCV"}
    BY <1>1, <1>2 DEF Writing, Pending, NoIsr
  <1>7. CASE Finished
    <2>1. processed = len
      BY <1>5, <1>6, <1>7 DEF Finished
    <2>2. /\ ok' = ok /\ isLastMsg' = TRUE /\ ien' = {"STOP"} /\ state' = "STOP" /\ con' = con \cup {"STOP"}
          /\ UNCHANGED <<dpc, tx, rx>>
      BY <1>1, <1>7 DEF Stop
    <2>3. Stopping'
      BY <1>1, <1>2, <1>3, <1>6, <2>1, <2>2 DEF Stopping
    <2>4. Running'
      BY <1>1, <1>2, <1>6, <2>2, <2>3 DEF Running, Routine
    <2>5. QED
      BY <1>1, <1>2, <2>4, GoesOn
  <1>8. CASE ~Finished
    <2>1. processed < len /\ processed # 0 /\ FillTransmitBuf(processed, len)
      <3>1. processed < len /\ processed # 0
        BY <1>5, <1>6, <1>8 DEF Finished
      <3>2. FillTransmitBuf(processed, len)
        BY <1>1, <1>6, <1>8, Zenon
      <3>3. QED
        BY <3>1, <3>2
    <2>2. PICK n \in Nat : /\ n # 0 /\ processed + n <= len /\ processed' = processed + n /\ ok'
                           /\ tx' \in Seq(Int) /\ Len(tx') = n
                           /\ \A i \in 1 .. n : tx'[i] = (2 + processed) + i - 2
      BY <1>5, <1>6, <2>1, NextBytes
    <2>3. wire' \o tx' = Before \o Wired(2 + processed')
      <3>1. 2 + processed \in Nat /\ (2 + processed) + n = 2 + processed'
        BY <1>5, <2>2
      <3>2. Follow(2 + processed, n, tx')
        BY <2>2 DEF Follow
      <3>3. (Before \o Wired(2 + processed)) \o tx' = Before \o Wired((2 + processed) + n)
        <4> DEFINE s == tx'
                   c == 2 + processed
        <4>1. Grows(Before, c, n, s)
          BY <1>4, <3>1, <3>2 DEF Grows
        <4> HIDE DEF s, c
        <4>2. Grown(Before, c, n, s)
          BY <4>1, WiredOn
        <4>3. QED
          BY <4>2 DEF Grown, s, c
      <3>4. QED
        BY <1>1, <1>2, <3>1, <3>3
    <2>4. tx' # <<>> /\ processed' \in 0 .. len /\ processed' # 0
      BY <1>5, <2>2, EmptySeq
    <2>5. Writing'
      BY <1>1, <1>3, <1>6, <1>8, <2>2, <2>3, <2>4 DEF Writing
    <2>6. Running'
      <3>1. UNCHANGED <<dpc, event, state, isLastMsg>>
        BY <1>1, <1>8
      <3>2. isLastMsg' = (state' = "STOP") /\ ~dpc' /\ ~event'
        BY <1>2, <1>6, <3>1
      <3>3. QED
        BY <1>6, <2>5, <3>2 DEF Running, Routine
    <2>7. QED
      BY <1>1, <1>2, <2>6, GoesOn
  <1>9. QED
    BY <1>7, <1>8

\* The buffer has been received: the next one, or the STOP condition.
LEMMA HandleReadKeeps ==
  ASSUME Timely, HandleRead
  PROVE  Timely'
  <1> DEFINE len == Transfer.len
             left == descriptor.len - processed
             n == IF left > Buffer THEN Buffer ELSE IF left < 0 THEN 0 ELSE left
             bytes == [i \in 1 .. n |-> IF i \in DOMAIN got THEN got[i] ELSE Junk]
  <1>1. /\ isr.on /\ isr.state = "READ" /\ "NAKRCV" \notin isr.ipd /\ isr' = NoIsr
        /\ ipd' = ipd \ {"MBRF", "START"} /\ mdl' = mdl \o bytes
        /\ \/ left <= Buffer /\ Stop(TRUE, ok /\ left >= 0)
           \/ /\ ~(left <= Buffer) /\ processed' = processed + n
              /\ PrepareRead(processed + n, descriptor.len)
              /\ UNCHANGED <<dpc, state, descriptor, isLastMsg, ok, ien, tx>>
        /\ UNCHANGED <<pc, request, index, event, got, wire, result>>
    BY DEF HandleRead, IsrEnds, xfer
  <1>2. /\ pc = "wait" /\ result = "none" /\ request \in Requests /\ index \in 1 .. Len(request.transfers)
        /\ ~dpc /\ ~event /\ isLastMsg = FALSE /\ Reading /\ Pending({"MBRF", "START"})
        /\ got = [i \in 1 .. Chunk |-> processed + i] /\ wire = Before \o Wired(2 + processed + Chunk)
    BY <1>1, RoutineFinds DEF Starting, Writing, Reading, Stopping, Pending
  <1>3. Before' = Before /\ After' = After /\ Transfer' = Transfer
    BY <1>1, StillHere
  <1>4. Transfer \in Transfers
    BY <1>2, Here
  <1>5. len \in Nat /\ processed \in Nat /\ processed < len /\ Buffer \in Nat /\ Buffer > 1
    BY <1>2, <1>4, I2cAssumption DEF Transfers, Reading
  <1>6. /\ descriptor = Transfer /\ Transfer.read /\ ok /\ ipd' = {} /\ tx = <<>> /\ mdl = Stored(processed)
        /\ ~isr'.on /\ state = "READ" /\ ien = {"MBRF", "NAKRCV"}
        /\ "EN" \in con /\ con \cap {"START", "STOP"} = {}
    BY <1>1, <1>2 DEF Reading, Pending, NoIsr
  <1>7. left = len - processed /\ n = Chunk /\ n \in Nat /\ n # 0 /\ left > 0
    BY <1>5, <1>6 DEF Chunk
  <1>8. mdl' = Stored(processed + n)
    <2>1. bytes = [i \in 1 .. n |-> processed + i]
      <3> HIDE DEF n
      <3>1. DOMAIN got = 1 .. n /\ \A i \in 1 .. n : got[i] = processed + i
        BY <1>2, <1>7
      <3>2. QED
        BY <3>1
    <2> HIDE DEF bytes, n
    <2>2. bytes \in Seq(Int) /\ Len(bytes) = n /\ \A i \in 1 .. n : bytes[i] = processed + i + 0
      BY <1>5, <1>7, <2>1
    <2>3. Numbers(0, processed) \o bytes = Numbers(0, processed + n)
      <3> DEFINE k == 0
      <3>1. /\ k \in Int /\ processed \in Nat /\ n \in Nat /\ bytes \in Seq(Int) /\ Len(bytes) = n
            /\ \A i \in 1 .. n : bytes[i] = processed + i + k
        BY <1>5, <1>7, <2>2
      <3> HIDE DEF k
      <3>2. Numbers(k, processed) \o bytes = Numbers(k, processed + n)
        BY <3>1, NumbersOn
      <3>3. QED
        BY <3>2 DEF k
    <2>4. QED
      BY <1>1, <1>6, <2>3 DEF Stored
  <1> HIDE DEF n, left, bytes
  <1>9. CASE left <= Buffer
    <2>1. n = left /\ processed + n = len /\ 2 + processed + Chunk = 2 + len
      BY <1>5, <1>7, <1>9 DEF n
    <2>2. /\ ok' = (ok /\ left >= 0) /\ isLastMsg' = TRUE /\ ien' = {"STOP"} /\ state' = "STOP"
          /\ con' = con \cup {"STOP"} /\ UNCHANGED <<dpc, tx, rx>>
      BY <1>1, <1>9 DEF Stop
    <2>3. ok' /\ rx' = 0
      <3>1. left >= 0
        BY <1>5, <1>7
      <3>2. QED
        BY <1>2, <1>6, <2>2, <3>1 DEF Pending
    <2>4. Stopping'
      BY <1>1, <1>2, <1>3, <1>6, <1>8, <2>1, <2>2, <2>3 DEF Stopping
    <2>5. Running'
      BY <1>1, <1>2, <1>6, <2>2, <2>4 DEF Running, Routine
    <2>6. QED
      BY <1>1, <1>2, <2>5, GoesOn
  <1>10. CASE ~(left <= Buffer)
    <2>1. /\ n = Buffer /\ processed' = processed + n /\ processed' \in 1 .. len - 1 /\ processed' # 0
          /\ 2 + processed + Chunk = 2 + processed' /\ len - processed' > 0
      <3>1. n = Buffer /\ left > Buffer
        BY <1>5, <1>7, <1>10 DEF n
      <3>2. processed' = processed + n
        BY <1>1, <1>10
      <3>3. QED
        BY <1>5, <1>7, <3>1, <3>2
    <2>2. PrepareRead(processed', len) /\ UNCHANGED <<dpc, state, descriptor, isLastMsg, ok, ien, tx>>
      BY <1>1, <1>6, <1>10, <2>1
    <2>3. rx' = Chunk'
      <3>1. ~(len < processed')
        BY <1>5, <2>1
      <3>2. rx' = IF len - processed' > Buffer THEN Buffer ELSE len - processed'
        BY <2>2, <3>1 DEF PrepareRead
      <3>3. QED
        BY <1>3, <3>2 DEF Chunk
    <2>4. "EN" \in con' /\ con' \cap {"START", "STOP"} = {} /\ "RX" \in con'
      BY <1>6, <2>1, <2>2 DEF PrepareRead
    <2>5. Reading'
      <3>1. /\ state' = "READ" /\ ien' = {"MBRF", "NAKRCV"} /\ ok' /\ descriptor' = Transfer' /\ Transfer'.read
            /\ processed' \in 0 .. Transfer'.len - 1 /\ mdl' = Stored(processed')
        BY <1>3, <1>5, <1>6, <1>8, <2>1, <2>2
      <3>2. ipd' = {} /\ tx' = <<>> /\ rx' = Chunk' /\ ~isr'.on
        BY <1>6, <2>2, <2>3
      <3>3. wire' = Before' \o Wired(IF processed' = 0 THEN 1 ELSE 2 + processed')
        BY <1>1, <1>2, <1>3, <2>1
      <3>4. QED
        BY <2>1, <2>4, <3>1, <3>2, <3>3 DEF Reading
    <2>6. Running'
      BY <1>1, <1>2, <1>6, <2>2, <2>5 DEF Running, Routine
    <2>7. QED
      BY <1>1, <1>2, <2>6, GoesOn
  <1>11. QED
    BY <1>9, <1>10

\* The STOP condition is on the bus: the DPC.
LEMMA HandleStopKeeps ==
  ASSUME Timely, HandleStop
  PROVE  Timely'
  <1>1. /\ isr.on /\ isr.state = "STOP" /\ isr' = NoIsr /\ ipd' = ipd \ {"STOP"}
        /\ con' = con \ {"STOP"} /\ state' = "IDLE" /\ dpc' = TRUE
        /\ UNCHANGED <<pc, request, index, event, ok, tx, rx, wire, mdl, result>>
    BY DEF HandleStop, IsrEnds, xfer
  <1>2. /\ pc = "wait" /\ result = "none" /\ request \in Requests /\ index \in 1 .. Len(request.transfers)
        /\ ~event /\ Stopping /\ Pending({"STOP"}) /\ wire = After
    BY <1>1, RoutineFinds DEF Starting, Writing, Reading, Stopping
  <1>3. After' = After /\ Transfer' = Transfer
    BY <1>1, StillHere
  <1>4. Ended'
    <2>1. ~isr'.on
      BY <1>1 DEF NoIsr
    <2>2. Quiet'
      BY <1>1, <1>2 DEF Quiet, Pending
    <2>3. (ok' => wire' = After') /\ (Transfer'.read => mdl' = Stored(Transfer'.len))
      BY <1>1, <1>2, <1>3 DEF Stopping
    <2>4. QED
      BY <1>1, <1>2, <2>1, <2>2, <2>3 DEF Ended
  <1>5. QED
    BY <1>1, <1>2, <1>4, GoesOn

\* The device does not answer: the message ends, and the request fails.
LEMMA HandleNakKeeps ==
  ASSUME Timely, HandleNak
  PROVE  Timely'
  <1>1. /\ isr.on /\ "NAKRCV" \in isr.ipd
        /\ UNCHANGED <<pc, request, index, event, wire, mdl, result>>
    BY DEF HandleNak, xfer
  <1>2. /\ pc = "wait" /\ result = "none" /\ request \in Requests /\ index \in 1 .. Len(request.transfers)
        /\ ~dpc /\ ~event /\ isLastMsg = FALSE /\ ipd = {"NAKRCV"}
    <2>1. isr.ipd = ipd /\ isLastMsg = (state = "STOP") /\ (Stopping => Pending({"STOP"}))
      BY <1>1, RoutineFinds DEF Stopping
    <2>2. ipd = {"NAKRCV"} /\ (Writing \/ Reading)
      BY <1>1, <2>1, RoutineFinds DEF Pending
    <2>3. isLastMsg = FALSE
      BY <2>1, <2>2 DEF Writing, Reading
    <2>4. QED
      BY <1>1, <2>2, <2>3, RoutineFinds
  <1>3. /\ isr' = NoIsr /\ ipd' = {} /\ ok' = FALSE /\ state' = "IDLE" /\ con' = {} /\ tx' = <<>> /\ rx' = 0
        /\ dpc' = TRUE
    BY <1>1, <1>2 DEF HandleNak, IsrEnds, Stop
  <1>4. Ended'
    BY <1>1, <1>2, <1>3 DEF Ended, Quiet, NoIsr
  <1>5. QED
    BY <1>1, <1>2, <1>4, GoesOn

\* The routine never finds what it does not expect.
LEMMA NothingUnexpected ==
  ASSUME Timely
  PROVE  ~HandleUnexpected /\ ~HandleNothing
  <1>1. SUFFICES ASSUME isr.on, "NAKRCV" \notin isr.ipd
                 PROVE  /\ state # "IDLE"
                        /\ ~ (/\ isr.state \in {"START", "WRITE", "STOP"}
                              /\ [START |-> "START", WRITE |-> "MBTF", STOP |-> "STOP"][isr.state] \notin isr.ipd)
    BY DEF HandleUnexpected, HandleNothing
  <1>2. \/ isr.ipd = {"START"} /\ state = "START"
        \/ isr.ipd = {"MBTF"} /\ state = "WRITE"
        \/ state = "READ"
        \/ isr.ipd = {"STOP"} /\ state = "STOP"
    BY <1>1, RoutineFinds DEF Starting, Writing, Reading, Stopping, Pending
  <1>3. isr.state = state
    BY <1>1, RoutineFinds
  <1>4. QED
    BY <1>2, <1>3

\* The START condition is on the bus.
LEMMA BusStartKeeps ==
  ASSUME Timely, BusStart
  PROVE  Timely'
  <1>1. /\ "START" \in con /\ con' = con \ {"START"} /\ ipd' = ipd \cup {"START"}
        /\ wire' = Append(wire, START)
        /\ UNCHANGED <<pc, request, index, event, dpc, state, descriptor, processed, isLastMsg, ok, isr,
                      ien, tx, rx, mdl, result>>
    BY DEF BusStart, Hw, xfer, driver
  <1>2. /\ pc = "wait" /\ Running /\ result = "none"
        /\ request \in Requests /\ index \in 1 .. Len(request.transfers)
    BY <1>1, OnlyWhileRunning
  <1>3. Before' = Before /\ After' = After /\ Transfer' = Transfer
    BY <1>1, StillHere
  <1>4. Starting /\ con = {"EN", "START"} /\ ipd = {} /\ tx = <<>> /\ rx = 0 /\ ~isr.on /\ wire = Before
    BY <1>1, <1>2 DEF Running, Starting, Writing, Reading, Stopping, Pending
  <1>5. wire' = Before \o Wired(1)
    <2>1. Before \in Seq(Int) /\ START \in Int
      BY <1>2, Here DEF START
    <2>2. Append(Before, START) = Before \o <<START>>
      BY <2>1
    <2>3. <<START>> = Wired(1)
      BY DEF Wired, Numbers, START
    <2>4. QED
      BY <1>1, <1>4, <2>2, <2>3
  <1>6. Pending({"START"})' /\ con' = {"EN"}
    BY <1>1, <1>4 DEF Pending
  <1>7. Starting'
    BY <1>1, <1>3, <1>4, <1>5, <1>6 DEF Starting
  <1>8. Running'
    BY <1>1, <1>2, <1>4, <1>7 DEF Running, Routine
  <1>9. QED
    BY <1>1, <1>2, <1>8, GoesOn

\* The bytes of the buffer are on the bus, or the device has refused one.
LEMMA BusSendsKeeps ==
  ASSUME Timely, BusSends
  PROVE  Timely'
  <1>1. /\ tx # <<>> /\ tx' = <<>>
        /\ \/ wire' = wire \o tx /\ ipd' = ipd \cup {"MBTF"}
           \/ ipd' = ipd \cup {"NAKRCV"}
        /\ UNCHANGED <<pc, request, index, event, dpc, state, descriptor, processed, isLastMsg, ok, isr,
                      ien, con, rx, mdl, result>>
    BY DEF BusSends, Hw, xfer, driver
  <1>2. /\ pc = "wait" /\ Running /\ result = "none"
        /\ request \in Requests /\ index \in 1 .. Len(request.transfers)
    BY <1>1, OnlyWhileRunning
  <1>3. Before' = Before /\ After' = After /\ Transfer' = Transfer
    BY <1>1, StillHere
  <1>4. Writing /\ ipd = {} /\ rx = 0 /\ ~isr.on /\ wire \o tx = Before \o Wired(2 + processed)
    BY <1>1, <1>2 DEF Running, Starting, Writing, Reading, Stopping, Pending
  <1>5. con = {"EN"}
    BY <1>4 DEF Writing
  <1>6. \/ Pending({"MBTF"})' /\ wire' = Before' \o Wired(2 + processed')
        \/ Pending({"NAKRCV"})'
    BY <1>1, <1>3, <1>4, <1>5 DEF Pending
  <1>7. Writing'
    BY <1>1, <1>3, <1>4, <1>6 DEF Writing
  <1>8. Running'
    BY <1>1, <1>2, <1>4, <1>7 DEF Running, Routine
  <1>9. QED
    BY <1>1, <1>2, <1>8, GoesOn

\* The buffer is full, or the device has not answered.
LEMMA BusReceivesKeeps ==
  ASSUME Timely, BusReceives
  PROVE  Timely'
  <1> DEFINE out == IF "RX" \in con THEN wire ELSE Append(wire, Address)
             sent == IF out = <<>> THEN 0 ELSE Last(out)
  <1>1. /\ rx > 0 /\ rx' = 0
        /\ \/ /\ got' = [i \in 1 .. rx |-> sent + i] /\ wire' = out \o got'
              /\ ipd' = ipd \cup {"MBRF", "START"}
           \/ ipd' = ipd \cup {"NAKRCV"}
        /\ UNCHANGED <<pc, request, index, event, dpc, state, descriptor, processed, isLastMsg, ok, isr,
                      ien, con, tx, mdl, result>>
    BY DEF BusReceives, Hw, xfer, driver
  <1>2. /\ pc = "wait" /\ Running /\ result = "none"
        /\ request \in Requests /\ index \in 1 .. Len(request.transfers)
    BY <1>1, OnlyWhileRunning
  <1>3. Before' = Before /\ After' = After /\ Transfer' = Transfer
    BY <1>1, StillHere
  <1>4. /\ Reading /\ ipd = {} /\ tx = <<>> /\ rx = Chunk /\ ~isr.on
        /\ wire = Before \o Wired(IF processed = 0 THEN 1 ELSE 2 + processed)
    <2>1. rx # 0
      BY <1>1
    <2>2. QED
      BY <1>2, <2>1 DEF Running, Starting, Writing, Reading, Stopping, Pending
  <1>5. con \cap {"START", "STOP"} = {} /\ ("RX" \in con <=> processed # 0)
    BY <1>4 DEF Reading
  <1>6. Transfer \in Transfers /\ Before \in Seq(Int)
    BY <1>2, Here
  <1>7. processed \in Nat /\ Chunk \in Nat
    BY <1>4, <1>6, I2cAssumption DEF Reading, Transfers, Chunk
  <1>8. out = Before \o Wired(2 + processed)
    <2>1. CASE processed = 0
      <3>1. 1 \in Nat /\ Follow(1, 1, <<Address>>)
        BY DEF Address, Follow
      <3>2. (Before \o Wired(1)) \o <<Address>> = Before \o Wired(1 + 1)
        <4>1. Grows(Before, 1, 1, <<Address>>)
          BY <1>6, <3>1 DEF Grows
        <4>2. Grown(Before, 1, 1, <<Address>>)
          BY <4>1, WiredOn
        <4>3. QED
          BY <4>2 DEF Grown
      <3>3. Before \o Wired(1) \in Seq(Int) /\ Address \in Int
        BY <1>6, WiredType, Joined DEF Address
      <3>4. Append(Before \o Wired(1), Address) = (Before \o Wired(1)) \o <<Address>>
        BY <3>3
      <3>5. out = Append(Before \o Wired(1), Address)
        BY <1>4, <1>5, <2>1
      <3>6. 1 + 1 = 2 + processed
        BY <2>1
      <3>7. QED
        BY <3>2, <3>4, <3>5, <3>6
    <2>2. CASE processed # 0
      BY <1>4, <1>5, <2>2
    <2>3. QED
      BY <2>1, <2>2
  <1> HIDE DEF out
  <1>9. sent = processed
    <2> DEFINE c == 2 + processed
    <2>1. c \in Nat \ {0} /\ c - 2 = processed /\ out = Before \o Wired(c)
      BY <1>7, <1>8
    <2> HIDE DEF c
    <2>2. out # <<>> /\ Last(out) = c - 2
      BY <1>6, <2>1, WiredLast
    <2>3. QED
      BY <2>1, <2>2
  <1> HIDE DEF sent
  <1>10. CASE ipd' = ipd \cup {"NAKRCV"}
    <2>1. Pending({"NAKRCV"})'
      BY <1>1, <1>4, <1>5, <1>10 DEF Pending
    <2>2. Reading'
      BY <1>1, <1>3, <1>4, <2>1 DEF Reading
    <2>3. QED
      BY <1>1, <1>2, <1>4, <2>2, GoesOn DEF Running, Routine
  <1>11. CASE /\ got' = [i \in 1 .. rx |-> sent + i] /\ wire' = out \o got'
              /\ ipd' = ipd \cup {"MBRF", "START"}
    <2>1. got' = [i \in 1 .. Chunk |-> processed + i]
      BY <1>4, <1>9, <1>11
    <2>2. /\ 2 + processed \in Nat /\ got' \in Seq(Int) /\ Len(got') = Chunk
          /\ \A i \in 1 .. Chunk : got'[i] = (2 + processed) + i - 2
      BY <1>7, <2>1
    <2>3. (Before \o Wired(2 + processed)) \o got' = Before \o Wired((2 + processed) + Chunk)
      <3>1. 2 + processed \in Nat /\ Follow(2 + processed, Chunk, got')
        BY <1>7, <2>2 DEF Follow
      <3> DEFINE s == got'
                 c == 2 + processed
                 m == Chunk
      <3>2. Grows(Before, c, m, s)
        BY <1>6, <1>7, <3>1 DEF Grows
      <3> HIDE DEF s, c, m
      <3>3. Grown(Before, c, m, s)
        BY <3>2, WiredOn
      <3>4. QED
        BY <3>3 DEF Grown, s, c, m
    <2>4. Chunk' = Chunk
      BY <1>1, <1>3 DEF Chunk
    <2>5. Pending({"MBRF", "START"})'
      BY <1>1, <1>4, <1>5, <1>11 DEF Pending
    <2>6. wire' = Before' \o Wired(2 + processed' + Chunk')
      BY <1>1, <1>3, <1>8, <1>11, <2>3, <2>4
    <2>7. Reading'
      BY <1>1, <1>3, <1>4, <2>1, <2>4, <2>5, <2>6 DEF Reading
    <2>8. QED
      BY <1>1, <1>2, <1>4, <2>7, GoesOn DEF Running, Routine
  <1>12. QED
    BY <1>1, <1>10, <1>11

\* The STOP condition is on the bus.
LEMMA BusStopsKeeps ==
  ASSUME Timely, BusStops
  PROVE  Timely'
  <1>1. /\ "STOP" \in con /\ con' = con \ {"STOP"} /\ ipd' = ipd \cup {"STOP"}
        /\ wire' = Append(wire, STOP)
        /\ UNCHANGED <<pc, request, index, event, dpc, state, descriptor, processed, isLastMsg, ok, isr,
                      ien, tx, rx, mdl, result>>
    BY DEF BusStops, Hw, xfer, driver
  <1>2. /\ pc = "wait" /\ Running /\ result = "none"
        /\ request \in Requests /\ index \in 1 .. Len(request.transfers)
    BY <1>1, OnlyWhileRunning
  <1>3. Before' = Before /\ After' = After /\ Transfer' = Transfer
    BY <1>1, StillHere
  <1>4. /\ Stopping /\ ipd = {} /\ tx = <<>> /\ rx = 0 /\ ~isr.on
        /\ wire = Before \o Wired(2 + Transfer.len)
    BY <1>1, <1>2 DEF Running, Starting, Writing, Reading, Stopping, Pending
  <1>5. wire' = After
    <2>1. /\ Transfer \in Transfers /\ Before \in Seq(Int)
          /\ After = (Before \o Wired(2 + Transfer.len)) \o <<STOP>>
      BY <1>2, Here
    <2>2. wire \in Seq(Int) /\ STOP \in Int
      <3>1. 2 + Transfer.len \in Nat
        BY <2>1 DEF Transfers
      <3>2. Wired(2 + Transfer.len) \in Seq(Int)
        BY <3>1, WiredType
      <3>3. QED
        BY <1>4, <2>1, <3>2, Joined DEF STOP
    <2>3. Append(wire, STOP) = wire \o <<STOP>>
      BY <2>2
    <2>4. QED
      BY <1>1, <1>4, <2>1, <2>3
  <1>6. Pending({"STOP"})' /\ "EN" \in con' /\ "START" \notin con'
    BY <1>1, <1>4 DEF Pending, Stopping
  <1>7. Stopping'
    BY <1>1, <1>3, <1>4, <1>5, <1>6 DEF Stopping
  <1>8. Running'
    BY <1>1, <1>2, <1>4, <1>7 DEF Running, Routine
  <1>9. QED
    BY <1>1, <1>2, <1>8, GoesOn

-----------------------------------------------------------------------------
(* The theorems.                                                           *)

\* Nothing has been on the bus when the driver starts.
LEMMA BusStarts == Init => BusInv
  BY DEF Init, BusInv, Timely, Resting, Quiet, TransferredAsAsked, NoIsr

\* Only a power cycle makes what comes after a timeout timely again.
LEMMA TimelyAgain ==
  ASSUME late \in Nat, Next
  PROVE  late' \in Nat /\ (late' = 0 => (late = 0 /\ ~TimeOut) \/ PowerCycle)
  <1>1. CASE Submit
    BY <1>1 DEF Submit, TimeOut
  <1>2. CASE TimeOut
    BY <1>2 DEF TimeOut
  <1>3. CASE PowerCycle
    BY <1>3 DEF PowerCycle
  <1>4. CASE late' = late /\ ~TimeOut
    BY <1>4
  <1>5. ASSUME ~Submit, ~TimeOut, ~PowerCycle PROVE late' = late
    BY <1>5 DEF Next, ClearEvent, StartTransfer, WaitEnds, EndTimeOut, Dpc, IsrEnters, HandleStart,
                HandleWrite, HandleRead, HandleStop, HandleNak, HandleUnexpected, HandleNothing,
                BusStart, BusSends, BusReceives, BusStops, Hw
  <1>6. QED
    BY <1>1, <1>2, <1>3, <1>4, <1>5

\* The invariant is inductive.
LEMMA BusStep ==
  ASSUME BusInv, Next
  PROVE  BusInv'
  <1>1. late' \in Nat /\ (late' = 0 => (late = 0 /\ ~TimeOut) \/ PowerCycle)
    BY TimelyAgain DEF BusInv
  <1>2. CASE PowerCycle
    BY <1>1, <1>2, PowerCycleRests DEF BusInv
  <1>3. ASSUME late' = 0, ~PowerCycle PROVE Timely'
    <2>1. Timely /\ ~TimeOut
      BY <1>1, <1>3 DEF BusInv
    <2>2. ~EndTimeOut
      BY <2>1 DEF Timely, EndTimeOut
    <2>3. CASE Submit \/ ClearEvent \/ StartTransfer \/ WaitEnds \/ Dpc
      BY <2>1, <2>3, SubmitKeeps, ClearEventKeeps, StartTransferKeeps, WaitEndsKeeps, DpcKeeps
    <2>4. CASE \/ IsrEnters \/ HandleStart \/ HandleWrite \/ HandleRead \/ HandleStop \/ HandleNak
               \/ HandleUnexpected \/ HandleNothing
      BY <2>1, <2>4, IsrEntersKeeps, HandleStartKeeps, HandleWriteKeeps, HandleReadKeeps,
         HandleStopKeeps, HandleNakKeeps, NothingUnexpected
    <2>5. CASE BusStart \/ BusSends \/ BusReceives \/ BusStops
      BY <2>1, <2>5, BusStartKeeps, BusSendsKeeps, BusReceivesKeeps, BusStopsKeeps
    <2>6. QED
      BY <1>3, <2>1, <2>2, <2>3, <2>4, <2>5 DEF Next
  <1>4. QED
    BY <1>1, <1>2, <1>3 DEF BusInv

\* Nor does a step that changes nothing break it.
LEMMA BusStutter ==
  ASSUME BusInv, UNCHANGED vars
  PROVE  BusInv'
  <1>1. UNCHANGED <<pc, request, index, event, dpc, state, descriptor, processed, isLastMsg, ok, isr,
                    con, ien, ipd, tx, rx, got, wire, mdl, late, result>>
    BY DEF vars, xfer, driver, regs
  <1>2. Before' = Before /\ After' = After /\ Transfer' = Transfer
    BY <1>1, StillHere
  <1>3. (Starting => Starting') /\ (Stopping => Stopping') /\ (Writing => Writing')
    BY <1>1, <1>2 DEF Starting, Stopping, Writing, Pending
  <1>4. Chunk' = Chunk /\ (Reading => Reading')
    BY <1>1, <1>2 DEF Reading, Pending, Chunk
  <1>5. (Running => Running') /\ (Ended => Ended') /\ (Resting => Resting')
    BY <1>1, <1>2, <1>3, <1>4 DEF Running, Routine, Ended, Resting, Quiet
  <1>6. TransferredAsAsked => TransferredAsAsked'
    BY <1>1 DEF TransferredAsAsked
  <1>7. QED
    BY <1>1, <1>2, <1>5, <1>6 DEF BusInv, Timely

\* It holds in every state.
LEMMA BusAlways == Spec => []BusInv
  <1>1. BusInv /\ [Next]_vars => BusInv'
    BY BusStep, BusStutter
  <1>2. QED
    BY <1>1, BusStarts, PTL DEF Spec

\* A request that ends well has put on the bus what its transfers say, START condition,
\* address, bytes and STOP condition of each, and has stored what was read, as long as no
\* wait has timed out since the controller came to power (i2c_xfer, rk3x_i2c_irq): for all
\* requests and every size of the buffers.
THEOREM TransfersAlwaysAsAsked == Spec => []TransfersAsAskedInTime
  <1>1. BusInv => TransfersAsAskedInTime
    BY DEF BusInv, Timely, TransfersAsAskedInTime
  <1>2. QED
    BY <1>1, BusAlways, PTL

\* No wait of i2c_xfer_single goes on in vain then: an interrupt is pending, or its routine or
\* the DPC runs, or the controller has still something to do that raises one.
THEOREM WaitsAlwaysServed == Spec => []WaitIsServed
  <1>1. BusInv => WaitIsServed
    <2> SUFFICES ASSUME BusInv, pc = "wait", late = 0
                 PROVE  \/ event \/ dpc \/ isr.on \/ ipd \cap ien # {}
                        \/ {"EN", "START"} \subseteq con \/ {"EN", "STOP"} \subseteq con
                        \/ tx # <<>> \/ rx > 0
      BY DEF WaitIsServed
    <2>1. Ended \/ Running
      BY DEF BusInv, Timely
    <2>2. CASE Ended
      BY <2>2 DEF Ended
    <2>3. CASE Starting
      BY <2>3 DEF Starting, Pending
    <2>4. CASE Writing
      BY <2>4 DEF Writing, Pending
    <2>5. CASE Reading
      <3>1. Chunk > 0
        <4>1. Transfer \in Transfers
          BY Here DEF BusInv, Timely
        <4>2. QED
          BY <2>5, <4>1, I2cAssumption DEF Reading, Transfers, Chunk
      <3>2. rx = Chunk \/ ipd = {"MBRF", "START"} \/ ipd = {"NAKRCV"}
        BY <2>5 DEF Reading, Pending
      <3>3. ien = {"MBRF", "NAKRCV"}
        BY <2>5 DEF Reading
      <3>4. QED
        BY <3>1, <3>2, <3>3
    <2>6. CASE Stopping
      BY <2>6 DEF Stopping, Pending
    <2>7. QED
      BY <2>1, <2>2, <2>3, <2>4, <2>5, <2>6 DEF Running
  <1>2. QED
    BY <1>1, BusAlways, PTL

-----------------------------------------------------------------------------
(* The bank of GPIO lines: what is left of the callbacks.                  *)

Modes == {"PortDDR", "IntType", "IntPolarity"}
Io    == call["io"]
Isr   == call["isr"]

Locking == {"enable", "disable"}
Saving  == {"D3", "F1"}
IoNames  == {"none", "start", "connect", "disconnect", "write"} \cup Locking \cup Saving
IsrNames == {"none", "active", "unmask", "reconfigure"}

StoreAccesses ==
  [do : {"store"}, reg : G!Registers \cup {"PortEOI"}, set : SUBSET Pins, clear : SUBSET Pins, rest : BOOLEAN]
Accesses == {G!Acquire, G!Release} \cup {G!Load(r) : r \in G!Registers} \cup StoreAccesses
Vals  == UNION {[D -> SUBSET Pins] : D \in SUBSET G!Registers}
Calls == [name : IoNames \cup IsrNames, pins : SUBSET Pins, todo : Seq(Accesses), val : Vals]

IsStore(a, r) == a.do = "store" /\ a.reg = r
IsLoad(a, r)  == a.do = "load" /\ a.reg = r

\* The registers a callback works on.
MayUse(name) ==
  CASE name = "start"       -> G!Registers \cup {"PortEOI"}
    [] name \in Saving      -> G!SavedRegisters
    [] name = "connect"     -> {"PortDDR"}
    [] name = "disconnect"  -> {"PortDDR", "PortDR"}
    [] name = "write"       -> {"PortDR"}
    [] name = "enable"      -> Modes \cup {"PortEOI", "IntMask"}
    [] name = "disable"     -> {"IntMask"}
    [] name = "active"      -> {"IntMask", "PortEOI"}
    [] name = "unmask"      -> {"IntMask"}
    [] name = "reconfigure" -> Modes \cup {"PortEOI"}
    [] OTHER                -> {}

Places(c) == 1 .. Len(c.todo)

\* It works on no other register and changes no other line.
Mine(c) ==
  /\ DOMAIN c.val \subseteq MayUse(c.name)
  /\ \A i \in Places(c) :
       /\ c.todo[i].do \in {"load", "store"} => c.todo[i].reg \in MayUse(c.name)
       /\ c.todo[i].do = "store" => c.name \notin Saving
       /\ c.todo[i].do = "store" /\ c.name # "start" =>
            c.todo[i].set \subseteq c.pins /\ (c.todo[i].reg = "PortEOI" \/ c.todo[i].clear \subseteq c.pins)
       /\ IsStore(c.todo[i], "PortEOI") => c.todo[i].set = IF c.name = "start" THEN Pins ELSE c.pins

\* What it stores it has loaded, or overwrites; what it has loaded it stores, or keeps.
Loaded(c) ==
  /\ \A i \in Places(c) :
       /\ c.todo[i].do = "store" =>
            \/ c.todo[i].clear = Pins
            \/ c.todo[i].reg \in DOMAIN c.val
            \/ \E j \in Places(c) : j < i /\ IsLoad(c.todo[j], c.todo[i].reg)
       /\ c.todo[i].do = "load" /\ c.name \notin Saving =>
            \E j \in Places(c) : i < j /\ IsStore(c.todo[j], c.todo[i].reg)
  /\ \A r \in DOMAIN c.val : c.name \in Saving \/ \E i \in Places(c) : IsStore(c.todo[i], r)
  /\ c.name \in Saving =>
       \A r \in G!SavedRegisters : r \in DOMAIN c.val \/ \E i \in Places(c) : IsLoad(c.todo[i], r)
  /\ c.name = "start" => \A i \in Places(c) : c.todo[i].do = "store" /\ c.todo[i].clear = Pins

\* It takes the lock first and gives it back last, or has none to take.
Locked(c) ==
  \A i \in Places(c) :
    /\ c.todo[i].do = "acquire" => c.name \in Locking /\ i = 1 /\ DOMAIN c.val = {}
    /\ c.todo[i].do = "release" <=> c.name \in Locking /\ i = Len(c.todo)

\* It stores a register once, levels before directions, modes before it clears an edge and
\* that before it unmasks the line; a start restores what lines detect before it unmasks any.
Ordered(c) ==
  \A i, j \in Places(c) :
    c.todo[i].do = "store" /\ c.todo[j].do = "store" =>
      /\ c.todo[i].reg = c.todo[j].reg /\ (c.name # "start" \/ c.todo[i].reg # "IntMask") => i = j
      /\ c.todo[i].reg = "PortDR" /\ c.todo[j].reg = "PortDDR" => i < j
      /\ c.name = "enable" /\ c.todo[i].reg \in Modes /\ c.todo[j].reg = "PortEOI" => i < j
      /\ c.name = "enable" /\ c.todo[i].reg = "PortEOI" /\ c.todo[j].reg = "IntMask" => i < j
      /\ c.name = "start" /\ c.todo[i].reg = "IntType" /\ c.todo[j].reg = "IntMask" /\ c.todo[j].set # Pins => i < j

\* Only what comes next can be done by half.
Halves(c) == \A i \in Places(c) : c.todo[i].do = "store" /\ c.todo[i].rest => i = 1 /\ type = "V2"

Listed(c) == Mine(c) /\ Loaded(c) /\ Locked(c) /\ Ordered(c)

\* The bits an access still reaches, and those it changes.
Reach(a) == IF a.rest THEN UpperPins ELSE Pins
Sets(a, r, p) == IsStore(a, r) /\ p \in Reach(a) /\ p \in a.set \cup a.clear

Hits(c, r, p) == \E i \in Places(c) : Sets(c.todo[i], r, p)
\* The last of them decides.
LastSets(c, i, r, p) == Sets(c.todo[i], r, p) /\ \A j \in Places(c) : j > i => ~Sets(c.todo[j], r, p)
Gives(c, r, p, v) == \A i \in Places(c) : LastSets(c, i, r, p) => (p \in c.todo[i].set <=> v)
EoiDue(c, p) == \E i \in Places(c) : IsStore(c.todo[i], "PortEOI") /\ p \in Reach(c.todo[i]) /\ p \in c.todo[i].set

-----------------------------------------------------------------------------
(* One access after the other.                                             *)

LEMMA Rest ==
  ASSUME NEW E, NEW t \in Seq(E), t # <<>>
  PROVE  /\ Len(t) \in Nat \ {0} /\ t[1] \in E /\ Head(t) = t[1]
         /\ Tail(t) \in Seq(E) /\ Len(Tail(t)) = Len(t) - 1
         /\ \A i \in 1 .. Len(t) - 1 : i + 1 \in 1 .. Len(t) /\ Tail(t)[i] = t[i + 1]
  BY EmptySeq, HeadTailProperties, LenProperties

LEMMA Again ==
  ASSUME NEW E, NEW t \in Seq(E), t # <<>>, NEW a \in E
  PROVE  /\ <<a>> \o Tail(t) \in Seq(E) /\ Len(<<a>> \o Tail(t)) = Len(t)
         /\ (<<a>> \o Tail(t))[1] = a
         /\ \A i \in 2 .. Len(t) : (<<a>> \o Tail(t))[i] = t[i]
  <1> DEFINE u == Tail(t)
             b == <<a>>
  <1>1. /\ Len(t) \in Nat \ {0} /\ u \in Seq(E) /\ Len(u) = Len(t) - 1
        /\ \A i \in 1 .. Len(t) - 1 : u[i] = t[i + 1]
    BY Rest
  <1>2. b \in Seq(E) /\ Len(b) = 1 /\ b[1] = a
    OBVIOUS
  <1> HIDE DEF u, b
  <1>3. /\ b \o u \in Seq(E) /\ Len(b \o u) = Len(b) + Len(u)
        /\ \A i \in 1 .. Len(b) + Len(u) : (b \o u)[i] = IF i <= Len(b) THEN b[i] ELSE u[i - Len(b)]
    BY <1>1, <1>2, ConcatProperties
  <1>4. ASSUME NEW i \in 2 .. Len(t) PROVE (b \o u)[i] = t[i]
    <2>1. ~(i <= 1) /\ i - 1 \in 1 .. Len(t) - 1 /\ (i - 1) + 1 = i /\ i \in 1 .. 1 + (Len(t) - 1)
      BY <1>1
    <2>2. (b \o u)[i] = u[i - 1]
      BY <1>1, <1>2, <1>3, <2>1
    <2>3. QED
      BY <1>1, <2>1, <2>2
  <1>5. (b \o u)[1] = a /\ Len(b \o u) = Len(t)
    BY <1>1, <1>2, <1>3
  <1>6. QED
    BY <1>3, <1>4, <1>5 DEF u, b

\* What an access is made of.
LEMMA Kinds ==
  ASSUME NEW a \in Accesses
  PROVE  /\ a.do \in {"acquire", "release", "load", "store"}
         /\ a.do = "acquire" => a = G!Acquire
         /\ a.do = "release" => a = G!Release
         /\ a.do = "load" => a.reg \in G!Registers
         /\ a.do = "store" => a \in StoreAccesses
  BY DEF Accesses, StoreAccesses, G!Acquire, G!Release, G!Load

\* The halves of the bank.
LEMMA UpperArePins == UpperPins \subseteq Pins
  BY BankAssumption DEF G!GpioAssumption

\* An access but for whether its first half is done.
Same(b, a) == /\ b.do = a.do
              /\ b.do \in {"load", "store"} => b.reg = a.reg
              /\ b.do = "store" => b.set = a.set /\ b.clear = a.clear

\* The callback c has gone on to d: k accesses are done, or the half of one.
Onward(c, d, k) ==
  /\ d.name = c.name /\ d.pins = c.pins /\ k \in {0, 1}
  /\ Len(c.todo) \in Nat \ {0} /\ Len(d.todo) = Len(c.todo) - k
  /\ \A i \in Places(d) : i + k \in Places(c) /\ Same(d.todo[i], c.todo[i + k])
  /\ \A i \in Places(d) : i + k # 1 => d.todo[i] = c.todo[i + k]
  /\ k = 0 => /\ c.todo[1].do = "store" /\ ~c.todo[1].rest /\ d.todo[1].rest
              /\ type = "V2"

LEMMA TailOnward ==
  ASSUME NEW c \in Calls, NEW d, c.todo # <<>>,
         d.name = c.name, d.pins = c.pins, d.todo = Tail(c.todo)
  PROVE  Onward(c, d, 1) /\ d.todo \in Seq(Accesses) /\ c.todo[1] \in Accesses /\ Head(c.todo) = c.todo[1]
  <1> DEFINE t == c.todo
  <1>1. t \in Seq(Accesses)
    BY DEF Calls
  <1>2. /\ Len(t) \in Nat \ {0} /\ t[1] \in Accesses /\ Head(t) = t[1]
        /\ Tail(t) \in Seq(Accesses) /\ Len(Tail(t)) = Len(t) - 1
        /\ \A i \in 1 .. Len(t) - 1 : i + 1 \in 1 .. Len(t) /\ Tail(t)[i] = t[i + 1]
    BY <1>1, Rest
  <1>3. \A i \in Places(d) : i + 1 \in Places(c) /\ d.todo[i] = c.todo[i + 1]
    BY <1>2 DEF Places
  <1>4. /\ \A i \in Places(d) : i + 1 \in Places(c) /\ Same(d.todo[i], c.todo[i + 1])
        /\ \A i \in Places(d) : i + 1 # 1 => d.todo[i] = c.todo[i + 1]
    BY <1>3 DEF Same
  <1>5. /\ Len(c.todo) \in Nat \ {0} /\ Len(d.todo) = Len(c.todo) - 1 /\ d.todo \in Seq(Accesses)
        /\ c.todo[1] \in Accesses /\ Head(c.todo) = c.todo[1]
    BY <1>2
  <1>6. d.name = c.name /\ d.pins = c.pins /\ 1 \in {0, 1}
    OBVIOUS
  <1>7. 1 = 0 => /\ c.todo[1].do = "store" /\ ~c.todo[1].rest /\ d.todo[1].rest
              /\ type = "V2"
    OBVIOUS
  <1>8. QED
    BY <1>4, <1>5, <1>6, <1>7, Zenon DEF Onward

\* What Onward says, in parts.
LEMMA OnwardFacts ==
  ASSUME NEW c, NEW d, NEW k, Onward(c, d, k)
  PROVE  /\ d.name = c.name /\ d.pins = c.pins /\ k \in {0, 1}
         /\ Len(c.todo) \in Nat \ {0} /\ Len(d.todo) = Len(c.todo) - k
         /\ \A i \in Places(d) : i + k \in Places(c) /\ Same(d.todo[i], c.todo[i + k])
         /\ \A i \in Places(d) : i + k # 1 => d.todo[i] = c.todo[i + k]
         /\ k = 0 => c.todo[1].do = "store" /\ ~c.todo[1].rest /\ d.todo[1].rest /\ type = "V2"
  BY Zenon DEF Onward

LEMMA AgainOnward ==
  ASSUME NEW c \in Calls, NEW d, c.todo # <<>>, Head(c.todo).do = "store", ~Head(c.todo).rest, type = "V2",
         d.name = c.name, d.pins = c.pins,
         d.todo = <<[Head(c.todo) EXCEPT !.rest = TRUE]>> \o Tail(c.todo)
  PROVE  Onward(c, d, 0) /\ d.todo \in Seq(Accesses) /\ c.todo[1] \in Accesses /\ Head(c.todo) = c.todo[1]
  <1> DEFINE t == c.todo
             a == [Head(t) EXCEPT !.rest = TRUE]
  <1>1. t \in Seq(Accesses)
    BY DEF Calls
  <1>2. Len(t) \in Nat \ {0} /\ t[1] \in Accesses /\ Head(t) = t[1]
    BY <1>1, Rest
  <1>3. t[1] \in StoreAccesses
    BY <1>2, Kinds
  <1>4. a \in StoreAccesses /\ a.rest /\ a.do = "store" /\ a.reg = t[1].reg /\ a.set = t[1].set /\ a.clear = t[1].clear
    BY <1>2, <1>3 DEF StoreAccesses
  <1>5. a \in Accesses
    BY <1>4 DEF Accesses
  <1> HIDE DEF a
  <1>6. /\ d.todo \in Seq(Accesses) /\ Len(d.todo) = Len(t) /\ d.todo[1] = a
        /\ \A i \in 2 .. Len(t) : d.todo[i] = t[i]
    <2>1. d.todo = <<a>> \o Tail(t)
      BY DEF a
    <2> DEFINE u == <<a>> \o Tail(t)
    <2>2. /\ u \in Seq(Accesses) /\ Len(u) = Len(t) /\ u[1] = a
          /\ \A i \in 2 .. Len(t) : u[i] = t[i]
      <3>1. t # <<>>
        OBVIOUS
      <3> HIDE DEF t
      <3>2. QED
        BY <1>1, <1>5, <3>1, Again
    <2> HIDE DEF u
    <2>3. QED
      BY <2>1, <2>2 DEF u
  <1>7. ASSUME NEW i \in Places(d)
        PROVE  /\ i + 0 \in Places(c) /\ Same(d.todo[i], c.todo[i + 0])
               /\ i + 0 # 1 => d.todo[i] = c.todo[i + 0]
    <2>1. i \in 1 .. Len(t) /\ i + 0 = i
      BY <1>2, <1>6 DEF Places
    <2>2. CASE i = 1
      <3>1. Same(a, t[1])
        BY <1>2, <1>3, <1>4 DEF Same, StoreAccesses
      <3>2. QED
        BY <1>6, <2>1, <2>2, <3>1 DEF Places
    <2>3. CASE i # 1
      <3>1. d.todo[i] = t[i]
        BY <1>2, <1>6, <2>1, <2>3
      <3>2. QED
        BY <2>1, <3>1 DEF Places, Same
    <2>4. QED
      BY <2>2, <2>3
  <1>8. /\ Len(c.todo) \in Nat \ {0} /\ Len(d.todo) = Len(c.todo) - 0 /\ c.todo[1] \in Accesses /\ Head(c.todo) = c.todo[1]
    BY <1>2, <1>6
  <1>9. 0 \in {0, 1} /\ d.name = c.name /\ d.pins = c.pins
    OBVIOUS
  <1>10. 0 = 0 => c.todo[1].do = "store" /\ ~c.todo[1].rest /\ d.todo[1].rest /\ type = "V2"
    BY <1>2, <1>4, <1>6
  <1>11. /\ \A i \in Places(d) : i + 0 \in Places(c) /\ Same(d.todo[i], c.todo[i + 0])
         /\ \A i \in Places(d) : i + 0 # 1 => d.todo[i] = c.todo[i + 0]
    BY <1>7, Zenon
  <1>12. Onward(c, d, 0)
    BY <1>8, <1>9, <1>10, <1>11, Zenon DEF Onward
  <1>13. QED
    BY <1>6, <1>8, <1>12

\* Where an access of the rest was before, and where another one of before is now.
LEMMA Positions ==
  ASSUME NEW c, NEW d, NEW k, Onward(c, d, k)
  PROVE  /\ \A i \in Places(d) : \E m \in Places(c) :
              /\ m = i + k /\ m \in Int /\ i \in Int /\ Same(d.todo[i], c.todo[m]) /\ (m # 1 => d.todo[i] = c.todo[m])
         /\ \A m \in Places(c) : m # 1 => \E i \in Places(d) :
              m = i + k /\ m \in Int /\ i \in Int /\ m > 1 /\ d.todo[i] = c.todo[m]
  <1>0. /\ d.name = c.name /\ d.pins = c.pins /\ k \in {0, 1}
        /\ Len(c.todo) \in Nat \ {0} /\ Len(d.todo) = Len(c.todo) - k
        /\ \A i \in Places(d) : i + k \in Places(c) /\ Same(d.todo[i], c.todo[i + k])
        /\ \A i \in Places(d) : i + k # 1 => d.todo[i] = c.todo[i + k]
        /\ k = 0 => c.todo[1].do = "store" /\ ~c.todo[1].rest /\ d.todo[1].rest /\ type = "V2"
    BY Zenon DEF Onward
  <1>1. /\ k \in {0, 1} /\ Len(c.todo) \in Nat \ {0} /\ Len(d.todo) = Len(c.todo) - k
        /\ \A i \in Places(d) : i + k \in Places(c) /\ Same(d.todo[i], c.todo[i + k])
        /\ \A i \in Places(d) : i + k # 1 => d.todo[i] = c.todo[i + k]
    BY <1>0
  <1>2. ASSUME NEW i \in Places(d)
        PROVE  \E m \in Places(c) :
                 /\ m = i + k /\ m \in Int /\ i \in Int /\ Same(d.todo[i], c.todo[m]) /\ (m # 1 => d.todo[i] = c.todo[m])
    <2> DEFINE m == i + k
    <2>1. m \in Int /\ i \in Int
      BY <1>1 DEF Places
    <2>2. m \in Places(c) /\ Same(d.todo[i], c.todo[m]) /\ (m # 1 => d.todo[i] = c.todo[m])
      BY <1>1, Zenon
    <2>3. m = i + k
      OBVIOUS
    <2> HIDE DEF m
    <2>4. QED
      BY <2>1, <2>2, <2>3
  <1>3. ASSUME NEW m \in Places(c), m # 1
        PROVE  \E i \in Places(d) : m = i + k /\ m \in Int /\ i \in Int /\ m > 1 /\ d.todo[i] = c.todo[m]
    <2> DEFINE i == m - k
    <2>1. i \in Places(d) /\ i + k = m /\ m \in Int /\ i \in Int /\ m > 1
      BY <1>1, <1>3 DEF Places
    <2>2. d.todo[i] = c.todo[m]
      <3>1. i + k # 1 => d.todo[i] = c.todo[i + k]
        BY <1>1, <2>1, Zenon
      <3> HIDE DEF i
      <3>2. QED
        BY <1>3, <2>1, <3>1
    <2> HIDE DEF i
    <2>3. QED
      BY <2>1, <2>2
  <1>4. QED
    BY <1>2, <1>3

\* What is said of all that is left of a callback stays true of the rest of it.
LEMMA MineOnward ==
  ASSUME NEW c, NEW d, NEW k, Onward(c, d, k), Mine(c), DOMAIN d.val \subseteq MayUse(c.name)
  PROVE  Mine(d)
  <1>1. d.name = c.name /\ d.pins = c.pins
    BY OnwardFacts
  <1>2. ASSUME NEW i \in Places(d)
        PROVE  /\ d.todo[i].do \in {"load", "store"} => d.todo[i].reg \in MayUse(d.name)
               /\ d.todo[i].do = "store" => d.name \notin Saving
               /\ d.todo[i].do = "store" /\ d.name # "start" =>
                    d.todo[i].set \subseteq d.pins /\ (d.todo[i].reg = "PortEOI" \/ d.todo[i].clear \subseteq d.pins)
               /\ IsStore(d.todo[i], "PortEOI") => d.todo[i].set = IF d.name = "start" THEN Pins ELSE d.pins
    <2>1. PICK m \in Places(c) : Same(d.todo[i], c.todo[m])
      BY Positions
    <2>2. QED
      BY <1>1, <2>1 DEF Mine, Same, IsStore
  <1>3. QED
    BY <1>1, <1>2 DEF Mine

LEMMA OrderedOnward ==
  ASSUME NEW c, NEW d, NEW k, Onward(c, d, k), Ordered(c)
  PROVE  Ordered(d)
  <1> SUFFICES ASSUME NEW i \in Places(d), NEW j \in Places(d), d.todo[i].do = "store", d.todo[j].do = "store"
               PROVE  /\ d.todo[i].reg = d.todo[j].reg /\ (d.name # "start" \/ d.todo[i].reg # "IntMask") => i = j
                      /\ d.todo[i].reg = "PortDR" /\ d.todo[j].reg = "PortDDR" => i < j
                      /\ d.name = "enable" /\ d.todo[i].reg \in Modes /\ d.todo[j].reg = "PortEOI" => i < j
                      /\ d.name = "enable" /\ d.todo[i].reg = "PortEOI" /\ d.todo[j].reg = "IntMask" => i < j
                      /\ d.name = "start" /\ d.todo[i].reg = "IntType" /\ d.todo[j].reg = "IntMask"
                           /\ d.todo[j].set # Pins => i < j
    BY DEF Ordered
  <1>1. PICK m \in Places(c) : m = i + k /\ m \in Int /\ i \in Int /\ Same(d.todo[i], c.todo[m])
    BY Positions
  <1>2. PICK n \in Places(c) : n = j + k /\ n \in Int /\ j \in Int /\ Same(d.todo[j], c.todo[n])
    BY Positions
  <1>3. k \in {0, 1} /\ d.name = c.name
    BY OnwardFacts
  <1>4. (m < n => i < j) /\ (m = n => i = j)
    BY <1>1, <1>2, <1>3
  <1>5. /\ c.todo[m].do = "store" /\ c.todo[n].do = "store"
        /\ c.todo[m].reg = d.todo[i].reg /\ c.todo[n].reg = d.todo[j].reg /\ c.todo[n].set = d.todo[j].set
    BY <1>1, <1>2 DEF Same
  <1>6. /\ c.todo[m].reg = c.todo[n].reg /\ (c.name # "start" \/ c.todo[m].reg # "IntMask") => m = n
        /\ c.todo[m].reg = "PortDR" /\ c.todo[n].reg = "PortDDR" => m < n
        /\ c.name = "enable" /\ c.todo[m].reg \in Modes /\ c.todo[n].reg = "PortEOI" => m < n
        /\ c.name = "enable" /\ c.todo[m].reg = "PortEOI" /\ c.todo[n].reg = "IntMask" => m < n
        /\ c.name = "start" /\ c.todo[m].reg = "IntType" /\ c.todo[n].reg = "IntMask" /\ c.todo[n].set # Pins => m < n
    BY <1>5 DEF Ordered
  <1>7. QED
    BY <1>3, <1>4, <1>5, <1>6, Zenon

LEMMA LockedOnward ==
  ASSUME NEW c, NEW d, NEW k, Onward(c, d, k), Locked(c)
  PROVE  Locked(d) /\ \A i \in Places(d) : d.todo[i].do # "acquire"
  <1>1. /\ k \in {0, 1} /\ Len(c.todo) \in Nat /\ Len(d.todo) = Len(c.todo) - k /\ d.name = c.name
        /\ k = 0 => c.todo[1].do = "store"
    BY OnwardFacts
  <1>2. ASSUME NEW i \in Places(d)
        PROVE  /\ d.todo[i].do # "acquire"
               /\ d.todo[i].do = "release" <=> d.name \in Locking /\ i = Len(d.todo)
    <2>1. PICK m \in Places(c) : m = i + k /\ m \in Int /\ i \in Int /\ Same(d.todo[i], c.todo[m])
      BY Positions
    <2>2. d.todo[i].do = c.todo[m].do /\ i >= 1
      BY <2>1 DEF Same, Places
    <2>3. m = 1 => k = 0
      BY <1>1, <2>1, <2>2
    <2>4. m = Len(c.todo) <=> i = Len(d.todo)
      BY <1>1, <2>1
    <2>5. /\ c.todo[m].do = "acquire" => m = 1
          /\ c.todo[m].do = "release" <=> c.name \in Locking /\ m = Len(c.todo)
      BY DEF Locked
    <2>6. d.todo[i].do # "acquire"
      BY <1>1, <2>2, <2>3, <2>5
    <2>7. QED
      BY <1>1, <2>2, <2>4, <2>5, <2>6
  <1>3. QED
    BY <1>2 DEF Locked

\* After a half of an access comes the other one, and nothing else is done by half.
LEMMA HalvesOnward ==
  ASSUME NEW c, NEW d, NEW k, Onward(c, d, k), Halves(c)
  PROVE  Halves(d)
  <1> SUFFICES ASSUME NEW i \in Places(d), d.todo[i].do = "store", d.todo[i].rest
               PROVE  i = 1 /\ type = "V2"
    BY DEF Halves, Places
  <1>1. /\ k \in {0, 1} /\ (k = 0 => type = "V2")
    BY OnwardFacts
  <1>2. PICK m \in Places(c) : m = i + k /\ i \in Int /\ Same(d.todo[i], c.todo[m]) /\ (m # 1 => d.todo[i] = c.todo[m])
    BY Positions
  <1>3. i >= 1
    BY DEF Places
  <1>4. CASE m = 1
    BY <1>1, <1>2, <1>3, <1>4
  <1>5. CASE m # 1
    BY <1>2, <1>5 DEF Halves
  <1>6. QED
    BY <1>4, <1>5

-----------------------------------------------------------------------------
(* Steps of a callback.                                                    *)

\* What the registers become by an access of a callback.
StoresNow(c, a) ==
  IF a.do = "store" /\ a.reg = "PortEOI"
    THEN /\ latched' = latched \ (a.set \cap G!Half(a))
         /\ pending' = pending \ (G!Half(a) \cap IF bankPower = "starting" THEN Pins ELSE c.pins)
         /\ reg' = reg
    ELSE /\ latched' = latched /\ pending' = pending
         /\ reg' = IF a.do = "store"
                     THEN [reg EXCEPT ![a.reg] =
                             (@ \ G!Half(a)) \cup
                             (G!Updated(IF a.reg \in DOMAIN c.val THEN c.val[a.reg] ELSE {}, a) \cap G!Half(a))]
                     ELSE reg

\* What is left in its locals.
Locals(c, d, k) ==
  \/ /\ k = 1 /\ c.todo[1].do = "load" /\ DOMAIN d.val = DOMAIN c.val \cup {c.todo[1].reg}
     /\ \A r \in DOMAIN d.val : d.val[r] = IF r = c.todo[1].reg THEN reg[r] ELSE c.val[r]
  \/ /\ k = 1 /\ c.todo[1].do = "store" /\ DOMAIN d.val = DOMAIN c.val \ {c.todo[1].reg}
     /\ \A r \in DOMAIN d.val : d.val[r] = c.val[r]
  \/ (k = 0 \/ c.todo[1].do \in {"acquire", "release"}) /\ d.val = c.val

\* Who has the lock.
Lock(s, a) ==
  lock' = CASE a.do = "acquire" -> s [] a.do = "release" -> "free" [] OTHER -> lock

\* An access of the callback c of side s, which is d then.
Goes(s, c, d, k) ==
  /\ c = call[s] /\ d = call[s]' /\ \A o \in G!Sides : o # s => call[o]' = call[o]
  /\ c \in Calls /\ d \in Calls /\ c.todo[1] \in Accesses
  /\ Onward(c, d, k) /\ Locals(c, d, k) /\ StoresNow(c, c.todo[1]) /\ Lock(s, c.todo[1])
  /\ c.todo[1].do = "acquire" => lock = "free"
  /\ k = 1 /\ c.todo[1].do = "store" => type = "V1" \/ c.todo[1].rest
  /\ bankPower' = bankPower /\ type' = type /\ line' = line /\ bankSaved' = bankSaved
  /\ use' = use /\ driven' = driven /\ masked' = masked

LEMMA ValsAre ==
  /\ \A v \in Vals : DOMAIN v \subseteq G!Registers /\ \A r \in DOMAIN v : v[r] \in SUBSET Pins
  /\ \A v : v = [r \in DOMAIN v |-> v[r]] /\ DOMAIN v \subseteq G!Registers /\ (\A r \in DOMAIN v : v[r] \in SUBSET Pins)
            => v \in Vals
  BY DEF Vals

LEMMA CallsAre ==
  ASSUME NEW c \in Calls
  PROVE  /\ c.name \in IoNames \cup IsrNames /\ c.pins \in SUBSET Pins
         /\ c.todo \in Seq(Accesses) /\ c.val \in Vals
  BY DEF Calls

LEMMA RecordFields ==
  ASSUME NEW N, NEW Q, NEW T, NEW V, NEW c \in [name : N, pins : Q, todo : T, val : V], NEW t, NEW v, NEW d
  PROVE  /\ d = [c EXCEPT !.todo = t] => d = [name |-> c.name, pins |-> c.pins, todo |-> t, val |-> c.val]
         /\ d = [c EXCEPT !.todo = t, !.val = v] => d = [name |-> c.name, pins |-> c.pins, todo |-> t, val |-> v]
  OBVIOUS

LEMMA CallFields ==
  ASSUME NEW c \in Calls, NEW t, NEW v, NEW d
  PROVE  /\ d = [c EXCEPT !.todo = t] => d = [name |-> c.name, pins |-> c.pins, todo |-> t, val |-> c.val]
         /\ d = [c EXCEPT !.todo = t, !.val = v] => d = [name |-> c.name, pins |-> c.pins, todo |-> t, val |-> v]
  <1> DEFINE N == IoNames \cup IsrNames
             Q == SUBSET Pins
             T == Seq(Accesses)
  <1>1. c \in [name : N, pins : Q, todo : T, val : Vals]
    BY DEF Calls
  <1> HIDE DEF N, Q, T
  <1>2. QED
    BY <1>1, RecordFields

LEMMA CallIs ==
  ASSUME NEW c \in Calls, NEW d, d.todo \in Seq(Accesses), d.val \in Vals,
         d = [name |-> c.name, pins |-> c.pins, todo |-> d.todo, val |-> d.val]
  PROVE  d \in Calls
  <1>1. c.name \in IoNames \cup IsrNames /\ c.pins \in SUBSET Pins
    BY DEF Calls
  <1> DEFINE n == c.name
             q == c.pins
             t == d.todo
             v == d.val
  <1> HIDE DEF n, q, t, v
  <1>2. [name |-> n, pins |-> q, todo |-> t, val |-> v] \in Calls
    BY <1>1 DEF Calls, n, q, t, v
  <1>3. QED
    BY <1>2 DEF n, q, t, v

LEMMA AccessGoes ==
  ASSUME NEW s \in G!Sides, G!Access(s), call \in [G!Sides -> Calls], type \in {"V1", "V2"},
         reg \in [G!Registers -> SUBSET Pins], Halves(call[s])
  PROVE  \E k : Goes(s, call[s], call[s]', k)
  <1> DEFINE c == call[s]
             d == call[s]'
             a == c.todo[1]
             t == c.todo
  <1>1. c \in Calls /\ c.todo \in Seq(Accesses) /\ c.val \in Vals
    BY CallsAre
  <1>2. CASE G!gpio_read32(s)
    <2>1. t # <<>> /\ Head(t).do = "load"
      BY <1>2 DEF G!gpio_read32, G!Next1, G!Todo
    <2>2. a = Head(t) /\ a \in Accesses
      BY <1>1, <2>1, Rest
    <2> DEFINE w == [q \in DOMAIN c.val \cup {a.reg} |-> IF q = a.reg THEN reg[a.reg] ELSE c.val[q]]
    <2>3. call' = [call EXCEPT ![s].todo = Tail(@), ![s].val = w]
      BY <1>2, <2>2 DEF G!gpio_read32, G!Todo
    <2>4. d = [name |-> c.name, pins |-> c.pins, todo |-> Tail(c.todo), val |-> w]
      <3>1. d = [c EXCEPT !.todo = Tail(c.todo), !.val = w]
        BY <2>3
      <3>2. QED
        BY <1>1, <3>1, CallFields
    <2>5. \A o \in G!Sides : o # s => call[o]' = call[o]
      BY <2>3
    <2>6. a.reg \in G!Registers
      BY <2>1, <2>2, Kinds
    <2>7. w \in Vals
      <3>1. DOMAIN w = DOMAIN c.val \cup {a.reg} /\ \A q \in DOMAIN w : w[q] = IF q = a.reg THEN reg[a.reg] ELSE c.val[q]
        OBVIOUS
      <3>2. w = [q \in DOMAIN w |-> w[q]]
        OBVIOUS
      <3> HIDE DEF w
      <3>3. DOMAIN c.val \subseteq G!Registers /\ \A q \in DOMAIN c.val : c.val[q] \in SUBSET Pins
        BY <1>1, ValsAre
      <3>4. \A q \in DOMAIN w : w[q] \in SUBSET Pins
        BY <2>6, <3>1, <3>3
      <3>5. DOMAIN w \subseteq G!Registers
        BY <2>6, <3>1, <3>3
      <3>6. QED
        BY <3>2, <3>4, <3>5, ValsAre
    <2>8. DOMAIN d.val = DOMAIN c.val \cup {a.reg} /\ \A r \in DOMAIN d.val : d.val[r] = IF r = a.reg THEN reg[r] ELSE c.val[r]
      BY <2>4
    <2>9. d.name = c.name /\ d.pins = c.pins /\ d.todo = Tail(c.todo) /\ d.val = w
      BY <2>4
    <2> HIDE DEF w
    <2>10. Onward(c, d, 1) /\ d.todo \in Seq(Accesses)
      BY <1>1, <2>1, <2>9, TailOnward
    <2>11. d \in Calls
      BY <1>1, <2>4, <2>7, <2>9, <2>10, CallIs
    <2>12. a.do = "load"
      BY <2>1, <2>2
    <2>13. Locals(c, d, 1)
      BY <2>8, <2>12 DEF Locals
    <2>14. /\ bankPower' = bankPower /\ type' = type /\ line' = line /\ bankSaved' = bankSaved
           /\ use' = use /\ driven' = driven /\ masked' = masked /\ lock' = lock
           /\ reg' = reg /\ latched' = latched /\ pending' = pending
      BY <1>2 DEF G!gpio_read32, G!hardware, G!asked
    <2>15. StoresNow(c, a) /\ Lock(s, a)
      BY <2>12, <2>14 DEF StoresNow, Lock
    <2>16. QED
      <3> HIDE DEF c, d, a
      <3>1. c = call[s] /\ d = call[s]' /\ a = c.todo[1]
        BY DEF c, d, a
      <3>2. Goes(s, c, d, 1)
        BY <1>1, <2>2, <2>5, <2>10, <2>11, <2>12, <2>13, <2>14, <2>15, <3>1 DEF Goes
      <3>3. QED
        BY <3>1, <3>2
  <1>3. CASE G!AcquireInterruptLock(s) \/ G!ReleaseInterruptLock(s)
    <2>1. t # <<>> /\ Head(t).do \in {"acquire", "release"} /\ call' = [call EXCEPT ![s].todo = Tail(@)]
          /\ (Head(t).do = "acquire" => lock = "free")
          /\ lock' = (IF Head(t).do = "acquire" THEN s ELSE "free")
      BY <1>3 DEF G!AcquireInterruptLock, G!ReleaseInterruptLock, G!Next1, G!Todo, G!Drop
    <2>2. a = Head(t) /\ a \in Accesses
      BY <1>1, <2>1, Rest
    <2>4. d = [name |-> c.name, pins |-> c.pins, todo |-> Tail(c.todo), val |-> c.val]
      <3>1. d = [c EXCEPT !.todo = Tail(c.todo)]
        BY <2>1
      <3>2. QED
        BY <1>1, <3>1, CallFields
    <2>5. \A o \in G!Sides : o # s => call[o]' = call[o]
      BY <2>1
    <2>9. d.name = c.name /\ d.pins = c.pins /\ d.todo = Tail(c.todo) /\ d.val = c.val
      BY <2>4
    <2>10. Onward(c, d, 1) /\ d.todo \in Seq(Accesses)
      BY <1>1, <2>1, <2>9, TailOnward
    <2>11. d \in Calls
      BY <1>1, <2>4, <2>9, <2>10, CallIs
    <2>12. a.do \in {"acquire", "release"}
      BY <2>1, <2>2
    <2>13. Locals(c, d, 1)
      BY <2>9, <2>12 DEF Locals
    <2>14. /\ bankPower' = bankPower /\ type' = type /\ line' = line /\ bankSaved' = bankSaved
           /\ use' = use /\ driven' = driven /\ masked' = masked
           /\ reg' = reg /\ latched' = latched /\ pending' = pending
      BY <1>3 DEF G!AcquireInterruptLock, G!ReleaseInterruptLock, G!hardware, G!asked
    <2>15. StoresNow(c, a) /\ Lock(s, a) /\ (a.do = "acquire" => lock = "free")
      BY <2>1, <2>2, <2>12, <2>14 DEF StoresNow, Lock
    <2>16. QED
      <3> HIDE DEF c, d, a
      <3>1. c = call[s] /\ d = call[s]' /\ a = c.todo[1]
        BY DEF c, d, a
      <3>2. Goes(s, c, d, 1)
        BY <1>1, <2>2, <2>5, <2>10, <2>11, <2>12, <2>13, <2>14, <2>15, <3>1 DEF Goes
      <3>3. QED
        BY <3>1, <3>2
  <1>4. CASE G!gpio_write32(s)
    <2>1. t # <<>> /\ Head(t).do = "store"
      BY <1>4 DEF G!gpio_write32, G!Next1, G!Todo
    <2>2. a = Head(t) /\ a \in Accesses /\ a.do = "store"
      BY <1>1, <2>1, Rest
    <2>3. 1 \in Places(c)
      BY <1>1, <2>1, Rest DEF Places
    <2>4. a.rest => type = "V2"
      BY <2>2, <2>3 DEF Halves
    <2>5. /\ bankPower' = bankPower /\ type' = type /\ line' = line /\ bankSaved' = bankSaved
          /\ use' = use /\ driven' = driven /\ masked' = masked /\ lock' = lock
      BY <1>4 DEF G!gpio_write32
    <2>6. StoresNow(c, a) /\ Lock(s, a)
      BY <1>4, <2>2, <2>5 DEF StoresNow, Lock, G!gpio_write32, G!Todo
    <2>7. call' = IF G!LastHalf(a) THEN [call EXCEPT ![s].todo = Tail(@), ![s].val = G!Without(@, a.reg)]
                                   ELSE [call EXCEPT ![s].todo = <<[a EXCEPT !.rest = TRUE]>> \o Tail(@)]
      BY <1>4, <2>2 DEF G!gpio_write32, G!Todo
    <2>8. \A o \in G!Sides : o # s => call[o]' = call[o]
      BY <2>7
    <2>9. CASE G!LastHalf(a)
      <3> DEFINE w == G!Without(c.val, a.reg)
      <3>4. d = [name |-> c.name, pins |-> c.pins, todo |-> Tail(c.todo), val |-> w]
        <4>1. d = [c EXCEPT !.todo = Tail(c.todo), !.val = w]
          BY <2>7, <2>9
        <4>2. QED
          BY <1>1, <4>1, CallFields
      <3>5. DOMAIN w = DOMAIN c.val \ {a.reg} /\ (\A q \in DOMAIN w : w[q] = c.val[q]) /\ w = [q \in DOMAIN w |-> w[q]]
        BY DEF G!Without
      <3> HIDE DEF w
      <3>6. d.name = c.name /\ d.pins = c.pins /\ d.todo = Tail(c.todo) /\ d.val = w
        BY <3>4
      <3>7. w \in Vals
        <4>3. DOMAIN c.val \subseteq G!Registers /\ \A q \in DOMAIN c.val : c.val[q] \in SUBSET Pins
          BY <1>1, ValsAre
        <4>4. DOMAIN w \subseteq G!Registers /\ \A q \in DOMAIN w : w[q] \in SUBSET Pins
          BY <3>5, <4>3
        <4>6. QED
          BY <3>5, <4>4, ValsAre
      <3>10. Onward(c, d, 1) /\ d.todo \in Seq(Accesses)
        BY <1>1, <2>1, <3>6, TailOnward
      <3>11. d \in Calls
        BY <1>1, <3>4, <3>7, <3>6, <3>10, CallIs
      <3>12. Locals(c, d, 1)
        BY <3>5, <3>6, <2>2 DEF Locals
      <3>13. type = "V1" \/ a.rest
        BY <2>9 DEF G!LastHalf
      <3>16. QED
        <4> HIDE DEF c, d, a
        <4>1. c = call[s] /\ d = call[s]' /\ a = c.todo[1]
          BY DEF c, d, a
        <4>2. Goes(s, c, d, 1)
          BY <1>1, <2>2, <2>5, <2>6, <2>8, <3>10, <3>11, <3>12, <3>13, <4>1 DEF Goes
        <4>3. QED
          BY <4>1, <4>2
    <2>10. CASE ~G!LastHalf(a)
      <3> DEFINE u == <<[a EXCEPT !.rest = TRUE]>> \o Tail(c.todo)
      <3>4. d = [name |-> c.name, pins |-> c.pins, todo |-> u, val |-> c.val]
        <4>1. d = [c EXCEPT !.todo = u]
          BY <2>7, <2>10
        <4>2. QED
          BY <1>1, <4>1, CallFields
      <3>6. d.name = c.name /\ d.pins = c.pins /\ d.todo = u /\ d.val = c.val
        BY <3>4
      <3>13. type = "V2" /\ ~a.rest
        BY <2>10 DEF G!LastHalf
      <3>9. d.todo = <<[Head(c.todo) EXCEPT !.rest = TRUE]>> \o Tail(c.todo)
        BY <2>2, <3>6
      <3> HIDE DEF u
      <3>10. Onward(c, d, 0) /\ d.todo \in Seq(Accesses)
        BY <1>1, <2>1, <2>2, <3>6, <3>9, <3>13, AgainOnward
      <3>11. d \in Calls
        BY <1>1, <3>4, <3>6, <3>10, CallIs
      <3>12. Locals(c, d, 0)
        BY <3>6 DEF Locals
      <3>16. QED
        <4> HIDE DEF c, d, a
        <4>1. c = call[s] /\ d = call[s]' /\ a = c.todo[1]
          BY DEF c, d, a
        <4>2. Goes(s, c, d, 0)
          BY <1>1, <2>2, <2>5, <2>6, <2>8, <3>10, <3>11, <3>12, <3>13, <4>1 DEF Goes
        <4>3. QED
          BY <4>1, <4>2
    <2>11. QED
      BY <2>9, <2>10
  <1>5. QED
    BY <1>2, <1>3, <1>4 DEF G!Access

\* Where an access is found again that is still to be done.
LEMMA Found ==
  ASSUME NEW c, NEW d, NEW k, Onward(c, d, k), NEW m \in Places(c), m # 1
  PROVE  m - k \in Places(d) /\ d.todo[m - k] = c.todo[m]
  <1>1. PICK i \in Places(d) : m = i + k /\ m \in Int /\ i \in Int /\ d.todo[i] = c.todo[m]
    BY Positions
  <1>2. k \in {0, 1}
    BY OnwardFacts
  <1>3. i = m - k
    BY <1>1, <1>2
  <1>4. QED
    BY <1>1, <1>3

LEMMA LoadedOnward ==
  ASSUME NEW c, NEW d, NEW k, Onward(c, d, k), Mine(c), Loaded(c), Ordered(c), Locals(c, d, k),
         c.name \in Saving => c.name # "start"
  PROVE  Loaded(d)
  <1> DEFINE a == c.todo[1]
  <1>0. /\ k \in {0, 1} /\ d.name = c.name /\ (k = 0 => a.do = "store") /\ 1 \in Places(c)
        /\ \A m \in Places(c) : m \in Int
    BY OnwardFacts DEF Places
  <1>1. \/ /\ k = 1 /\ a.do = "load" /\ DOMAIN d.val = DOMAIN c.val \cup {a.reg}
        \/ /\ k = 1 /\ a.do = "store" /\ DOMAIN d.val = DOMAIN c.val \ {a.reg}
        \/ (k = 0 \/ a.do \in {"acquire", "release"}) /\ DOMAIN d.val = DOMAIN c.val
    BY DEF Locals
  <1>2. ASSUME NEW i \in Places(d), d.todo[i].do = "store"
        PROVE  \/ d.todo[i].clear = Pins
               \/ d.todo[i].reg \in DOMAIN d.val
               \/ \E j \in Places(d) : j < i /\ IsLoad(d.todo[j], d.todo[i].reg)
    <2>1. PICK m \in Places(c) : m = i + k /\ m \in Int /\ i \in Int /\ Same(d.todo[i], c.todo[m])
      BY Positions
    <2>2. c.todo[m].do = "store" /\ c.todo[m].reg = d.todo[i].reg /\ c.todo[m].clear = d.todo[i].clear
      BY <1>2, <2>1 DEF Same
    <2>3. \/ c.todo[m].clear = Pins
          \/ c.todo[m].reg \in DOMAIN c.val
          \/ \E j \in Places(c) : j < m /\ IsLoad(c.todo[j], c.todo[m].reg)
      BY <2>2 DEF Loaded
    <2>4. CASE \E j \in Places(c) : j < m /\ IsLoad(c.todo[j], c.todo[m].reg)
      <3>1. PICK j \in Places(c) : j < m /\ IsLoad(c.todo[j], c.todo[m].reg)
        BY <2>4
      <3>2. CASE j = 1
        BY <1>0, <1>1, <2>2, <3>1, <3>2 DEF IsLoad
      <3>3. CASE j # 1
        <4>1. j - k \in Places(d) /\ d.todo[j - k] = c.todo[j]
          BY <3>3, Found
        <4>2. j - k < i
          BY <1>0, <2>1, <3>1
        <4>3. QED
          BY <2>2, <3>1, <4>1, <4>2
      <3>4. QED
        BY <3>2, <3>3
    <2>5. CASE c.todo[m].reg \in DOMAIN c.val /\ c.todo[m].clear # Pins
      <3>1. c.name # "start"
        BY <2>5 DEF Loaded
      <3>2. k = 1 => m # 1
        BY <2>1 DEF Places
      <3>3. a.do = "store" /\ a.reg = c.todo[m].reg => m = 1
        BY <1>0, <2>2, <3>1 DEF Ordered
      <3>4. QED
        BY <1>0, <1>1, <2>2, <2>5, <3>2, <3>3
    <2>6. QED
      BY <2>2, <2>3, <2>4, <2>5
  <1>3. ASSUME NEW i \in Places(d), d.todo[i].do = "load", d.name \notin Saving
        PROVE  \E j \in Places(d) : i < j /\ IsStore(d.todo[j], d.todo[i].reg)
    <2>1. PICK m \in Places(c) : m = i + k /\ m \in Int /\ i \in Int /\ Same(d.todo[i], c.todo[m])
      BY Positions
    <2>2. c.todo[m].do = "load" /\ c.todo[m].reg = d.todo[i].reg
      BY <1>3, <2>1 DEF Same
    <2>3. PICK j \in Places(c) : m < j /\ IsStore(c.todo[j], c.todo[m].reg)
      BY <1>0, <1>3, <2>2 DEF Loaded
    <2>4. j # 1 /\ i < j - k
      BY <1>0, <2>1, <2>3 DEF Places
    <2>5. j - k \in Places(d) /\ d.todo[j - k] = c.todo[j]
      BY <2>4, Found
    <2>6. QED
      BY <2>2, <2>3, <2>4, <2>5
  <1>4. ASSUME NEW r \in DOMAIN d.val, d.name \notin Saving
        PROVE  \E i \in Places(d) : IsStore(d.todo[i], r)
    <2>1. ASSUME NEW m \in Places(c), IsStore(c.todo[m], r)
          PROVE  \E i \in Places(d) : IsStore(d.todo[i], r)
      <3>1. CASE m # 1
        <4>1. m - k \in Places(d) /\ d.todo[m - k] = c.todo[m]
          BY <3>1, Found
        <4>2. QED
          BY <2>1, <4>1
      <3>2. CASE m = 1
        <4>1. k = 0
          BY <1>0, <1>1, <1>4, <2>1, <3>2 DEF IsStore
        <4>2. 1 \in Places(d)
          BY <1>0, <4>1, OnwardFacts DEF Places
        <4>3. Same(d.todo[1], c.todo[1 + k])
          BY <4>2, OnwardFacts
        <4>4. Same(d.todo[1], c.todo[1])
          BY <4>1, <4>3
        <4>5. QED
          BY <2>1, <3>2, <4>2, <4>4 DEF Same, IsStore
      <3>3. QED
        BY <3>1, <3>2
    <2>2. CASE r \in DOMAIN c.val
      BY <1>0, <1>4, <2>1, <2>2 DEF Loaded
    <2>3. CASE r \notin DOMAIN c.val
      <3>1. a.do = "load" /\ a.reg = r
        BY <1>1, <2>3
      <3>2. PICK j \in Places(c) : 1 < j /\ IsStore(c.todo[j], r)
        BY <1>0, <1>4, <3>1 DEF Loaded
      <3>3. QED
        BY <2>1, <3>2
    <2>4. QED
      BY <2>2, <2>3
  <1>5. ASSUME d.name \in Saving, NEW r \in G!SavedRegisters
        PROVE  r \in DOMAIN d.val \/ \E i \in Places(d) : IsLoad(d.todo[i], r)
    <2>1. a.do # "store"
      BY <1>0, <1>5 DEF Mine
    <2>2. CASE r \in DOMAIN c.val
      BY <1>0, <1>1, <2>1, <2>2
    <2>3. CASE r \notin DOMAIN c.val
      <3>1. PICK m \in Places(c) : IsLoad(c.todo[m], r)
        BY <1>0, <1>5, <2>3 DEF Loaded
      <3>2. CASE m = 1
        BY <1>0, <1>1, <3>1, <3>2 DEF IsLoad
      <3>3. CASE m # 1
        <4>1. m - k \in Places(d) /\ d.todo[m - k] = c.todo[m]
          BY <3>3, Found
        <4>2. QED
          BY <3>1, <4>1
      <3>4. QED
        BY <3>2, <3>3
    <2>4. QED
      BY <2>2, <2>3
  <1>6. ASSUME d.name = "start", NEW i \in Places(d)
        PROVE  d.todo[i].do = "store" /\ d.todo[i].clear = Pins
    <2>1. PICK m \in Places(c) : Same(d.todo[i], c.todo[m])
      BY Positions
    <2>2. QED
      BY <1>0, <1>6, <2>1 DEF Same, Loaded
  <1>7. QED
    BY <1>2, <1>3, <1>4, <1>5, <1>6 DEF Loaded

\* A local has what the register has, but for the half that is stored already.
AgreeWith(b, c) ==
  \A r \in DOMAIN c.val, p \in Pins :
    \/ p \in c.val[r] <=> p \in b[r]
    \/ p \notin UpperPins /\ 1 \in Places(c) /\ IsStore(c.todo[1], r) /\ c.todo[1].rest
Agree(c) == AgreeWith(reg, c)

\* The bits an access reaches and those it changes now.
LEMMA HalfIs ==
  ASSUME NEW s, NEW c, NEW d, NEW k, Goes(s, c, d, k), Halves(c), type \in {"V1", "V2"}, c.todo[1].do = "store"
  PROVE  /\ k = 1 => G!Half(c.todo[1]) = Reach(c.todo[1])
         /\ k = 0 => /\ G!Half(c.todo[1]) = Pins \ UpperPins /\ Reach(c.todo[1]) = Pins
                     /\ 1 \in Places(d) /\ Same(d.todo[1], c.todo[1]) /\ Reach(d.todo[1]) = UpperPins
         /\ G!Half(c.todo[1]) \subseteq Reach(c.todo[1]) /\ k \in {0, 1}
  <1> DEFINE a == c.todo[1]
  <1>1. /\ 1 \in Places(c) /\ k \in {0, 1}
        /\ k = 0 => ~a.rest /\ d.todo[1].rest /\ type = "V2" /\ 1 \in Places(d)
        /\ k = 1 => type = "V1" \/ a.rest
    BY OnwardFacts DEF Places, Goes
  <1>2. a.rest => type = "V2"
    BY <1>1 DEF Halves
  <1>3. k = 0 => Same(d.todo[1], c.todo[1])
    <2> SUFFICES ASSUME k = 0 PROVE Same(d.todo[1], c.todo[1])
      OBVIOUS
    <2>1. PICK m \in Places(c) : m = 1 + k /\ Same(d.todo[1], c.todo[m])
      BY <1>1, Positions DEF Goes
    <2>2. QED
      BY <2>1
  <1>4. UpperPins \subseteq Pins
    BY UpperArePins
  <1>5. QED
    BY <1>1, <1>2, <1>3, <1>4 DEF Reach, G!Half

\* What an access does to one bit.
LEMMA StoreBit ==
  ASSUME NEW s, NEW c, NEW d, NEW k, Goes(s, c, d, k), Loaded(c), Halves(c), Agree(c),
         reg \in [G!Registers -> SUBSET Pins], type \in {"V1", "V2"}
  PROVE  /\ reg' \in [G!Registers -> SUBSET Pins]
         /\ \A r \in G!Registers, p \in Pins :
              p \in reg'[r] <=> IF Sets(c.todo[1], r, p) /\ p \in G!Half(c.todo[1]) THEN p \in c.todo[1].set
                                                                                    ELSE p \in reg[r]
  <1> DEFINE a == c.todo[1]
  <1>1. a \in Accesses /\ StoresNow(c, a)
    BY DEF Goes
  <1>2. CASE ~(a.do = "store" /\ a.reg # "PortEOI")
    <2>1. reg' = reg /\ \A r \in G!Registers : ~IsStore(a, r)
      BY <1>1, <1>2 DEF StoresNow, IsStore, G!Registers
    <2>2. QED
      BY <2>1 DEF Sets
  <1>3. CASE a.do = "store" /\ a.reg # "PortEOI"
    <2>1. a.reg \in G!Registers /\ a.set \in SUBSET Pins /\ a.clear \in SUBSET Pins
      BY <1>1, <1>3, Kinds DEF StoreAccesses
    <2> DEFINE q == a.reg
               h == G!Half(a)
               old == IF q \in DOMAIN c.val THEN c.val[q] ELSE {}
               new == (reg[q] \ h) \cup (((old \ a.clear) \cup a.set) \cap h)
    <2>2. reg' = [reg EXCEPT ![q] = new]
      BY <1>1, <1>3 DEF StoresNow, G!Updated
    <2>3. h \subseteq Reach(a) /\ h \subseteq Pins /\ 1 \in Places(c)
      <3>1. h \subseteq Reach(a)
        BY <1>3, HalfIs
      <3>2. Reach(a) \subseteq Pins
        BY UpperArePins DEF Reach
      <3>3. Len(c.todo) \in Nat \ {0}
        BY OnwardFacts DEF Goes
      <3>4. QED
        BY <3>1, <3>2, <3>3 DEF Places
    <2>4. new \in SUBSET Pins
      BY <2>1, <2>3
    <2>5. \A p \in Pins : p \in new <=> IF p \in h /\ p \in a.set \cup a.clear THEN p \in a.set ELSE p \in reg[q]
      <3> SUFFICES ASSUME NEW p \in Pins, p \in h, p \notin a.set, p \notin a.clear
                   PROVE  p \in old <=> p \in reg[q]
        OBVIOUS
      <3>1. a.clear # Pins
        OBVIOUS
      <3>2. q \in DOMAIN c.val
        <4>1. \/ a.clear = Pins \/ q \in DOMAIN c.val
              \/ \E j \in Places(c) : j < 1 /\ IsLoad(c.todo[j], q)
          BY <1>3, <2>3 DEF Loaded
        <4>2. \A j \in Places(c) : ~(j < 1)
          BY DEF Places
        <4>3. QED
          BY <3>1, <4>1, <4>2
      <3>3. a.rest => p \in UpperPins
        BY <2>3 DEF Reach
      <3>4. p \in c.val[q] <=> p \in reg[q]
        BY <3>2, <3>3 DEF Agree, AgreeWith
      <3>5. QED
        BY <3>2, <3>4
    <2>6. \A r \in G!Registers, p \in Pins : Sets(a, r, p) /\ p \in h <=> r = q /\ p \in h /\ p \in a.set \cup a.clear
      BY <1>3, <2>3 DEF Sets, IsStore
    <2> HIDE DEF new, h, q
    <2>7. q \in G!Registers
      BY <2>1 DEF q
    <2>8. \A r \in G!Registers : reg'[r] = IF r = q THEN new ELSE reg[r]
      BY <2>2, <2>7
    <2>9. reg' \in [G!Registers -> SUBSET Pins]
      BY <2>2, <2>4, <2>7
    <2>10. QED
      BY <2>5, <2>6, <2>8, <2>9 DEF h
  <1>4. QED
    BY <1>2, <1>3

\* The accesses after the first are those left.
LEMMA SetsLeft ==
  ASSUME NEW s, NEW c, NEW d, NEW k, Goes(s, c, d, k), Halves(c), type \in {"V1", "V2"}, NEW i \in Places(d)
  PROVE  \E m \in Places(c) :
           /\ m = i + k /\ m \in Int /\ i \in Int /\ m >= 1 /\ i >= 1 /\ k \in {0, 1}
           /\ Same(d.todo[i], c.todo[m]) /\ Reach(d.todo[i]) \subseteq Reach(c.todo[m])
           /\ m # 1 => d.todo[i] = c.todo[m]
           /\ m = 1 => k = 0 /\ c.todo[1].do = "store" /\ \A p \in Reach(d.todo[i]) : p \notin G!Half(c.todo[1])
  <1>1. Onward(c, d, k)
    BY DEF Goes
  <1>2. PICK m \in Places(c) : m = i + k /\ m \in Int /\ i \in Int /\ Same(d.todo[i], c.todo[m]) /\ (m # 1 => d.todo[i] = c.todo[m])
    BY <1>1, Positions
  <1>3. m >= 1 /\ i >= 1 /\ k \in {0, 1} /\ (k = 0 => c.todo[1].do = "store")
    BY <1>1, OnwardFacts DEF Places
  <1>4. CASE m = 1
    <2>1. k = 0 /\ i = 1 /\ c.todo[1].do = "store"
      BY <1>2, <1>3, <1>4
    <2>2. Reach(d.todo[1]) = UpperPins /\ Reach(c.todo[1]) = Pins /\ G!Half(c.todo[1]) = Pins \ UpperPins
      BY <2>1, HalfIs
    <2>3. QED
      BY <1>2, <1>3, <1>4, <2>1, <2>2, UpperArePins
  <1>5. CASE m # 1
    BY <1>2, <1>3, <1>5
  <1>6. QED
    BY <1>4, <1>5

\* What is not hit any more has been by the last access.
LEMMA HitsMove ==
  ASSUME NEW s, NEW c, NEW d, NEW k, Goes(s, c, d, k), Halves(c), type \in {"V1", "V2"}, NEW r, NEW p
  PROVE  /\ Hits(d, r, p) => Hits(c, r, p)
         /\ Hits(c, r, p) /\ ~Hits(d, r, p) =>
              LastSets(c, 1, r, p) /\ 1 \in Places(c) /\ p \in G!Half(c.todo[1])
         /\ \A v : Gives(c, r, p, v) => Gives(d, r, p, v)
  <1>1. ASSUME NEW i \in Places(d), Sets(d.todo[i], r, p)
        PROVE  \E m \in Places(c) : m = i + k /\ m \in Int /\ i \in Int /\ m >= 1 /\ Sets(c.todo[m], r, p) /\ c.todo[m].set = d.todo[i].set
    <2>1. PICK m \in Places(c) : m = i + k /\ m \in Int /\ i \in Int /\ m >= 1 /\ Same(d.todo[i], c.todo[m]) /\ Reach(d.todo[i]) \subseteq Reach(c.todo[m])
      BY SetsLeft
    <2>2. QED
      BY <1>1, <2>1 DEF Sets, IsStore, Same
  <1>2. Hits(d, r, p) => Hits(c, r, p)
    BY <1>1 DEF Hits
  <1>3. Onward(c, d, k) /\ k \in {0, 1} /\ 1 \in Places(c) /\ (k = 0 => c.todo[1].do = "store") /\ \A m \in Places(c) : m \in Int
    BY OnwardFacts DEF Places, Goes
  <1>4. ASSUME NEW m \in Places(c), m # 1, Sets(c.todo[m], r, p)
        PROVE  m - k \in Places(d) /\ Sets(d.todo[m - k], r, p)
    BY <1>3, <1>4, Found
  <1>5. ASSUME Hits(c, r, p), ~Hits(d, r, p)
        PROVE  LastSets(c, 1, r, p) /\ p \in G!Half(c.todo[1])
    <2>1. \A m \in Places(c) : m # 1 => ~Sets(c.todo[m], r, p)
      BY <1>4, <1>5 DEF Hits
    <2>2. Sets(c.todo[1], r, p)
      BY <1>5, <2>1 DEF Hits
    <2>3. LastSets(c, 1, r, p)
      BY <1>3, <2>1, <2>2 DEF LastSets
    <2>4. CASE k = 1
      <3>1. c.todo[1].do = "store" /\ p \in Reach(c.todo[1])
        BY <2>2 DEF Sets, IsStore
      <3>2. QED
        BY <2>3, <2>4, <3>1, HalfIs
    <2>5. CASE k = 0
      <3>1. 1 \in Places(d) /\ Same(d.todo[1], c.todo[1]) /\ Reach(d.todo[1]) = UpperPins /\ G!Half(c.todo[1]) = Pins \ UpperPins
            /\ Reach(c.todo[1]) = Pins
        BY <1>3, <2>5, HalfIs
      <3>2. ~Sets(d.todo[1], r, p)
        BY <1>5, <3>1 DEF Hits
      <3>3. p \in Pins /\ p \notin UpperPins
        BY <2>2, <3>1, <3>2 DEF Sets, IsStore, Same
      <3>4. QED
        BY <2>3, <3>1, <3>3
    <2>6. QED
      BY <1>3, <2>3, <2>4, <2>5
  <1>6. ASSUME NEW v, Gives(c, r, p, v)
        PROVE  Gives(d, r, p, v)
    <2> SUFFICES ASSUME NEW i \in Places(d), LastSets(d, i, r, p)
                 PROVE  p \in d.todo[i].set <=> v
      BY DEF Gives
    <2>1. PICK m \in Places(c) : m = i + k /\ m \in Int /\ i \in Int /\ m >= 1 /\ Sets(c.todo[m], r, p) /\ c.todo[m].set = d.todo[i].set
      BY <1>1 DEF LastSets
    <2>2. ASSUME NEW j \in Places(c), j > m
          PROVE  ~Sets(c.todo[j], r, p)
      <3>0. j \in Int
        BY <1>3
      <3>1. j # 1 /\ j \in Int /\ j - k > i
        BY <3>0, <1>3, <2>1, <2>2
      <3>2. Sets(c.todo[j], r, p) => j - k \in Places(d) /\ Sets(d.todo[j - k], r, p)
        BY <1>4, <3>1
      <3>3. QED
        BY <3>1, <3>2 DEF LastSets
    <2>3. LastSets(c, m, r, p)
      BY <2>1, <2>2 DEF LastSets
    <2>4. QED
      BY <1>6, <2>1, <2>3 DEF Gives
  <1>7. QED
    BY <1>2, <1>3, <1>5, <1>6

\* The bits of all registers at an access.
LEMMA BitsMove ==
  ASSUME NEW s, NEW c, NEW d, NEW k, Goes(s, c, d, k), Listed(c), Halves(c), Agree(c),
         reg \in [G!Registers -> SUBSET Pins], type \in {"V1", "V2"},
         NEW r \in G!Registers, NEW p \in Pins
  PROVE  /\ ~Hits(c, r, p) => (p \in reg'[r] <=> p \in reg[r])
         /\ \A v : Hits(c, r, p) /\ ~Hits(d, r, p) /\ Gives(c, r, p, v) => (p \in reg'[r] <=> v)
         /\ Hits(d, r, p) /\ (c.name # "start" \/ r # "IntMask") => (p \in reg'[r] <=> p \in reg[r])
         /\ \/ p \in reg'[r] <=> p \in reg[r]
            \/ Sets(c.todo[1], r, p) /\ (p \in reg'[r] <=> p \in c.todo[1].set)
         /\ ~(p \in reg'["PortDDR"] <=> p \in reg["PortDDR"]) => \A q \in Pins : ~Hits(d, "PortDR", q)
         /\ ~(p \in reg'[r] <=> p \in reg[r]) => r \in MayUse(c.name)
  <1> DEFINE a == c.todo[1]
  <1>1. Mine(c) /\ Loaded(c) /\ Ordered(c)
    BY DEF Listed
  <1>2. \A g \in G!Registers, q \in Pins :
          q \in reg'[g] <=> IF Sets(a, g, q) /\ q \in G!Half(a) THEN q \in a.set ELSE q \in reg[g]
    BY <1>1, StoreBit
  <1>3. 1 \in Places(c)
    BY OnwardFacts DEF Places, Goes
  <1>4. ~Hits(c, r, p) => (p \in reg'[r] <=> p \in reg[r])
    BY <1>2, <1>3 DEF Hits
  <1>5. ASSUME NEW v, Hits(c, r, p), ~Hits(d, r, p), Gives(c, r, p, v)
        PROVE  p \in reg'[r] <=> v
    <2>1. LastSets(c, 1, r, p) /\ p \in G!Half(a)
      BY <1>5, HitsMove
    <2>2. p \in a.set <=> v
      BY <1>3, <1>5, <2>1 DEF Gives
    <2>3. QED
      BY <1>2, <2>1, <2>2 DEF LastSets
  <1>6. ASSUME NEW g \in G!Registers, NEW q \in Pins, ~(q \in reg'[g] <=> q \in reg[g])
        PROVE  Sets(a, g, q) /\ q \in G!Half(a)
    BY <1>2, <1>6
  <1>7. ASSUME Hits(d, r, p), c.name # "start" \/ r # "IntMask"
        PROVE  p \in reg'[r] <=> p \in reg[r]
    <2> SUFFICES ASSUME Sets(a, r, p), p \in G!Half(a)
                 PROVE  FALSE
      BY <1>6
    <2>1. PICK i \in Places(d) : Sets(d.todo[i], r, p)
      BY <1>7 DEF Hits
    <2>2. PICK m \in Places(c) :
           /\ m = i + k /\ m \in Int /\ i \in Int /\ Same(d.todo[i], c.todo[m])
           /\ m = 1 => \A q \in Reach(d.todo[i]) : q \notin G!Half(a)
      BY SetsLeft
    <2>3. c.todo[m].do = "store" /\ c.todo[m].reg = r /\ a.do = "store" /\ a.reg = r /\ p \in Reach(d.todo[i])
      BY <2>1, <2>2 DEF Sets, IsStore, Same
    <2>4. m = 1
      BY <1>1, <1>3, <1>7, <2>3 DEF Ordered
    <2>5. QED
      BY <2>2, <2>3, <2>4
  <1>8. ASSUME ~(p \in reg'["PortDDR"] <=> p \in reg["PortDDR"]), NEW q \in Pins
        PROVE  ~Hits(d, "PortDR", q)
    <2> SUFFICES ASSUME Hits(d, "PortDR", q)
                 PROVE  FALSE
      OBVIOUS
    <2>1. a.do = "store" /\ a.reg = "PortDDR"
      BY <1>6, <1>8 DEF Sets, IsStore, G!Registers
    <2>2. PICK i \in Places(d) : Sets(d.todo[i], "PortDR", q)
      BY DEF Hits
    <2>3. PICK m \in Places(c) : m \in Int /\ m >= 1 /\ Same(d.todo[i], c.todo[m])
      BY SetsLeft
    <2>4. c.todo[m].do = "store" /\ c.todo[m].reg = "PortDR"
      BY <2>2, <2>3 DEF Sets, IsStore, Same
    <2>5. m < 1
      BY <1>1, <1>3, <2>1, <2>4 DEF Ordered
    <2>6. QED
      BY <2>3, <2>5
  <1>9. ~(p \in reg'[r] <=> p \in reg[r]) => r \in MayUse(c.name)
    <2> SUFFICES ASSUME ~(p \in reg'[r] <=> p \in reg[r]) PROVE r \in MayUse(c.name)
      OBVIOUS
    <2>1. a.do = "store" /\ a.reg = r
      BY <1>6 DEF Sets, IsStore
    <2>2. QED
      BY <1>1, <1>3, <2>1 DEF Mine
  <1>10. \/ p \in reg'[r] <=> p \in reg[r]
         \/ Sets(a, r, p) /\ (p \in reg'[r] <=> p \in a.set)
    BY <1>2
  <1>11. QED
    BY <1>4, <1>5, <1>7, <1>8, <1>9, <1>10

\* The edges at an access.
LEMMA EdgesMove ==
  ASSUME NEW s, NEW c, NEW d, NEW k, Goes(s, c, d, k), Listed(c), Halves(c), type \in {"V1", "V2"},
         bankPower = "starting" <=> c.name = "start", NEW p \in Pins
  PROVE  /\ EoiDue(d, p) => EoiDue(c, p)
         /\ EoiDue(c, p) /\ ~EoiDue(d, p) => p \notin latched' /\ p \notin pending'
         /\ \/ (p \in latched' <=> p \in latched) /\ (p \in pending' <=> p \in pending)
            \/ EoiDue(c, p) /\ p \notin latched' /\ p \notin pending'
         /\ EoiDue(c, p) => c.name = "start" \/ p \in c.pins
         /\ c.name = "enable" =>
              \A q \in Pins :
                /\ Hits(c, "IntMask", p) /\ ~Hits(d, "IntMask", p) => ~EoiDue(d, q)
                /\ EoiDue(c, p) /\ ~EoiDue(d, p) => \A r \in Modes : ~Hits(d, r, q)
  <1> DEFINE a == c.todo[1]
  <1>1. Mine(c) /\ Ordered(c)
    BY DEF Listed
  <1>2. 1 \in Places(c) /\ Onward(c, d, k) /\ k \in {0, 1} /\ \A m \in Places(c) : m \in Int
    BY OnwardFacts DEF Places, Goes
  <1>3. EoiDue(d, p) => EoiDue(c, p)
    <2> SUFFICES ASSUME EoiDue(d, p) PROVE EoiDue(c, p)
      OBVIOUS
    <2>1. PICK i \in Places(d) : IsStore(d.todo[i], "PortEOI") /\ p \in Reach(d.todo[i]) /\ p \in d.todo[i].set
      BY DEF EoiDue
    <2>2. PICK m \in Places(c) : Same(d.todo[i], c.todo[m]) /\ Reach(d.todo[i]) \subseteq Reach(c.todo[m])
      BY SetsLeft
    <2>3. QED
      BY <2>1, <2>2 DEF EoiDue, Same, IsStore
  <1>4. ASSUME EoiDue(c, p), ~EoiDue(d, p)
        PROVE  IsStore(a, "PortEOI") /\ p \in a.set /\ p \in G!Half(a)
    <2>1. PICK m \in Places(c) : IsStore(c.todo[m], "PortEOI") /\ p \in Reach(c.todo[m]) /\ p \in c.todo[m].set
      BY <1>4 DEF EoiDue
    <2>2. m = 1
      <3> SUFFICES ASSUME m # 1 PROVE FALSE
        OBVIOUS
      <3>1. m - k \in Places(d) /\ d.todo[m - k] = c.todo[m]
        BY <1>2, Found
      <3>2. QED
        BY <1>4, <2>1, <3>1 DEF EoiDue
    <2>3. CASE k = 1
      <3>1. a.do = "store"
        BY <2>1, <2>2 DEF IsStore
      <3>2. QED
        BY <2>1, <2>2, <2>3, <3>1, HalfIs
    <2>4. CASE k = 0
      <3>0. a.do = "store"
        BY <2>1, <2>2 DEF IsStore
      <3>1. 1 \in Places(d) /\ Same(d.todo[1], c.todo[1]) /\ Reach(d.todo[1]) = UpperPins /\ G!Half(c.todo[1]) = Pins \ UpperPins
        BY <2>4, <3>0, HalfIs
      <3>2. ~(IsStore(d.todo[1], "PortEOI") /\ p \in Reach(d.todo[1]) /\ p \in d.todo[1].set)
        BY <1>4, <3>1 DEF EoiDue
      <3>3. p \notin UpperPins
        BY <2>1, <2>2, <3>1, <3>2 DEF IsStore, Same
      <3>4. QED
        BY <2>1, <2>2, <3>1, <3>3
    <2>5. QED
      BY <1>2, <2>3, <2>4
  <1>5. CASE IsStore(a, "PortEOI")
    <2>1. a.do = "store" /\ a.set = IF c.name = "start" THEN Pins ELSE c.pins
      BY <1>1, <1>2, <1>5 DEF Mine, IsStore
    <2>2. /\ latched' = latched \ (a.set \cap G!Half(a))
          /\ pending' = pending \ (G!Half(a) \cap IF bankPower = "starting" THEN Pins ELSE c.pins)
      BY <1>5 DEF Goes, StoresNow, IsStore
    <2>3. G!Half(a) \subseteq Reach(a)
      BY <2>1, HalfIs
    <2>4. p \in G!Half(a) /\ p \in a.set => EoiDue(c, p)
      BY <1>2, <1>5, <2>3 DEF EoiDue
    <2>5. /\ p \in G!Half(a) /\ p \in a.set => p \notin latched' /\ p \notin pending'
          /\ ~(p \in G!Half(a) /\ p \in a.set) => (p \in latched' <=> p \in latched) /\ (p \in pending' <=> p \in pending)
      BY <2>1, <2>2
    <2>6. QED
      <3>1. EoiDue(c, p) /\ ~EoiDue(d, p) => p \notin latched' /\ p \notin pending'
        BY <1>4, <2>5
      <3>2. \/ (p \in latched' <=> p \in latched) /\ (p \in pending' <=> p \in pending)
            \/ EoiDue(c, p) /\ p \notin latched' /\ p \notin pending'
        BY <2>4, <2>5
      <3>3. EoiDue(c, p) => c.name = "start" \/ p \in c.pins
        BY <1>1 DEF EoiDue, Mine
      <3>4. ASSUME c.name = "enable", NEW q \in Pins, Hits(c, "IntMask", p), ~Hits(d, "IntMask", p), EoiDue(d, q)
            PROVE  FALSE
        <4>1. Sets(a, "IntMask", p)
          BY <3>4, HitsMove DEF LastSets
        <4>2. QED
          BY <1>5, <4>1 DEF Sets, IsStore
      <3>5. ASSUME c.name = "enable", NEW q \in Pins, EoiDue(c, p), ~EoiDue(d, p), NEW r \in Modes, Hits(d, r, q)
            PROVE  FALSE
        <4>1. PICK i \in Places(d) : Sets(d.todo[i], r, q)
          BY <3>5 DEF Hits
        <4>2. PICK m \in Places(c) : m \in Int /\ m >= 1 /\ Same(d.todo[i], c.todo[m])
          BY SetsLeft
        <4>3. c.todo[m].do = "store" /\ c.todo[m].reg = r
          BY <4>1, <4>2 DEF Sets, IsStore, Same
        <4>4. m < 1
          BY <1>1, <1>2, <1>5, <3>5, <4>3 DEF Ordered, IsStore
        <4>5. QED
          BY <4>2, <4>4
      <3>6. QED
        BY <1>3, <3>1, <3>2, <3>3, <3>4, <3>5
  <1>6. CASE ~IsStore(a, "PortEOI")
    <2>1. latched' = latched /\ pending' = pending
      BY <1>6 DEF Goes, StoresNow, IsStore
    <2>2. EoiDue(c, p) => EoiDue(d, p)
      BY <1>4, <1>6
    <2>3. EoiDue(c, p) => c.name = "start" \/ p \in c.pins
      BY <1>1 DEF EoiDue, Mine
    <2>4. ASSUME c.name = "enable", NEW q \in Pins, Hits(c, "IntMask", p), ~Hits(d, "IntMask", p), EoiDue(d, q)
          PROVE  FALSE
      <3>1. Sets(a, "IntMask", p)
        BY <2>4, HitsMove DEF LastSets
      <3>2. a.do = "store" /\ a.reg = "IntMask"
        BY <3>1 DEF Sets, IsStore
      <3>3. PICK i \in Places(d) : IsStore(d.todo[i], "PortEOI")
        BY <2>4 DEF EoiDue
      <3>4. PICK m \in Places(c) : m \in Int /\ m >= 1 /\ Same(d.todo[i], c.todo[m])
        BY SetsLeft
      <3>5. c.todo[m].do = "store" /\ c.todo[m].reg = "PortEOI"
        BY <3>3, <3>4 DEF IsStore, Same
      <3>6. m < 1
        BY <1>1, <1>2, <2>4, <3>2, <3>5 DEF Ordered
      <3>7. QED
        BY <3>4, <3>6
    <2>5. QED
      BY <1>3, <2>1, <2>2, <2>3, <2>4
  <1>7. QED
    BY <1>5, <1>6

-----------------------------------------------------------------------------
(* The inductive invariant of the bank.                                    *)

Uses == [as : {"none", "in", "out", "irq"}, edge : BOOLEAN, high : BOOLEAN, both : BOOLEAN]

BankTypes ==
  /\ bankPower \in {"absent", "prepared", "starting", "on", "stopping", "D3", "F1"}
  /\ type \in {"V1", "V2"}
  /\ reg \in [G!Registers -> SUBSET Pins] /\ bankSaved \in [G!SavedRegisters -> SUBSET Pins]
  /\ lock \in {"free", "io", "isr"}
  /\ call \in [G!Sides -> Calls] /\ Io.name \in IoNames /\ Isr.name \in IsrNames
  /\ use \in [Pins -> Uses]

\* Callbacks are what is left of their lists.
ListInv ==
  \A s \in G!Sides : /\ Listed(call[s]) /\ Halves(call[s]) /\ Agree(call[s])
                     /\ call[s].name = "none" => call[s] = G!Idle

\* Who has the lock; what else runs when an interrupt is served.
LockInv ==
  /\ lock = "isr" <=> Isr.name # "none"
  /\ lock = "io" <=> Io.name \in Locking /\ Io.todo # <<>> /\ Io.todo[1].do # "acquire"
  /\ Isr.name # "none" => bankPower = "on"
  /\ Isr.name = "reconfigure" => Io.name \notin {"connect", "disconnect"}

\* What runs while power changes.
PowerInv ==
  /\ bankPower \in {"absent", "prepared", "D3", "F1"} => Io.name = "none"
  /\ bankPower = "starting" <=> Io.name = "start"
  /\ bankPower = "stopping" <=> Io.name \in Saving

Sound == BankTypes /\ ListInv /\ LockInv /\ PowerInv

\* The calls' lists are right for as long as the calls and the registers are as they were.
LEMMA ListsKept ==
  ASSUME ListInv, call' = call, type' = type, reg' = reg
  PROVE  ListInv'
  BY DEF ListInv, Halves, Agree

LEMMA SidesAre == G!Sides = {"io", "isr"}
  BY DEF G!Sides

\* A callback that has nothing left, or that waits for the lock, has loaded nothing.
LEMMA NothingLoaded ==
  ASSUME NEW c, Listed(c), c.todo = <<>> \/ (1 \in Places(c) /\ c.todo[1].do = "acquire"), c.name \notin Saving
  PROVE  DOMAIN c.val = {}
  <1>1. CASE c.todo = <<>>
    <2>1. \A i \in Places(c) : FALSE
      BY <1>1 DEF Places
    <2>2. \A r \in DOMAIN c.val : \E i \in Places(c) : IsStore(c.todo[i], r)
      BY DEF Listed, Loaded
    <2>3. QED
      BY <2>1, <2>2
  <1>2. CASE 1 \in Places(c) /\ c.todo[1].do = "acquire"
    BY <1>2 DEF Listed, Locked
  <1>3. QED
    BY <1>1, <1>2

\* Both sides work at the same time on different registers.
LEMMA Disjoint ==
  ASSUME Sound, Isr.name # "none"
  PROVE  \/ Io.todo = <<>> /\ DOMAIN Io.val = {}
         \/ 1 \in Places(Io) /\ Io.todo[1].do = "acquire" /\ DOMAIN Io.val = {}
         \/ MayUse(Io.name) \cap MayUse(Isr.name) = {} /\ 1 \in Places(Io)
  <1>1. /\ Io \in Calls /\ Listed(Io) /\ Io.name \in IoNames /\ Isr.name \in IsrNames
    BY SidesAre DEF Sound, BankTypes, ListInv, Io, Isr
  <1>2. lock = "isr" /\ bankPower = "on" /\ (Isr.name = "reconfigure" => Io.name \notin {"connect", "disconnect"})
        /\ Io.name \notin Saving /\ Io.name # "start"
        /\ ~(Io.name \in Locking /\ Io.todo # <<>> /\ Io.todo[1].do # "acquire")
    BY DEF Sound, LockInv, PowerInv
  <1>3. CASE Io.todo = <<>>
    BY <1>1, <1>2, <1>3, NothingLoaded
  <1>4. CASE Io.todo # <<>>
    <2>1. 1 \in Places(Io)
      <3>1. Io.todo \in Seq(Accesses)
        BY <1>1, CallsAre
      <3>2. Len(Io.todo) \in Nat \ {0}
        BY <1>4, <3>1, Rest
      <3>3. QED
        BY <3>2 DEF Places
    <2>2. CASE Io.todo[1].do = "acquire"
      BY <1>1, <1>2, <2>1, <2>2, NothingLoaded
    <2>3. CASE Io.todo[1].do # "acquire"
      <3>1. Io.name \in {"none", "connect", "disconnect", "write"}
        BY <1>1, <1>2, <1>4, <2>3 DEF IoNames
      <3>2. MayUse(Io.name) \cap MayUse(Isr.name) = {}
        BY <1>1, <1>2, <3>1 DEF MayUse, IsrNames, Saving, Locking, Modes
      <3>3. QED
        BY <2>1, <3>2
    <2>4. QED
      BY <2>2, <2>3
  <1>5. QED
    BY <1>3, <1>4

\* What a side has loaded the other does not change.
LEMMA Apart ==
  ASSUME Sound, NEW s \in G!Sides, NEW o \in G!Sides, o # s, NEW d, NEW k, Goes(s, call[s], d, k)
  PROVE  \A r \in DOMAIN call[o].val : reg'[r] = reg[r]
  <1> DEFINE c == call[s]
             a == c.todo[1]
  <1>0. 1 \in Places(c) /\ Mine(c)
    BY OnwardFacts DEF Places, Goes, Sound, ListInv, Listed
  <1> SUFFICES ASSUME NEW r \in DOMAIN call[o].val, reg'[r] # reg[r]
               PROVE  FALSE
    OBVIOUS
  <1>1. a.do = "store" /\ a.reg = r /\ a.reg \in MayUse(c.name)
    <2>1. a.do = "store" /\ a.reg # "PortEOI" /\ StoresNow(c, a)
      BY DEF Goes, StoresNow
    <2>2. a.reg \in MayUse(c.name)
      BY <1>0, <2>1 DEF Mine
    <2>3. r \in G!Registers
      BY ValsAre, CallsAre DEF Sound, BankTypes
    <2> DEFINE q == a.reg
    <2>4. \E w : reg' = [reg EXCEPT ![q] = w]
      BY <2>1 DEF StoresNow
    <2>5. reg \in [G!Registers -> SUBSET Pins]
      BY DEF Sound, BankTypes
    <2> HIDE DEF q
    <2>6. q = r
      BY <2>3, <2>4, <2>5
    <2>7. QED
      BY <2>1, <2>2, <2>6 DEF q
  <1>2. r \in MayUse(call[o].name) /\ call[o] # G!Idle
    <2>1. Mine(call[o])
      BY DEF Sound, ListInv, Listed
    <2>2. DOMAIN G!Idle.val = {}
      BY DEF G!Idle
    <2>3. QED
      BY <2>1, <2>2 DEF Mine
  <1>3. call[o].name # "none"
    BY <1>2 DEF Sound, ListInv
  <1>4. c.name # "none"
    <2>1. G!Idle.todo = <<>>
      BY DEF G!Idle
    <2>2. c.todo # <<>>
      BY <1>0 DEF Places
    <2>3. QED
      BY <2>1, <2>2 DEF Sound, ListInv
  <1>5. Isr.name # "none" /\ ((s = "io" /\ o = "isr") \/ (s = "isr" /\ o = "io"))
    BY <1>3, <1>4, SidesAre DEF Isr
  <1>6. \/ Io.todo = <<>> /\ DOMAIN Io.val = {}
        \/ 1 \in Places(Io) /\ Io.todo[1].do = "acquire" /\ DOMAIN Io.val = {}
        \/ MayUse(Io.name) \cap MayUse(Isr.name) = {}
    BY <1>5, Disjoint
  <1>7. CASE s = "io" /\ o = "isr"
    BY <1>0, <1>1, <1>2, <1>6, <1>7 DEF Places, Io, Isr
  <1>8. CASE s = "isr" /\ o = "io"
    BY <1>1, <1>2, <1>6, <1>8 DEF Io, Isr
  <1>9. QED
    BY <1>5, <1>7, <1>8

LEMMA AgreeOnward ==
  ASSUME NEW s, NEW c, NEW d, NEW k, Goes(s, c, d, k), Listed(c), Halves(c), Agree(c),
         reg \in [G!Registers -> SUBSET Pins], type \in {"V1", "V2"}
  PROVE  AgreeWith(reg', d)
  <1> DEFINE a == c.todo[1]
  <1> SUFFICES ASSUME NEW r \in DOMAIN d.val, NEW p \in Pins
               PROVE  \/ p \in d.val[r] <=> p \in reg'[r]
                      \/ p \notin UpperPins /\ 1 \in Places(d) /\ IsStore(d.todo[1], r) /\ d.todo[1].rest
    BY DEF AgreeWith
  <1>1. d \in Calls /\ StoresNow(c, a) /\ Locals(c, d, k) /\ 1 \in Places(c)
    BY OnwardFacts DEF Goes, Places
  <1>2. r \in G!Registers
    BY <1>1, CallsAre, ValsAre
  <1>3. p \in reg'[r] <=> IF Sets(a, r, p) /\ p \in G!Half(a) THEN p \in a.set ELSE p \in reg[r]
    BY <1>2, StoreBit DEF Listed
  <1>4. CASE k = 1 /\ a.do = "load"
    <2>1. d.val[r] = IF r = a.reg THEN reg[r] ELSE c.val[r]
      BY <1>1, <1>4 DEF Locals
    <2>2. p \in reg'[r] <=> p \in reg[r]
      BY <1>3, <1>4 DEF Sets, IsStore
    <2>3. CASE r # a.reg
      <3>1. r \in DOMAIN c.val
        BY <1>1, <1>4, <2>3 DEF Locals
      <3>2. p \in c.val[r] <=> p \in reg[r]
        BY <1>4, <3>1 DEF Agree, AgreeWith, IsStore
      <3>3. QED
        BY <2>1, <2>2, <2>3, <3>2
    <2>4. QED
      BY <2>1, <2>2, <2>3
  <1>5. CASE ~(k = 1 /\ a.do = "load")
    <2>1. r \in DOMAIN c.val /\ d.val[r] = c.val[r] /\ (k = 1 /\ a.do = "store" => r # a.reg)
      BY <1>1, <1>5 DEF Locals
    <2>2. CASE IsStore(a, r)
      <3>1. k = 0 /\ a.do = "store" /\ a.reg = r
        BY <2>1, <2>2, HalfIs DEF IsStore
      <3>2. /\ 1 \in Places(d) /\ Same(d.todo[1], a) /\ d.todo[1].rest /\ G!Half(a) = Pins \ UpperPins
            /\ ~a.rest
        <4>1. 1 \in Places(d) /\ Same(d.todo[1], a) /\ G!Half(a) = Pins \ UpperPins
          BY <3>1, HalfIs
        <4>2. Onward(c, d, k)
          BY DEF Goes
        <4>3. ~a.rest /\ d.todo[1].rest
          BY <3>1, <4>2, OnwardFacts
        <4>4. QED
          BY <4>1, <4>3
      <3>3. IsStore(d.todo[1], r)
        BY <3>1, <3>2 DEF IsStore, Same
      <3>4. CASE p \in UpperPins
        <4>1. p \in reg'[r] <=> p \in reg[r]
          BY <1>3, <3>2, <3>4
        <4>2. p \in c.val[r] <=> p \in reg[r]
          BY <2>1, <3>2 DEF Agree, AgreeWith
        <4>3. QED
          BY <2>1, <4>1, <4>2
      <3>5. CASE p \notin UpperPins
        BY <3>2, <3>3, <3>5
      <3>6. QED
        BY <3>4, <3>5
    <2>3. CASE ~IsStore(a, r)
      <3>1. p \in reg'[r] <=> p \in reg[r]
        BY <1>3, <2>3 DEF Sets
      <3>2. p \in c.val[r] <=> p \in reg[r]
        BY <2>1, <2>3 DEF Agree, AgreeWith
      <3>3. QED
        BY <2>1, <3>1, <3>2
    <2>4. QED
      BY <2>2, <2>3
  <1>6. QED
    BY <1>4, <1>5

\* One side's list after an access.
LEMMA ListOnward ==
  ASSUME NEW s, NEW c, NEW d, NEW k, Goes(s, c, d, k), Listed(c), Halves(c), Agree(c),
         reg \in [G!Registers -> SUBSET Pins], type \in {"V1", "V2"}
  PROVE  /\ Listed(d) /\ Halves(d) /\ AgreeWith(reg', d)
         /\ d.name = c.name /\ d.pins = c.pins /\ 1 \in Places(c)
         /\ \A i \in Places(d) : d.todo[i].do # "acquire"
  <1>1. Onward(c, d, k) /\ Locals(c, d, k) /\ Mine(c) /\ Loaded(c) /\ Locked(c) /\ Ordered(c) /\ c.todo[1] \in Accesses
    BY DEF Goes, Listed
  <1>2. 1 \in Places(c) /\ d.name = c.name /\ d.pins = c.pins
    BY <1>1, OnwardFacts DEF Places
  <1>3. DOMAIN d.val \subseteq MayUse(c.name)
    BY <1>1, <1>2 DEF Locals, Mine
  <1>4. Mine(d) /\ Ordered(d) /\ Locked(d) /\ Halves(d)
    BY <1>1, <1>3, MineOnward, OrderedOnward, LockedOnward, HalvesOnward
  <1>5. c.name \in Saving => c.name # "start"
    BY DEF Saving
  <1>6. Loaded(d)
    BY <1>1, <1>5, LoadedOnward
  <1>7. AgreeWith(reg', d)
    BY AgreeOnward
  <1>8. \A i \in Places(d) : d.todo[i].do # "acquire"
    BY <1>1, LockedOnward
  <1>9. QED
    BY <1>2, <1>4, <1>6, <1>7, <1>8 DEF Listed

\* Either side goes on.
LEMMA AccessSides ==
  ASSUME Sound, NEW s \in G!Sides, G!Access(s)
  PROVE  /\ \E k : Goes(s, call[s], call[s]', k)
         /\ \/ s = "io" /\ Isr' = Isr /\ \E k : Goes("io", Io, Io', k)
            \/ s = "isr" /\ Io' = Io /\ \E k : Goes("isr", Isr, Isr', k)
         /\ Listed(call[s]) /\ Halves(call[s]) /\ Agree(call[s])
         /\ type \in {"V1", "V2"} /\ reg \in [G!Registers -> SUBSET Pins]
  <1>1. Listed(call[s]) /\ Halves(call[s]) /\ Agree(call[s])
    BY DEF Sound, ListInv
  <1>2. call \in [G!Sides -> Calls] /\ type \in {"V1", "V2"} /\ reg \in [G!Registers -> SUBSET Pins]
    BY DEF Sound, BankTypes
  <1>3. PICK k : Goes(s, call[s], call[s]', k)
    BY <1>1, <1>2, AccessGoes
  <1>4. \A o \in G!Sides : o # s => call[o]' = call[o]
    BY <1>3 DEF Goes
  <1>5. \/ s = "io" /\ Isr' = Isr
        \/ s = "isr" /\ Io' = Io
    BY <1>4, SidesAre DEF Io, Isr
  <1>6. s = "io" => Goes("io", Io, Io', k)
    BY <1>3 DEF Io
  <1>7. s = "isr" => Goes("isr", Isr, Isr', k)
    BY <1>3 DEF Isr
  <1>8. QED
    BY <1>1, <1>2, <1>3, <1>5, <1>6, <1>7

LEMMA AccessOfOne ==
  ASSUME call \in [G!Sides -> Calls], NEW s \in G!Sides, G!Access(s)
  PROVE  \E e : call' = [call EXCEPT ![s] = e]
  <1>1. CASE G!gpio_read32(s)
    BY <1>1 DEF G!gpio_read32
  <1>2. CASE G!AcquireInterruptLock(s) \/ G!ReleaseInterruptLock(s)
    BY <1>2 DEF G!AcquireInterruptLock, G!ReleaseInterruptLock, G!Drop
  <1>3. CASE G!gpio_write32(s)
    BY <1>3 DEF G!gpio_write32
  <1>4. QED
    BY <1>1, <1>2, <1>3 DEF G!Access

\* Who has the lock after an access of the serialised side.
LEMMA IoLock ==
  ASSUME Sound, NEW k, Goes("io", Io, Io', k), Isr' = Isr
  PROVE  LockInv'
  <1> DEFINE a == Io.todo[1]
  <1>1. Listed(Io) /\ Halves(Io) /\ Agree(Io) /\ type \in {"V1", "V2"} /\ reg \in [G!Registers -> SUBSET Pins]
        /\ lock \in {"free", "io", "isr"}
    BY SidesAre DEF Sound, ListInv, BankTypes, Io
  <1>2. Io'.name = Io.name /\ 1 \in Places(Io) /\ Locked(Io) /\ \A i \in Places(Io') : Io'.todo[i].do # "acquire"
    BY <1>1, ListOnward DEF Listed
  <1>3. /\ k \in {0, 1} /\ Len(Io.todo) \in Nat \ {0} /\ Len(Io'.todo) = Len(Io.todo) - k
        /\ k = 0 => a.do = "store"
    BY OnwardFacts DEF Goes
  <1>4. /\ bankPower' = bankPower /\ Lock("io", a) /\ a \in Accesses /\ (a.do = "acquire" => lock = "free")
        /\ Io' \in Calls /\ Io \in Calls
    BY DEF Goes
  <1>5. /\ Io'.todo = <<>> <=> Len(Io'.todo) = 0
        /\ Io.todo = <<>> <=> Len(Io.todo) = 0
    <2>1. Io'.todo \in Seq(Accesses) /\ Io.todo \in Seq(Accesses)
      BY <1>4, CallsAre
    <2>2. QED
      BY <2>1, EmptySeq
  <1>6. Io'.todo # <<>> => Io'.todo[1].do # "acquire"
    BY <1>2, <1>3, <1>5 DEF Places
  <1>7. /\ a.do = "acquire" => Io.name \in Locking
        /\ a.do = "release" <=> Io.name \in Locking /\ Len(Io.todo) = 1
    BY <1>2 DEF Locked
  <1>8. /\ lock = "isr" <=> Isr.name # "none"
        /\ lock = "io" <=> Io.name \in Locking /\ Io.todo # <<>> /\ a.do # "acquire"
        /\ Isr.name # "none" => bankPower = "on"
        /\ Isr.name = "reconfigure" => Io.name \notin {"connect", "disconnect"}
    BY DEF Sound, LockInv
  <1>13. /\ a.do = "acquire" => Io'.todo # <<>> /\ Io.name \in Locking
         /\ a.do = "release" => Io'.todo = <<>>
         /\ a.do \notin {"acquire", "release"} /\ Io.name \in Locking => Io'.todo # <<>> /\ Io.todo # <<>>
    <2> DEFINE n == Len(Io.todo)
               m == Len(Io'.todo)
               e == a.do
               l == Io.name \in Locking
    <2>1. k \in {0, 1} /\ n \in Nat \ {0} /\ m = n - k /\ (k = 0 => e = "store")
      BY <1>3
    <2>2. (e = "acquire" => l) /\ (e = "release" => l /\ n = 1) /\ (l /\ n = 1 => e = "release")
      BY <1>7
    <2>3. (Io'.todo = <<>> <=> m = 0) /\ (Io.todo = <<>> <=> n = 0)
      BY <1>5
    <2> HIDE DEF n, m, e, l
    <2>4. /\ e = "acquire" => m # 0 /\ l
          /\ e = "release" => m = 0
          /\ e \notin {"acquire", "release"} /\ l => m # 0 /\ n # 0
      BY <2>1, <2>2
    <2>5. QED
      BY <2>3, <2>4 DEF e, l
  <1>9. CASE a.do = "acquire"
    <2>1. lock' = "io" /\ lock = "free"
      BY <1>4, <1>9 DEF Lock
    <2>2. Io'.todo # <<>> /\ Io.name \in Locking
      BY <1>9, <1>13
    <2>3. QED
      BY <1>2, <1>4, <1>6, <1>8, <2>1, <2>2 DEF LockInv
  <1>10. CASE a.do = "release"
    <2>1. lock' = "free" /\ lock = "io"
      BY <1>3, <1>4, <1>5, <1>7, <1>8, <1>10 DEF Lock
    <2>2. Io'.todo = <<>>
      BY <1>10, <1>13
    <2>3. QED
      BY <1>2, <1>4, <1>8, <2>1, <2>2 DEF LockInv
  <1>11. CASE a.do \notin {"acquire", "release"}
    <2>1. lock' = lock
      BY <1>4, <1>11 DEF Lock
    <2>2. Io.name \in Locking => Io'.todo # <<>> /\ Io.todo # <<>>
      BY <1>11, <1>13
    <2>3. QED
      BY <1>2, <1>4, <1>6, <1>8, <1>11, <2>1, <2>2 DEF LockInv
  <1>12. QED
    BY <1>9, <1>10, <1>11

\* The interrupt side keeps it.
LEMMA IsrLock ==
  ASSUME Sound, NEW k, Goes("isr", Isr, Isr', k), Io' = Io
  PROVE  LockInv'
  <1> DEFINE a == Isr.todo[1]
  <1>1. Listed(Isr) /\ Halves(Isr) /\ Agree(Isr) /\ type \in {"V1", "V2"} /\ reg \in [G!Registers -> SUBSET Pins]
        /\ Isr.name \in IsrNames
    BY SidesAre DEF Sound, ListInv, BankTypes, Isr
  <1>2. Isr'.name = Isr.name /\ 1 \in Places(Isr) /\ Locked(Isr)
    BY <1>1, ListOnward DEF Listed
  <1>3. a.do \notin {"acquire", "release"}
    BY <1>1, <1>2 DEF Locked, IsrNames, Locking
  <1>4. bankPower' = bankPower /\ lock' = lock
    BY <1>3 DEF Goes, Lock
  <1>5. QED
    BY <1>2, <1>4 DEF Sound, LockInv

LEMMA AccessSound ==
  ASSUME Sound, NEW s \in G!Sides, G!Access(s)
  PROVE  Sound'
  <1>1. PICK k : Goes(s, call[s], call[s]', k)
    BY AccessSides
  <1>2. /\ Listed(call[s]) /\ Halves(call[s]) /\ Agree(call[s]) /\ type \in {"V1", "V2"}
        /\ reg \in [G!Registers -> SUBSET Pins]
    BY AccessSides
  <1>3. /\ Listed(call[s]') /\ Halves(call[s]') /\ AgreeWith(reg', call[s]')
        /\ call[s]'.name = call[s].name /\ call[s]'.pins = call[s].pins /\ 1 \in Places(call[s])
    BY <1>1, <1>2, ListOnward
  <1>4. /\ bankPower' = bankPower /\ type' = type /\ bankSaved' = bankSaved /\ use' = use
        /\ call[s]' \in Calls /\ Lock(s, call[s].todo[1]) /\ \A o \in G!Sides : o # s => call[o]' = call[o]
    BY <1>1 DEF Goes
  <1>5. reg' \in [G!Registers -> SUBSET Pins]
    BY <1>1, <1>2, StoreBit DEF Listed
  <1>6. call[s].name # "none"
    <2>1. G!Idle.todo = <<>>
      BY DEF G!Idle
    <2>2. call[s].todo # <<>>
      BY <1>3 DEF Places
    <2>3. QED
      BY <2>1, <2>2 DEF Sound, ListInv
  <1>7. call' \in [G!Sides -> Calls]
    <2>1. PICK e : call' = [call EXCEPT ![s] = e]
      BY AccessOfOne DEF Sound, BankTypes
    <2>2. call[s]' = e
      BY <2>1 DEF Sound, BankTypes
    <2>3. QED
      BY <1>4, <2>1, <2>2 DEF Sound, BankTypes
  <1>8. Io'.name = Io.name /\ Isr'.name = Isr.name
    BY <1>3, <1>4, SidesAre DEF Io, Isr
  <1>9. BankTypes'
    <2>1. lock' \in {"free", "io", "isr"}
      BY <1>4, SidesAre DEF Lock, Sound, BankTypes
    <2>2. QED
      BY <1>4, <1>5, <1>7, <1>8, <2>1 DEF Sound, BankTypes
  <1>10. ListInv'
    <2> SUFFICES ASSUME NEW o \in G!Sides
                 PROVE  /\ Listed(call[o]') /\ Halves(call[o]') /\ AgreeWith(reg', call[o]')
                        /\ call[o]'.name = "none" => call[o]' = G!Idle
      BY <1>4 DEF ListInv, Halves, Agree, AgreeWith, Listed, Mine, Loaded, Locked, Ordered, Places
    <2>1. CASE o = s
      BY <1>3, <1>6, <2>1
    <2>2. CASE o # s
      <3>1. call[o]' = call[o]
        BY <1>4, <2>2
      <3>2. Listed(call[o]) /\ Halves(call[o]) /\ Agree(call[o]) /\ (call[o].name = "none" => call[o] = G!Idle)
        BY DEF Sound, ListInv
      <3>3. \A r \in DOMAIN call[o].val : reg'[r] = reg[r]
        BY <1>1, <2>2, Apart
      <3>4. AgreeWith(reg', call[o])
        BY <3>2, <3>3 DEF Agree, AgreeWith
      <3>5. QED
        BY <3>1, <3>2, <3>4
    <2>3. QED
      BY <2>1, <2>2
  <1>11. LockInv'
    BY AccessSides, IoLock, IsrLock
  <1>12. PowerInv'
    BY <1>4, <1>8 DEF Sound, PowerInv
  <1>13. QED
    BY <1>9, <1>10, <1>11, <1>12 DEF Sound

\* What a bit is to become: by what one callback has still to do, or both of them.
Holds(c, b, r, p, v) == Gives(c, r, p, v) /\ (~Hits(c, r, p) => (p \in b[r] <=> v))
Settled(x, y, b, r, p, v) ==
  /\ Gives(x, r, p, v) /\ Gives(y, r, p, v)
  /\ ~Hits(x, r, p) /\ ~Hits(y, r, p) => (p \in b[r] <=> v)
Asked(r, p, v) == Settled(Io, Isr, reg, r, p, v)

\* Lines are, or become, what GpioClx has asked for.
ModeOf(p) ==
  /\ use[p].as = "in"  => Asked("PortDDR", p, FALSE)
  /\ use[p].as = "out" => Asked("PortDDR", p, TRUE) /\ Asked("PortDR", p, p \in driven)
  /\ use[p].as = "irq" => /\ Asked("PortDDR", p, FALSE) /\ Asked("IntType", p, use[p].edge)
                          /\ Asked("IntPolarity", p, use[p].high)
ModeInv == bankPower # "D3" => \A p \in Pins : ModeOf(p)

\* Whatever is driven on the way there is what was asked for.
DriveInv ==
  bankPower \in {"D3", "starting"} =>
    \A p \in Pins : use[p].as = "out" /\ p \in reg["PortDDR"] => (p \in reg["PortDR"] <=> p \in driven)

EnableInv ==
  bankPower \notin {"absent", "prepared", "D3"} => \A p \in Pins : Holds(Io, reg, "IntEn", p, TRUE)

UseInv ==
  /\ Io.name \in Locking => \A p \in Io.pins : use[p].as = "irq"
  /\ bankPower \in {"absent", "prepared"} => \A p \in Pins : use[p].as = "none"
  /\ bankPower \in {"absent", "prepared"} => pending = {}
  /\ pending \subseteq Pins
  /\ \A p \in Pins : use[p].as # "irq" => p \notin masked /\ p \notin pending /\ p \notin Isr.pins

\* What the mask bit of a line is to be when the interrupt callback is over.
MaskedThen(p) ==
  CASE Isr.name = "active" -> p \in masked \/ (p \in Isr.pins /\ p \notin reg["IntType"] /\ use[p].as = "irq")
    [] Isr.name = "unmask" -> p \in masked /\ p \notin Isr.pins
    [] OTHER -> p \in masked

Enabling(p)  == Io.name = "enable" /\ p \in Io.pins
Disabling(p) == Io.name = "disable" /\ p \in Io.pins
Dirty(p)     == Enabling(p) /\ EoiDue(Io, p)

\* A line is masked until it has been enabled, and from when it has been disabled; in between
\* it is masked while it is served.
NotEnabled(p)  == Enabling(p) /\ p \in reg["IntMask"] /\ p \notin masked /\ p \notin Isr.pins
                    /\ Hits(Io, "IntMask", p) /\ Gives(Io, "IntMask", p, FALSE)
Enabled(p)     == Enabling(p) /\ ~Hits(Io, "IntMask", p) /\ ~EoiDue(Io, p) /\ Holds(Isr, reg, "IntMask", p, MaskedThen(p))
NotDisabled(p) == Disabling(p) /\ Hits(Io, "IntMask", p) /\ Gives(Io, "IntMask", p, TRUE)
                    /\ Holds(Isr, reg, "IntMask", p, MaskedThen(p))
Disabled(p)    == Disabling(p) /\ ~Hits(Io, "IntMask", p) /\ p \in reg["IntMask"] /\ p \notin Isr.pins
InUse(p)       == p \notin Io.pins /\ Holds(Isr, reg, "IntMask", p, MaskedThen(p))

MaskOf(p) ==
  /\ use[p].as # "irq" => p \in reg["IntMask"]
  /\ use[p].as = "irq" => NotEnabled(p) \/ Enabled(p) \/ NotDisabled(p) \/ Disabled(p) \/ InUse(p)
MaskInv == bankPower \in {"on", "stopping", "F1"} => \A p \in Pins : MaskOf(p)

\* A start leaves the mask as it was.
StartInv ==
  bankPower = "starting" => \A p \in Pins : Holds(Io, reg, "IntMask", p, use[p].as = "irq" => p \in masked)

\* A start that masks everything has not yet masked the line.
FirstMask(c, p) == 1 \in Places(c) /\ c.todo[1].set = Pins /\ Sets(c.todo[1], "IntMask", p)

\* Until the bank is on again a line that may interrupt raises what it is to raise, edges or levels.
QuietOf(p) ==
  \/ p \in reg["IntMask"]
  \/ p \in reg["IntType"] <=> use[p].edge
  \/ p \notin reg["IntEn"] /\ (bankPower = "D3" \/ FirstMask(Io, p))
QuietInv ==
  \A p \in Pins : use[p].as = "irq" =>
    /\ bankPower \in {"D3", "starting"} => QuietOf(p)
    /\ bankPower = "starting" => (p \in bankSaved["IntPolarity"] <=> use[p].high)

SavedInv ==
  bankPower \in {"D3", "F1"} =>
    \A p \in Pins :
      /\ p \in bankSaved["IntMask"] <=> (use[p].as = "irq" => p \in masked)
      /\ use[p].as = "in" => p \notin bankSaved["PortDDR"]
      /\ use[p].as = "out" => p \in bankSaved["PortDDR"] /\ (p \in bankSaved["PortDR"] <=> p \in driven)
      /\ use[p].as = "irq" => /\ p \notin bankSaved["PortDDR"] /\ (p \in bankSaved["IntType"] <=> use[p].edge)
                              /\ (p \in bankSaved["IntPolarity"] <=> use[p].high)

\* An edge is pending when it is latched, unless the line is not clean yet.
EdgeOf(p) ==
  /\ p \in pending /\ ~use[p].both => p \in latched \/ Dirty(p)
  /\ use[p].as = "irq" /\ use[p].edge /\ p \in latched =>
       p \in pending \/ Dirty(p)
  /\ use[p].as = "irq" /\ bankPower # "starting" =>
       \A r \in {"IntType", "IntPolarity"} : /\ Hits(Io, r, p) => Dirty(p)
                                             /\ Hits(Isr, r, p) => use[p].both
EdgeInv == \A p \in Pins : EdgeOf(p)

Values == ModeInv /\ DriveInv /\ EnableInv /\ UseInv /\ MaskInv /\ StartInv /\ QuietInv /\ SavedInv /\ EdgeInv
GpioInv == Sound /\ Values

-----------------------------------------------------------------------------
(* Accesses keep it.                                                       *)

\* Lines a callback is not about.
LEMMA NotMine ==
  ASSUME NEW c, Mine(c), c.name # "start", NEW p, p \notin c.pins, NEW r, r # "PortEOI"
  PROVE  ~Hits(c, r, p) /\ ~EoiDue(c, p) /\ \A v : Gives(c, r, p, v)
  <1>1. \A i \in Places(c) : ~Sets(c.todo[i], r, p)
    BY DEF Mine, Sets, IsStore
  <1>2. ~EoiDue(c, p)
    BY DEF Mine, EoiDue, IsStore
  <1>3. QED
    BY <1>1, <1>2 DEF Hits, Gives, LastSets

LEMMA NotUsed ==
  ASSUME NEW c, Mine(c), NEW r, r \notin MayUse(c.name), NEW p
  PROVE  ~Hits(c, r, p) /\ \A v : Gives(c, r, p, v)
  <1>1. \A i \in Places(c) : ~Sets(c.todo[i], r, p)
    BY DEF Mine, Sets, IsStore
  <1>2. QED
    BY <1>1 DEF Hits, Gives, LastSets

\* Nothing is left of the lists of those that have returned.
LEMMA NothingLeft ==
  ASSUME NEW c, c.todo = <<>>
  PROVE  \A r, p : ~Hits(c, r, p) /\ ~EoiDue(c, p) /\ \A v : Gives(c, r, p, v)
  BY DEF Places, Hits, EoiDue, Gives

\* An access moves the bits, of either side.
LEMMA AccessBits ==
  ASSUME Sound, NEW s \in G!Sides, G!Access(s), NEW r \in G!Registers, NEW p \in Pins
  PROVE  /\ ~Hits(call[s], r, p) => (p \in reg'[r] <=> p \in reg[r])
         /\ \A v : Hits(call[s], r, p) /\ ~Hits(call[s]', r, p) /\ Gives(call[s], r, p, v) => (p \in reg'[r] <=> v)
         /\ Hits(call[s]', r, p) /\ (call[s].name # "start" \/ r # "IntMask") => (p \in reg'[r] <=> p \in reg[r])
         /\ Hits(call[s]', r, p) => Hits(call[s], r, p)
         /\ \A v : Gives(call[s], r, p, v) => Gives(call[s]', r, p, v)
         /\ ~(p \in reg'["PortDDR"] <=> p \in reg["PortDDR"]) => \A q \in Pins : ~Hits(call[s]', "PortDR", q)
         /\ ~(p \in reg'[r] <=> p \in reg[r]) => Hits(call[s], r, p)
  <1>1. PICK k : Goes(s, call[s], call[s]', k)
    BY AccessSides
  <1>2. /\ Listed(call[s]) /\ Halves(call[s]) /\ Agree(call[s]) /\ type \in {"V1", "V2"}
        /\ reg \in [G!Registers -> SUBSET Pins]
    BY AccessSides
  <1> DEFINE c == call[s]
             d == call[s]'
             nr == reg'
  <1>3. /\ ~Hits(c, r, p) => (p \in reg'[r] <=> p \in reg[r])
        /\ \A v : Hits(c, r, p) /\ ~Hits(d, r, p) /\ Gives(c, r, p, v) => (p \in reg'[r] <=> v)
        /\ Hits(d, r, p) /\ (c.name # "start" \/ r # "IntMask") => (p \in reg'[r] <=> p \in reg[r])
        /\ ~(p \in reg'["PortDDR"] <=> p \in reg["PortDDR"]) => \A q \in Pins : ~Hits(d, "PortDR", q)
    <2> HIDE DEF c, d
    <2>1. Goes(s, c, d, k) /\ Listed(c) /\ Halves(c) /\ Agree(c)
      BY <1>1, <1>2 DEF c, d
    <2>2. QED
      BY <1>2, <2>1, BitsMove
  <1>4. /\ Hits(d, r, p) => Hits(c, r, p)
        /\ \A v : Gives(c, r, p, v) => Gives(d, r, p, v)
    BY <1>1, <1>2, HitsMove
  <1>5. QED
    BY <1>3, <1>4

LEMMA SettledOn ==
  ASSUME Sound, NEW s \in G!Sides, G!Access(s), NEW r \in G!Registers, NEW p \in Pins, NEW v,
         Settled(Io, Isr, reg, r, p, v)
  PROVE  Settled(Io', Isr', reg', r, p, v)
  <1>1. /\ ~Hits(call[s], r, p) => (p \in reg'[r] <=> p \in reg[r])
        /\ Hits(call[s], r, p) /\ ~Hits(call[s]', r, p) /\ Gives(call[s], r, p, v) => (p \in reg'[r] <=> v)
        /\ Gives(call[s], r, p, v) => Gives(call[s]', r, p, v)
    BY AccessBits
  <1>2. (s = "io" /\ Isr' = Isr) \/ (s = "isr" /\ Io' = Io)
    BY AccessSides
  <1>3. CASE s = "io" /\ Isr' = Isr
    BY <1>1, <1>3 DEF Settled, Io
  <1>4. CASE s = "isr" /\ Io' = Io
    BY <1>1, <1>4 DEF Settled, Isr
  <1>5. QED
    BY <1>2, <1>3, <1>4

LEMMA HoldsOn ==
  ASSUME Sound, NEW s \in G!Sides, G!Access(s), NEW r \in G!Registers, NEW p \in Pins, NEW v,
         Holds(call[s], reg, r, p, v)
  PROVE  Holds(call[s]', reg', r, p, v)
  <1>1. /\ ~Hits(call[s], r, p) => (p \in reg'[r] <=> p \in reg[r])
        /\ Hits(call[s], r, p) /\ ~Hits(call[s]', r, p) /\ Gives(call[s], r, p, v) => (p \in reg'[r] <=> v)
        /\ Gives(call[s], r, p, v) => Gives(call[s]', r, p, v)
    BY AccessBits
  <1>2. QED
    BY <1>1 DEF Holds

\* What an access leaves alone.
LEMMA AccessKeeps ==
  ASSUME Sound, NEW s \in G!Sides, G!Access(s)
  PROVE  /\ bankPower' = bankPower /\ bankSaved' = bankSaved /\ line' = line
         /\ use' = use /\ driven' = driven /\ masked' = masked
         /\ Io'.name = Io.name /\ Io'.pins = Io.pins /\ Isr'.name = Isr.name /\ Isr'.pins = Isr.pins
         /\ call[s].name # "none" /\ Mine(call[s]) /\ (bankPower = "starting" <=> call[s].name = "start")
         /\ bankPower \in {"starting", "on", "stopping"}
         /\ s = "isr" => bankPower = "on" /\ lock = "isr" /\ Isr.name \in IsrNames
         /\ s = "io" /\ Io.name \in Locking /\ Io.todo[1].do # "acquire" => lock = "io" /\ Isr = G!Idle
         /\ \/ s = "io" /\ Isr' = Isr /\ call[s] = Io /\ call[s]' = Io'
            \/ s = "isr" /\ Io' = Io /\ call[s] = Isr /\ call[s]' = Isr'
  <1>1. PICK k : Goes(s, call[s], call[s]', k)
    BY AccessSides
  <1>2. /\ Listed(call[s]) /\ Halves(call[s]) /\ Agree(call[s]) /\ type \in {"V1", "V2"}
        /\ reg \in [G!Registers -> SUBSET Pins]
    BY AccessSides
  <1>3. call[s]'.name = call[s].name /\ call[s]'.pins = call[s].pins /\ 1 \in Places(call[s])
    BY <1>1, <1>2, ListOnward
  <1>4. /\ bankPower' = bankPower /\ bankSaved' = bankSaved /\ line' = line
        /\ use' = use /\ driven' = driven /\ masked' = masked
    BY <1>1 DEF Goes
  <1>5. \/ s = "io" /\ Isr' = Isr /\ call[s] = Io /\ call[s]' = Io'
        \/ s = "isr" /\ Io' = Io /\ call[s] = Isr /\ call[s]' = Isr'
    BY AccessSides DEF Io, Isr
  <1>6. call[s].todo # <<>>
    BY <1>3 DEF Places
  <1>7. call[s].name # "none"
    <2>1. G!Idle.todo = <<>>
      BY DEF G!Idle
    <2>2. QED
      BY <1>6, <2>1 DEF Sound, ListInv
  <1>8. Mine(call[s])
    BY <1>2 DEF Listed
  <1>9. /\ Isr.name \in IsrNames /\ Io.name \in IoNames /\ (Isr.name = "none" => Isr = G!Idle)
        /\ bankPower \in {"absent", "prepared", "starting", "on", "stopping", "D3", "F1"}
    BY SidesAre DEF Sound, BankTypes, ListInv, Isr
  <1>10. CASE s = "io"
    <2>1. call[s] = Io
      BY <1>10 DEF Io
    <2>2. bankPower \in {"starting", "on", "stopping"} /\ (bankPower = "starting" <=> Io.name = "start")
      BY <1>7, <1>9, <2>1 DEF Sound, PowerInv
    <2>3. Io.name \in Locking /\ Io.todo[1].do # "acquire" => lock = "io" /\ Isr = G!Idle
      BY <1>6, <1>9, <2>1 DEF Sound, LockInv
    <2>4. QED
      BY <1>3, <1>4, <1>5, <1>7, <1>8, <1>10, <2>1, <2>2, <2>3
  <1>11. CASE s = "isr"
    <2>1. call[s] = Isr
      BY <1>11 DEF Isr
    <2>2. bankPower = "on" /\ lock = "isr" /\ Isr.name # "start"
      BY <1>7, <1>9, <2>1 DEF Sound, LockInv, IsrNames
    <2>3. QED
      BY <1>3, <1>4, <1>5, <1>7, <1>8, <1>9, <1>11, <2>1, <2>2
  <1>12. QED
    BY <1>10, <1>11, SidesAre

LEMMA AccessEdges ==
  ASSUME Sound, NEW s \in G!Sides, G!Access(s), NEW p \in Pins
  PROVE  /\ EoiDue(call[s]', p) => EoiDue(call[s], p)
         /\ EoiDue(call[s], p) /\ ~EoiDue(call[s]', p) => p \notin latched' /\ p \notin pending'
         /\ \/ (p \in latched' <=> p \in latched) /\ (p \in pending' <=> p \in pending)
            \/ EoiDue(call[s], p) /\ p \notin latched' /\ p \notin pending'
         /\ call[s].name = "enable" =>
              \A q \in Pins :
                /\ Hits(call[s], "IntMask", p) /\ ~Hits(call[s]', "IntMask", p) => ~EoiDue(call[s]', q)
                /\ EoiDue(call[s], p) /\ ~EoiDue(call[s]', p) => \A r \in Modes : ~Hits(call[s]', r, q)
         /\ pending' \subseteq pending
  <1>1. PICK k : Goes(s, call[s], call[s]', k)
    BY AccessSides
  <1>2. /\ Listed(call[s]) /\ Halves(call[s]) /\ Agree(call[s]) /\ type \in {"V1", "V2"}
        /\ reg \in [G!Registers -> SUBSET Pins]
    BY AccessSides
  <1>3. bankPower = "starting" <=> call[s].name = "start"
    BY AccessKeeps
  <1>4. pending' \subseteq pending
    BY <1>1 DEF Goes, StoresNow
  <1> DEFINE c == call[s]
             d == call[s]'
  <1>5. /\ EoiDue(d, p) => EoiDue(c, p)
        /\ EoiDue(c, p) /\ ~EoiDue(d, p) => p \notin latched' /\ p \notin pending'
        /\ \/ (p \in latched' <=> p \in latched) /\ (p \in pending' <=> p \in pending)
           \/ EoiDue(c, p) /\ p \notin latched' /\ p \notin pending'
        /\ c.name = "enable" =>
              \A q \in Pins :
                /\ Hits(c, "IntMask", p) /\ ~Hits(d, "IntMask", p) => ~EoiDue(d, q)
                /\ EoiDue(c, p) /\ ~EoiDue(d, p) => \A r \in Modes : ~Hits(d, r, q)
    <2>1. Goes(s, c, d, k) /\ Listed(c) /\ Halves(c) /\ (bankPower = "starting" <=> c.name = "start")
      BY <1>1, <1>2, <1>3
    <2> HIDE DEF c, d
    <2>2. QED
      BY <1>2, <2>1, EdgesMove
  <1>6. QED
    BY <1>4, <1>5

LEMMA RegistersAre == {"PortDR", "PortDDR", "IntEn", "IntMask", "IntType", "IntPolarity"} = G!Registers
  BY DEF G!Registers

LEMMA AccessMode ==
  ASSUME GpioInv, NEW s \in G!Sides, G!Access(s)
  PROVE  ModeInv'
  <1> USE DEF GpioInv
  <1>1. bankPower' = bankPower /\ use' = use /\ driven' = driven
    BY AccessKeeps
  <1>2. ASSUME NEW r \in G!Registers, NEW p \in Pins, NEW v, Settled(Io, Isr, reg, r, p, v)
        PROVE  Settled(Io', Isr', reg', r, p, v)
    BY <1>2, SettledOn
  <1>3. SUFFICES ASSUME bankPower # "D3", NEW p \in Pins PROVE ModeOf(p)'
    BY <1>1 DEF ModeInv
  <1>4. ModeOf(p)
    BY <1>3 DEF Values, ModeInv
  <1>5. /\ use[p].as = "in"  => Settled(Io', Isr', reg', "PortDDR", p, FALSE)
        /\ use[p].as = "out" => Settled(Io', Isr', reg', "PortDDR", p, TRUE) /\ Settled(Io', Isr', reg', "PortDR", p, p \in driven)
        /\ use[p].as = "irq" => /\ Settled(Io', Isr', reg', "PortDDR", p, FALSE)
                                /\ Settled(Io', Isr', reg', "IntType", p, use[p].edge)
                                /\ Settled(Io', Isr', reg', "IntPolarity", p, use[p].high)
    BY <1>2, <1>4, RegistersAre DEF ModeOf, Asked
  <1>6. QED
    BY <1>1, <1>5 DEF ModeOf, Asked

LEMMA AccessDrive ==
  ASSUME GpioInv, NEW s \in G!Sides, G!Access(s)
  PROVE  DriveInv'
  <1> USE DEF GpioInv
  <1>1. /\ bankPower' = bankPower /\ use' = use /\ driven' = driven
        /\ bankPower \in {"starting", "on", "stopping"} /\ (s = "isr" => bankPower = "on")
        /\ (s = "io" => call[s] = Io /\ call[s]' = Io' /\ Isr' = Isr)
    BY AccessKeeps
  <1>2. SUFFICES ASSUME bankPower = "starting", NEW p \in Pins, use[p].as = "out", p \in reg'["PortDDR"]
                 PROVE  p \in reg'["PortDR"] <=> p \in driven
    BY <1>1 DEF DriveInv
  <1>3. s = "io" /\ Isr = G!Idle
    <2>1. s = "io" /\ Isr.name = "none"
      BY <1>1, <1>2, SidesAre DEF Sound, LockInv
    <2>2. QED
      BY <2>1, SidesAre DEF Sound, ListInv, Isr
  <1>4. ModeOf(p)
    BY <1>2 DEF Values, ModeInv
  <1>5. Settled(Io', Isr', reg', "PortDR", p, p \in driven)
    BY <1>2, <1>4, RegistersAre, SettledOn DEF ModeOf, Asked
  <1>6. ~Hits(Isr', "PortDR", p)
    <2>1. G!Idle.todo = <<>>
      BY DEF G!Idle
    <2>2. QED
      BY <1>1, <1>3, <2>1, NothingLeft
  <1>7. CASE ~Hits(Io', "PortDR", p)
    BY <1>5, <1>6, <1>7 DEF Settled
  <1>8. CASE Hits(Io', "PortDR", p)
    <2>1. p \in reg'["PortDR"] <=> p \in reg["PortDR"]
      BY <1>1, <1>3, <1>8, RegistersAre, AccessBits
    <2>2. p \in reg'["PortDDR"] <=> p \in reg["PortDDR"]
      BY <1>1, <1>3, <1>8, RegistersAre, AccessBits
    <2>3. QED
      BY <1>2, <2>1, <2>2 DEF Values, DriveInv
  <1>9. QED
    BY <1>7, <1>8

LEMMA AccessEnable ==
  ASSUME GpioInv, NEW s \in G!Sides, G!Access(s)
  PROVE  EnableInv' /\ StartInv' /\ SavedInv' /\ UseInv'
  <1> USE DEF GpioInv
  <1>1. /\ bankPower' = bankPower /\ use' = use /\ driven' = driven /\ masked' = masked
        /\ bankPower \in {"starting", "on", "stopping"} /\ (s = "isr" => bankPower = "on" /\ Isr.name \in IsrNames)
        /\ Io'.name = Io.name /\ Io'.pins = Io.pins /\ Isr'.pins = Isr.pins
        /\ Mine(call[s])
        /\ \/ s = "io" /\ Isr' = Isr /\ call[s] = Io /\ call[s]' = Io'
           \/ s = "isr" /\ Io' = Io /\ call[s] = Isr /\ call[s]' = Isr'
    BY AccessKeeps
  <1>2. ASSUME NEW p \in Pins PROVE Holds(Io', reg', "IntEn", p, TRUE)
    <2>1. Holds(Io, reg, "IntEn", p, TRUE)
      BY <1>1 DEF Values, EnableInv
    <2>2. CASE s = "io"
      BY <1>1, <2>1, <2>2, RegistersAre, HoldsOn
    <2>3. CASE s = "isr"
      <3>1. "IntEn" \notin MayUse(Isr.name) /\ Mine(Isr) /\ Io' = Io
        BY <1>1, <2>3 DEF MayUse, IsrNames, Modes, Locking, Saving
      <3>2. ~Hits(call[s], "IntEn", p)
        BY <1>1, <2>3, <3>1, NotUsed
      <3>3. p \in reg'["IntEn"] <=> p \in reg["IntEn"]
        BY <3>2, RegistersAre, AccessBits
      <3>4. QED
        BY <2>1, <3>1, <3>3 DEF Holds
    <2>4. QED
      BY <2>2, <2>3, SidesAre
  <1>3. ASSUME bankPower = "starting", NEW p \in Pins
        PROVE  Holds(Io', reg', "IntMask", p, use[p].as = "irq" => p \in masked)
    <2>1. s = "io"
      BY <1>1, <1>3, SidesAre
    <2>2. Holds(Io, reg, "IntMask", p, use[p].as = "irq" => p \in masked)
      BY <1>3 DEF Values, StartInv
    <2>3. QED
      BY <1>1, <2>1, <2>2, RegistersAre, HoldsOn
  <1>4. EnableInv'
    BY <1>1, <1>2 DEF EnableInv
  <1>5. StartInv'
    BY <1>1, <1>3 DEF StartInv
  <1>6. SavedInv'
    BY <1>1 DEF SavedInv
  <1>7. pending' \subseteq pending
    <2>1. PICK k : Goes(s, call[s], call[s]', k)
      BY AccessSides
    <2>2. QED
      BY <2>1 DEF Goes, StoresNow
  <1>8. UseInv'
    BY <1>1, <1>7 DEF Values, UseInv
  <1>9. QED
    BY <1>4, <1>5, <1>6, <1>8

\* Whether a line raises levels or edges does not change while its mask bit is at stake.
LEMMA AccessType ==
  ASSUME GpioInv, NEW s \in G!Sides, G!Access(s), NEW p \in Pins, use[p].as = "irq", bankPower # "starting",
         ~Dirty(p), Isr.name = "active"
  PROVE  p \in reg'["IntType"] <=> p \in reg["IntType"]
  <1> USE DEF GpioInv
  <1>1. ~Hits(Io, "IntType", p)
    BY DEF Values, EdgeInv, EdgeOf
  <1>2. ~Hits(Isr, "IntType", p)
    <2>1. Mine(Isr)
      BY SidesAre DEF Sound, ListInv, Listed, Isr
    <2>2. "IntType" \notin MayUse(Isr.name)
      BY DEF MayUse, Saving
    <2>3. QED
      BY <2>1, <2>2, NotUsed
  <1>3. ~Hits(call[s], "IntType", p)
    BY <1>1, <1>2, AccessKeeps
  <1>4. QED
    BY <1>3, RegistersAre, AccessBits

LEMMA AccessThen ==
  ASSUME GpioInv, NEW s \in G!Sides, G!Access(s), NEW p \in Pins, use[p].as = "irq", bankPower # "starting",
         ~Dirty(p)
  PROVE  MaskedThen(p)' <=> MaskedThen(p)
  <1>1. masked' = masked /\ use' = use /\ Isr'.name = Isr.name /\ Isr'.pins = Isr.pins
    BY AccessKeeps DEF GpioInv
  <1>2. Isr.name = "active" => (p \in reg'["IntType"] <=> p \in reg["IntType"])
    BY AccessType
  <1>3. QED
    BY <1>1, <1>2 DEF MaskedThen

\* What the interrupt callback makes of the mask.
LEMMA AccessServed ==
  ASSUME GpioInv, NEW s \in G!Sides, G!Access(s), NEW p \in Pins, use[p].as = "irq", bankPower # "starting",
         ~Dirty(p), Holds(Isr, reg, "IntMask", p, MaskedThen(p)),
         s = "io" => (p \in reg'["IntMask"] <=> p \in reg["IntMask"])
  PROVE  Holds(Isr', reg', "IntMask", p, MaskedThen(p)')
  <1>1. MaskedThen(p)' <=> MaskedThen(p)
    BY AccessThen
  <1>2. Holds(Isr', reg', "IntMask", p, MaskedThen(p))
    <2>1. CASE s = "io"
      <3>1. Isr' = Isr
        BY <2>1, AccessKeeps DEF GpioInv
      <3>2. QED
        BY <2>1, <3>1 DEF Holds
    <2>2. CASE s = "isr"
      <3>1. call[s] = Isr /\ call[s]' = Isr'
        BY <2>2, AccessKeeps DEF GpioInv
      <3>2. QED
        BY <2>2, <3>1, RegistersAre, HoldsOn DEF GpioInv
    <2>3. QED
      BY <2>1, <2>2, SidesAre
  <1>3. QED
    BY <1>1, <1>2 DEF Holds, Gives

LEMMA AccessMask ==
  ASSUME GpioInv, NEW s \in G!Sides, G!Access(s)
  PROVE  MaskInv'
  <1> USE DEF GpioInv
  <1>1. /\ bankPower' = bankPower /\ use' = use /\ masked' = masked
        /\ bankPower \in {"starting", "on", "stopping"} /\ (bankPower = "starting" <=> call[s].name = "start")
        /\ Io'.name = Io.name /\ Io'.pins = Io.pins /\ Isr'.pins = Isr.pins /\ Mine(call[s])
        /\ \/ s = "io" /\ Isr' = Isr /\ call[s] = Io /\ call[s]' = Io'
           \/ s = "isr" /\ Io' = Io /\ call[s] = Isr /\ call[s]' = Isr'
    BY AccessKeeps
  <1>2. SUFFICES ASSUME bankPower \in {"on", "stopping", "F1"}, NEW p \in Pins PROVE MaskOf(p)'
    BY <1>1 DEF MaskInv
  <1>3. bankPower # "starting" /\ MaskOf(p) /\ UseInv /\ call[s].name # "start"
    BY <1>1, <1>2 DEF Values, MaskInv
  <1>4. p \notin call[s].pins => (p \in reg'["IntMask"] <=> p \in reg["IntMask"])
    BY <1>1, <1>3, NotMine, RegistersAre, AccessBits
  <1>5. ~Hits(call[s], "IntMask", p) => (p \in reg'["IntMask"] <=> p \in reg["IntMask"])
    BY RegistersAre, AccessBits
  <1>6. CASE use[p].as # "irq"
    <2>1. p \in reg["IntMask"] /\ p \notin Isr.pins
      BY <1>3, <1>6 DEF MaskOf, UseInv
    <2>2. ~Hits(call[s], "IntMask", p)
      <3>1. CASE s = "isr"
        BY <1>1, <1>3, <2>1, <3>1, NotMine
      <3>2. CASE s = "io" /\ Io.name \in Locking
        <4>1. p \notin Io.pins
          BY <1>3, <1>6, <3>2 DEF UseInv
        <4>2. QED
          BY <1>1, <1>3, <3>2, <4>1, NotMine
      <3>3. CASE s = "io" /\ Io.name \notin Locking
        <4>1. CASE Io.name \in Saving
          <5>1. \A i \in Places(Io) : Io.todo[i].do # "store"
            BY <1>1, <3>3, <4>1 DEF Mine
          <5>2. QED
            BY <1>1, <3>3, <5>1 DEF Hits, Sets, IsStore
        <4>2. CASE Io.name \notin Saving
          <5>1. Io.name \in IoNames
            BY DEF Sound, BankTypes
          <5>2. "IntMask" \notin MayUse(Io.name)
            BY <1>1, <1>3, <3>3, <4>2, <5>1 DEF MayUse, IoNames, Saving, Locking, Modes
          <5>3. QED
            BY <1>1, <3>3, <5>2, NotUsed
        <4>3. QED
          BY <4>1, <4>2
      <3>4. QED
        BY <3>1, <3>2, <3>3, SidesAre
    <2>3. QED
      BY <1>1, <1>5, <1>6, <2>1, <2>2 DEF MaskOf
  <1>7. CASE use[p].as = "irq"
    <2>0. /\ Hits(call[s]', "IntMask", p) => (p \in reg'["IntMask"] <=> p \in reg["IntMask"])
          /\ Hits(call[s]', "IntMask", p) => Hits(call[s], "IntMask", p)
          /\ \A v : /\ Gives(call[s], "IntMask", p, v) => Gives(call[s]', "IntMask", p, v)
                    /\ Hits(call[s], "IntMask", p) /\ ~Hits(call[s]', "IntMask", p) /\ Gives(call[s], "IntMask", p, v)
                         => (p \in reg'["IntMask"] <=> v)
      BY <1>3, RegistersAre, AccessBits
    <2> SUFFICES NotEnabled(p)' \/ Enabled(p)' \/ NotDisabled(p)' \/ Disabled(p)' \/ InUse(p)'
      BY <1>1, <1>7 DEF MaskOf
    <2>1. CASE NotEnabled(p)
      <3>1. Enabling(p)' /\ p \notin masked' /\ p \notin Isr'.pins
        BY <1>1, <2>1 DEF NotEnabled, Enabling
      <3>2. CASE s = "isr"
        <4>1. p \in reg'["IntMask"]
          BY <1>1, <1>4, <2>1, <3>2 DEF NotEnabled
        <4>2. NotEnabled(p)'
          BY <1>1, <2>1, <3>1, <3>2, <4>1 DEF NotEnabled
        <4>3. QED
          BY <4>2
      <3>3. CASE s = "io" /\ Hits(Io', "IntMask", p)
        <4>1. p \in reg'["IntMask"] /\ Gives(Io', "IntMask", p, FALSE)
          BY <1>1, <2>0, <2>1, <3>3 DEF NotEnabled
        <4>2. NotEnabled(p)'
          BY <3>1, <3>3, <4>1 DEF NotEnabled
        <4>3. QED
          BY <4>2
      <3>4. CASE s = "io" /\ ~Hits(Io', "IntMask", p)
        <4>1. p \notin reg'["IntMask"]
          BY <1>1, <2>0, <2>1, <3>4 DEF NotEnabled
        <4>2. ~EoiDue(Io', p)
          BY <1>1, <2>1, <3>4, AccessEdges DEF NotEnabled, Enabling
        <4>3. ~MaskedThen(p)'
          BY <3>1 DEF MaskedThen
        <4>4. Mine(Isr) /\ Isr.name # "start" /\ p \notin Isr.pins
          BY <2>1, SidesAre DEF Sound, ListInv, Listed, Isr, BankTypes, IsrNames, NotEnabled
        <4>5. \A v : Gives(Isr, "IntMask", p, v)
          BY <4>4, NotMine
        <4>6. Holds(Isr', reg', "IntMask", p, MaskedThen(p)')
          BY <1>1, <3>4, <4>1, <4>3, <4>5 DEF Holds
        <4>7. Enabled(p)'
          BY <3>1, <3>4, <4>2, <4>6 DEF Enabled
        <4>8. QED
          BY <4>7
      <3>5. QED
        BY <3>2, <3>3, <3>4, SidesAre
    <2>2. CASE Enabled(p)
      <3>1. ~Dirty(p) /\ Holds(Isr, reg, "IntMask", p, MaskedThen(p)) /\ Enabling(p)'
        BY <1>1, <2>2 DEF Enabled, Dirty, Enabling
      <3>2. ~Hits(Io', "IntMask", p) /\ ~EoiDue(Io', p)
        BY <1>1, <2>0, <2>2, AccessEdges DEF Enabled
      <3>3. s = "io" => (p \in reg'["IntMask"] <=> p \in reg["IntMask"])
        BY <1>1, <1>5, <2>2 DEF Enabled
      <3>4. Holds(Isr', reg', "IntMask", p, MaskedThen(p)')
        BY <1>3, <1>7, <3>1, <3>3, AccessServed
      <3>5. Enabled(p)'
        BY <3>1, <3>2, <3>4 DEF Enabled
      <3>6. QED
        BY <3>5
    <2>3. CASE NotDisabled(p)
      <3>1. ~Dirty(p) /\ Holds(Isr, reg, "IntMask", p, MaskedThen(p)) /\ Disabling(p)'
        BY <1>1, <2>3 DEF NotDisabled, Disabling, Dirty, Enabling
      <3>2. CASE s = "isr" \/ Hits(Io', "IntMask", p)
        <4>1. s = "io" => (p \in reg'["IntMask"] <=> p \in reg["IntMask"])
          BY <1>1, <2>0, <3>2, SidesAre
        <4>2. Holds(Isr', reg', "IntMask", p, MaskedThen(p)')
          BY <1>3, <1>7, <3>1, <4>1, AccessServed
        <4>3. Hits(Io', "IntMask", p) /\ Gives(Io', "IntMask", p, TRUE)
          BY <1>1, <2>0, <2>3, <3>2 DEF NotDisabled
        <4>4. NotDisabled(p)'
          BY <3>1, <4>2, <4>3 DEF NotDisabled
        <4>5. QED
          BY <4>4
      <3>3. CASE s = "io" /\ ~Hits(Io', "IntMask", p)
        <4>1. p \in reg'["IntMask"]
          BY <1>1, <2>0, <2>3, <3>3 DEF NotDisabled
        <4>2. Io.name \in Locking /\ Io.todo[1].do # "acquire"
          <5>1. PICK k : Goes("io", Io, Io', k)
            BY <3>3, AccessSides
          <5>2. Halves(Io) /\ type \in {"V1", "V2"} /\ Hits(Io, "IntMask", p)
            BY <2>3, SidesAre DEF Sound, ListInv, BankTypes, Io, NotDisabled
          <5>3. LastSets(Io, 1, "IntMask", p)
            BY <3>3, <5>1, <5>2, HitsMove
          <5>4. QED
            BY <2>3, <5>3 DEF LastSets, Sets, IsStore, NotDisabled, Disabling, Locking
        <4>3. Isr = G!Idle
          BY <3>3, <4>2, AccessKeeps
        <4>4. p \notin Isr'.pins
          BY <1>1, <4>3 DEF G!Idle
        <4>5. Disabled(p)'
          BY <3>1, <3>3, <4>1, <4>4 DEF Disabled
        <4>6. QED
          BY <4>5
      <3>4. QED
        BY <3>2, <3>3, SidesAre
    <2>4. CASE Disabled(p)
      <3>1. ~Hits(call[s], "IntMask", p)
        <4>1. CASE s = "io"
          BY <1>1, <2>4, <4>1 DEF Disabled
        <4>2. CASE s = "isr"
          BY <1>1, <1>3, <2>4, <4>2, NotMine DEF Disabled
        <4>3. QED
          BY <4>1, <4>2, SidesAre
      <3>2. p \in reg'["IntMask"] /\ p \notin Isr'.pins /\ Disabling(p)'
        BY <1>1, <1>5, <2>4, <3>1 DEF Disabled, Disabling
      <3>3. ~Hits(Io', "IntMask", p)
        BY <1>1, <2>0, <2>4 DEF Disabled
      <3>4. Disabled(p)'
        BY <3>2, <3>3 DEF Disabled
      <3>5. QED
        BY <3>4
    <2>5. CASE InUse(p)
      <3>1. ~Dirty(p) /\ Holds(Isr, reg, "IntMask", p, MaskedThen(p)) /\ p \notin Io'.pins
        BY <1>1, <2>5 DEF InUse, Dirty, Enabling
      <3>2. s = "io" => (p \in reg'["IntMask"] <=> p \in reg["IntMask"])
        BY <1>1, <1>4, <2>5 DEF InUse
      <3>3. Holds(Isr', reg', "IntMask", p, MaskedThen(p)')
        BY <1>3, <1>7, <3>1, <3>2, AccessServed
      <3>4. InUse(p)'
        BY <3>1, <3>3 DEF InUse
      <3>5. QED
        BY <3>4
    <2>6. MaskOf(p) /\ use[p].as = "irq"
      BY <1>3, <1>7
    <2>7. QED
      BY <2>1, <2>2, <2>3, <2>4, <2>5, <2>6 DEF MaskOf
  <1>8. QED
    BY <1>6, <1>7

LEMMA AccessEdge ==
  ASSUME GpioInv, NEW s \in G!Sides, G!Access(s)
  PROVE  EdgeInv'
  <1> USE DEF GpioInv
  <1>1. /\ bankPower' = bankPower /\ use' = use
        /\ Io'.name = Io.name /\ Io'.pins = Io.pins
        /\ (bankPower = "starting" <=> call[s].name = "start")
        /\ \/ s = "io" /\ Isr' = Isr /\ call[s] = Io /\ call[s]' = Io'
           \/ s = "isr" /\ Io' = Io /\ call[s] = Isr /\ call[s]' = Isr'
    BY AccessKeeps
  <1> SUFFICES ASSUME NEW p \in Pins PROVE EdgeOf(p)'
    BY DEF EdgeInv
  <1>2. EdgeOf(p)
    BY DEF Values, EdgeInv
  <1>3. Enabling(p)' <=> Enabling(p)
    BY <1>1 DEF Enabling
  <1>4. \/ (p \in latched' <=> p \in latched) /\ (p \in pending' <=> p \in pending) /\ (EoiDue(Io, p) => EoiDue(Io', p))
        \/ p \notin latched' /\ p \notin pending'
    <2>1. CASE s = "io"
      BY <1>1, <2>1, AccessEdges
    <2>2. CASE s = "isr"
      BY <1>1, <2>2, AccessEdges
    <2>3. QED
      BY <2>1, <2>2, SidesAre
  <1>5. ASSUME NEW r \in {"IntType", "IntPolarity"}
        PROVE  /\ Hits(Io', r, p) => Hits(Io, r, p) /\ (Dirty(p) => Dirty(p)')
               /\ Hits(Isr', r, p) => Hits(Isr, r, p)
    <2>1. Hits(call[s]', r, p) => Hits(call[s], r, p)
      BY RegistersAre, AccessBits
    <2>2. CASE s = "io"
      <3>1. ASSUME Hits(Io', r, p), Dirty(p) PROVE Dirty(p)'
        <4>1. call[s].name = "enable" /\ EoiDue(call[s], p)
          BY <1>1, <2>2, <3>1 DEF Dirty, Enabling
        <4>2. r \in Modes
          BY DEF Modes
        <4>3. EoiDue(call[s]', p)
          BY <1>1, <2>2, <3>1, <4>1, <4>2, AccessEdges
        <4>4. QED
          BY <1>1, <1>3, <2>2, <3>1, <4>3 DEF Dirty
      <3>2. QED
        BY <1>1, <2>1, <2>2, <3>1
    <2>3. CASE s = "isr"
      BY <1>1, <1>3, <2>1, <2>3 DEF Dirty
    <2>4. QED
      BY <2>2, <2>3, SidesAre
  <1>6. p \in pending' /\ ~use[p].both => p \in latched' \/ Dirty(p)'
    BY <1>2, <1>3, <1>4 DEF EdgeOf, Dirty
  <1>7. use[p].as = "irq" /\ use[p].edge /\ p \in latched' => p \in pending' \/ Dirty(p)'
    BY <1>2, <1>3, <1>4 DEF EdgeOf, Dirty
  <1>8. use[p].as = "irq" /\ bankPower # "starting" =>
          \A r \in {"IntType", "IntPolarity"} : (Hits(Io', r, p) => Dirty(p)') /\ (Hits(Isr', r, p) => use[p].both)
    BY <1>2, <1>5 DEF EdgeOf
  <1>9. QED
    BY <1>1, <1>6, <1>7, <1>8 DEF EdgeOf

\* A start masks every line, or restores what the lines detect, before a line can interrupt.
LEMMA AccessQuiet ==
  ASSUME GpioInv, NEW s \in G!Sides, G!Access(s)
  PROVE  QuietInv'
  <1> USE DEF GpioInv
  <1>1. /\ bankPower' = bankPower /\ bankSaved' = bankSaved /\ use' = use
        /\ bankPower \in {"starting", "on", "stopping"} /\ (s = "isr" => bankPower = "on")
        /\ (bankPower = "starting" <=> call[s].name = "start")
        /\ (s = "io" => call[s] = Io /\ call[s]' = Io' /\ Isr' = Isr)
    BY AccessKeeps
  <1>2. SUFFICES ASSUME bankPower = "starting", NEW p \in Pins, use[p].as = "irq" PROVE QuietOf(p)'
    <2>1. QuietInv
      BY DEF Values
    <2>2. QED
      BY <1>1, <2>1 DEF QuietInv
  <1>3. s = "io" /\ Isr = G!Idle /\ call[s] = Io /\ call[s]' = Io' /\ Io.name = "start"
    <2>1. s = "io" /\ Isr.name = "none"
      BY <1>1, <1>2, SidesAre DEF Sound, LockInv
    <2>2. QED
      BY <1>1, <1>2, <2>1, SidesAre DEF Sound, ListInv, Isr
  <1>4. PICK k : Goes(s, Io, Io', k)
    BY <1>3, AccessSides
  <1>5. /\ Listed(Io) /\ Halves(Io) /\ Agree(Io) /\ type \in {"V1", "V2"}
        /\ reg \in [G!Registers -> SUBSET Pins]
    BY <1>3, AccessSides
  <1> DEFINE a == Io.todo[1]
  <1>6. \A r \in G!Registers, q \in Pins :
          q \in reg'[r] <=> IF Sets(a, r, q) /\ q \in G!Half(a) THEN q \in a.set ELSE q \in reg[r]
    BY <1>4, <1>5, StoreBit DEF Listed
  <1>7. 1 \in Places(Io)
    BY <1>4, <1>5, ListOnward
  <1>8. \A i : ~Hits(Isr, "IntType", i) /\ ~Hits(Isr', "IntType", i)
    <2>1. G!Idle.todo = <<>>
      BY DEF G!Idle
    <2>2. QED
      BY <1>1, <1>3, <2>1, NothingLeft
  <1>9. /\ ~Hits(Io, "IntType", p) => (p \in reg["IntType"] <=> use[p].edge)
        /\ ~Hits(Io', "IntType", p) => (p \in reg'["IntType"] <=> use[p].edge)
    <2>1. Settled(Io, Isr, reg, "IntType", p, use[p].edge)
      BY <1>2 DEF Values, ModeInv, ModeOf, Asked
    <2>2. Settled(Io', Isr', reg', "IntType", p, use[p].edge)
      BY <2>1, RegistersAre, SettledOn
    <2>3. QED
      BY <1>8, <2>1, <2>2 DEF Settled
  <1>10. CASE p \in reg["IntType"] <=> use[p].edge
    <2>1. Hits(Io', "IntType", p) => (p \in reg'["IntType"] <=> p \in reg["IntType"])
      BY <1>3, RegistersAre, AccessBits
    <2>2. p \in reg'["IntType"] <=> use[p].edge
      BY <1>9, <1>10, <2>1
    <2>3. QED
      BY <1>1, <2>2 DEF QuietOf
  <1>11. CASE p \in reg["IntMask"] /\ ~(p \in reg["IntType"] <=> use[p].edge)
    <2>1. PICK i \in Places(Io) : Sets(Io.todo[i], "IntType", p)
      BY <1>9, <1>11 DEF Hits
    <2>2. SUFFICES ASSUME p \notin reg'["IntMask"] PROVE FALSE
      BY DEF QuietOf
    <2>3. Sets(a, "IntMask", p) /\ p \notin a.set
      BY <1>6, <1>11, <2>2, RegistersAre
    <2>4. i < 1
      <3>1. a.set # Pins /\ a.do = "store" /\ a.reg = "IntMask"
        BY <2>3 DEF Sets, IsStore
      <3>2. Io.todo[i].do = "store" /\ Io.todo[i].reg = "IntType"
        BY <2>1 DEF Sets, IsStore
      <3>3. QED
        BY <1>3, <1>5, <1>7, <3>1, <3>2 DEF Listed, Ordered
    <2>5. QED
      BY <2>4 DEF Places
  <1>12. CASE p \notin reg["IntEn"] /\ FirstMask(Io, p)
    <2>1. Sets(a, "IntMask", p) /\ a.set = Pins /\ a.do = "store" /\ a.reg = "IntMask" /\ p \in Reach(a)
      BY <1>12 DEF FirstMask, Sets, IsStore
    <2>2. CASE p \in G!Half(a)
      <3>1. p \in reg'["IntMask"]
        BY <1>6, <2>1, <2>2, RegistersAre
      <3>2. QED
        BY <3>1 DEF QuietOf
    <2>3. CASE p \notin G!Half(a)
      <3>1. /\ k = 1 => G!Half(a) = Reach(a)
            /\ k = 0 => /\ G!Half(a) = Pins \ UpperPins /\ 1 \in Places(Io') /\ Same(Io'.todo[1], a)
                        /\ Reach(Io'.todo[1]) = UpperPins
            /\ k \in {0, 1}
        BY <1>4, <1>5, <2>1, HalfIs
      <3>2. k = 0 /\ p \in UpperPins
        BY <2>1, <2>3, <3>1
      <3>3. FirstMask(Io', p)
        BY <2>1, <3>1, <3>2 DEF FirstMask, Same, Sets, IsStore
      <3>4. p \notin reg'["IntEn"]
        BY <1>6, <1>12, <2>1, RegistersAre DEF Sets, IsStore
      <3>5. QED
        BY <3>3, <3>4 DEF QuietOf
    <2>4. QED
      BY <2>2, <2>3
  <1>13. QuietOf(p)
    BY <1>2 DEF Values, QuietInv
  <1>14. QED
    BY <1>2, <1>10, <1>11, <1>12, <1>13 DEF QuietOf

LEMMA AccessKept ==
  ASSUME GpioInv, NEW s \in G!Sides, G!Access(s)
  PROVE  GpioInv'
  <1>1. Sound'
    BY AccessSound DEF GpioInv
  <1>2. Values'
    BY AccessMode, AccessDrive, AccessEnable, AccessMask, AccessQuiet, AccessEdge DEF Values
  <1>3. QED
    BY <1>1, <1>2 DEF GpioInv

-----------------------------------------------------------------------------
(* The lists of the callbacks.                                             *)

Stores(a, r, set, clear) == a.do = "store" /\ a.reg = r /\ a.set = set /\ a.clear = clear /\ ~a.rest

LEMMA ListsJoined ==
  ASSUME NEW s \in Seq(Accesses), NEW t \in Seq(Accesses)
  PROVE  /\ s \o t \in Seq(Accesses) /\ Len(s \o t) = Len(s) + Len(t) /\ Len(s) \in Nat /\ Len(t) \in Nat
         /\ \A i \in 1 .. Len(s) : (s \o t)[i] = s[i]
         /\ \A i \in 1 .. Len(t) : (s \o t)[Len(s) + i] = t[i]
  <1>1. /\ s \o t \in Seq(Accesses) /\ Len(s \o t) = Len(s) + Len(t) /\ Len(s) \in Nat /\ Len(t) \in Nat
        /\ \A i \in 1 .. Len(s) + Len(t) : (s \o t)[i] = IF i <= Len(s) THEN s[i] ELSE t[i - Len(s)]
    BY ConcatProperties, LenProperties
  <1>2. ASSUME NEW i \in 1 .. Len(s) PROVE (s \o t)[i] = s[i]
    BY <1>1
  <1>3. ASSUME NEW i \in 1 .. Len(t) PROVE (s \o t)[Len(s) + i] = t[i]
    <2>1. Len(s) + i \in 1 .. Len(s) + Len(t) /\ ~(Len(s) + i <= Len(s)) /\ (Len(s) + i) - Len(s) = i
      BY <1>1
    <2>2. (s \o t)[Len(s) + i] = t[(Len(s) + i) - Len(s)]
      BY <1>1, <2>1
    <2>3. QED
      BY <2>1, <2>2
  <1>4. QED
    BY <1>1, <1>2, <1>3

\* Accesses of a list.
LEMMA ListAccess ==
  /\ G!Acquire \in Accesses /\ G!Acquire.do = "acquire" /\ G!Release \in Accesses /\ G!Release.do = "release"
  /\ \A r \in G!Registers : G!Load(r) \in Accesses /\ IsLoad(G!Load(r), r)
  /\ \A r \in G!Registers \cup {"PortEOI"}, set, clear \in SUBSET Pins :
       G!Store(r, set, clear) \in Accesses /\ Stores(G!Store(r, set, clear), r, set, clear)
  BY DEF Accesses, StoreAccesses, Stores, IsLoad, G!Acquire, G!Release, G!Load, G!Store

LEMMA ChangeIs ==
  ASSUME NEW r \in G!Registers, NEW set \in SUBSET Pins, NEW clear \in SUBSET Pins
  PROVE  LET t == G!Change(r, set, clear)
         IN  t \in Seq(Accesses) /\ Len(t) = 2 /\ IsLoad(t[1], r) /\ Stores(t[2], r, set, clear)
  <1> DEFINE a == G!Load(r)
             b == G!Store(r, set, clear)
  <1>1. a \in Accesses /\ b \in Accesses /\ IsLoad(a, r) /\ Stores(b, r, set, clear)
    BY ListAccess
  <1>2. G!Change(r, set, clear) = <<a, b>>
    BY DEF G!Change
  <1> HIDE DEF a, b
  <1>3. <<a, b>> \in Seq(Accesses) /\ Len(<<a, b>>) = 2 /\ <<a, b>>[1] = a /\ <<a, b>>[2] = b
    BY <1>1
  <1>4. QED
    BY <1>1, <1>2, <1>3

LEMMA AssignIs ==
  ASSUME NEW r \in G!Registers, NEW pins \in SUBSET Pins, NEW on
  PROVE  LET t == G!Assign(r, pins, on)
         IN  t \in Seq(Accesses) /\ Len(t) = 2 /\ IsLoad(t[1], r) /\ Stores(t[2], r, IF on THEN pins ELSE {}, pins)
  <1>1. (IF on THEN pins ELSE {}) \in SUBSET Pins
    OBVIOUS
  <1> DEFINE set == IF on THEN pins ELSE {}
  <1>2. G!Assign(r, pins, on) = G!Change(r, set, pins)
    BY DEF G!Assign
  <1> HIDE DEF set
  <1>3. QED
    BY <1>1, <1>2, ChangeIs DEF set

LEMMA ModeIs ==
  ASSUME NEW p \in Pins, NEW c
  PROVE  LET t == G!SetMode(p, c)
         IN  /\ t \in Seq(Accesses) /\ Len(t) = 6
             /\ IsLoad(t[1], "PortDDR")     /\ Stores(t[2], "PortDDR", {}, {p})
             /\ IsLoad(t[3], "IntType")     /\ Stores(t[4], "IntType", IF c.edge THEN {p} ELSE {}, {p})
             /\ IsLoad(t[5], "IntPolarity") /\ Stores(t[6], "IntPolarity", IF c.high THEN {p} ELSE {}, {p})
  <1> DEFINE x == G!Assign("PortDDR", {p}, FALSE)
             y == G!Assign("IntType", {p}, c.edge)
             z == G!Assign("IntPolarity", {p}, c.high)
  <1>0. {p} \in SUBSET Pins /\ "PortDDR" \in G!Registers /\ "IntType" \in G!Registers /\ "IntPolarity" \in G!Registers
    BY RegistersAre
  <1>1. x \in Seq(Accesses) /\ Len(x) = 2 /\ IsLoad(x[1], "PortDDR") /\ Stores(x[2], "PortDDR", {}, {p})
    BY <1>0, AssignIs
  <1>2. y \in Seq(Accesses) /\ Len(y) = 2 /\ IsLoad(y[1], "IntType") /\ Stores(y[2], "IntType", IF c.edge THEN {p} ELSE {}, {p})
    BY <1>0, AssignIs
  <1>3. z \in Seq(Accesses) /\ Len(z) = 2 /\ IsLoad(z[1], "IntPolarity") /\ Stores(z[2], "IntPolarity", IF c.high THEN {p} ELSE {}, {p})
    BY <1>0, AssignIs
  <1>4. G!SetMode(p, c) = (x \o y) \o z
    BY DEF G!SetMode
  <1> HIDE DEF x, y, z
  <1> DEFINE u == x \o y
  <1>5. u \in Seq(Accesses) /\ Len(u) = 4 /\ u[1] = x[1] /\ u[2] = x[2] /\ u[2 + 1] = y[1] /\ u[2 + 2] = y[2]
    <2>1. /\ x \o y \in Seq(Accesses) /\ Len(x \o y) = Len(x) + Len(y)
          /\ \A i \in 1 .. Len(x) : (x \o y)[i] = x[i]
          /\ \A i \in 1 .. Len(y) : (x \o y)[Len(x) + i] = y[i]
      BY <1>1, <1>2, ListsJoined
    <2>2. 1 \in 1 .. 2 /\ 2 \in 1 .. 2 /\ 2 + 2 = 4
      OBVIOUS
    <2>3. QED
      BY <1>1, <1>2, <2>1, <2>2
  <1> HIDE DEF u
  <1>6. /\ u \o z \in Seq(Accesses) /\ Len(u \o z) = 6
        /\ (u \o z)[1] = u[1] /\ (u \o z)[2] = u[2] /\ (u \o z)[3] = u[3] /\ (u \o z)[4] = u[4]
        /\ (u \o z)[4 + 1] = z[1] /\ (u \o z)[4 + 2] = z[2]
    <2>1. /\ u \o z \in Seq(Accesses) /\ Len(u \o z) = Len(u) + Len(z)
          /\ \A i \in 1 .. Len(u) : (u \o z)[i] = u[i]
          /\ \A i \in 1 .. Len(z) : (u \o z)[Len(u) + i] = z[i]
      BY <1>3, <1>5, ListsJoined
    <2>2. 1 \in 1 .. 4 /\ 2 \in 1 .. 4 /\ 3 \in 1 .. 4 /\ 4 \in 1 .. 4 /\ 1 \in 1 .. 2 /\ 2 \in 1 .. 2 /\ 4 + 2 = 6
      OBVIOUS
    <2>3. QED
      BY <1>3, <1>5, <2>1, <2>2
  <1>7. 2 + 1 = 3 /\ 2 + 2 = 4 /\ 4 + 1 = 5 /\ 4 + 2 = 6
    OBVIOUS
  <1>8. QED
    BY <1>1, <1>2, <1>3, <1>4, <1>5, <1>6, <1>7 DEF u

\* A list and what comes behind it.
LEMMA JoinedOne ==
  ASSUME NEW s \in Seq(Accesses), NEW t \in Seq(Accesses), Len(t) = 1
  PROVE  /\ s \o t \in Seq(Accesses) /\ Len(s \o t) = Len(s) + 1
         /\ \A i \in 1 .. Len(s) : (s \o t)[i] = s[i]
         /\ (s \o t)[Len(s) + 1] = t[1]
  <1>1. /\ s \o t \in Seq(Accesses) /\ Len(s \o t) = Len(s) + Len(t)
        /\ \A i \in 1 .. Len(s) : (s \o t)[i] = s[i]
        /\ \A i \in 1 .. Len(t) : (s \o t)[Len(s) + i] = t[i]
    BY ListsJoined
  <1>2. 1 \in 1 .. 1
    OBVIOUS
  <1>3. QED
    BY <1>1, <1>2

LEMMA JoinedTwo ==
  ASSUME NEW s \in Seq(Accesses), NEW t \in Seq(Accesses), Len(t) = 2
  PROVE  /\ s \o t \in Seq(Accesses) /\ Len(s \o t) = Len(s) + 2
         /\ \A i \in 1 .. Len(s) : (s \o t)[i] = s[i]
         /\ (s \o t)[Len(s) + 1] = t[1] /\ (s \o t)[Len(s) + 2] = t[2]
  <1>1. /\ s \o t \in Seq(Accesses) /\ Len(s \o t) = Len(s) + Len(t)
        /\ \A i \in 1 .. Len(s) : (s \o t)[i] = s[i]
        /\ \A i \in 1 .. Len(t) : (s \o t)[Len(s) + i] = t[i]
    BY ListsJoined
  <1>2. 1 \in 1 .. 2 /\ 2 \in 1 .. 2
    OBVIOUS
  <1>3. QED
    BY <1>1, <1>2

\* An access in front of a list.
LEMMA JoinedBehind ==
  ASSUME NEW s \in Seq(Accesses), NEW t \in Seq(Accesses), Len(s) = 1
  PROVE  /\ s \o t \in Seq(Accesses) /\ Len(s \o t) = Len(t) + 1
         /\ \A i \in 1 .. Len(t) : (s \o t)[i + 1] = t[i]
         /\ (s \o t)[1] = s[1]
  <1>1. /\ s \o t \in Seq(Accesses) /\ Len(s \o t) = Len(s) + Len(t) /\ Len(t) \in Nat
        /\ \A i \in 1 .. Len(s) : (s \o t)[i] = s[i]
        /\ \A i \in 1 .. Len(t) : (s \o t)[Len(s) + i] = t[i]
    BY ListsJoined
  <1>2. ASSUME NEW i \in 1 .. Len(t) PROVE (s \o t)[i + 1] = t[i]
    <2>1. Len(s) + i = i + 1
      BY <1>1
    <2>2. (s \o t)[Len(s) + i] = t[i]
      BY <1>1
    <2>3. QED
      BY <2>1, <2>2
  <1>3. (s \o t)[1] = s[1] /\ Len(s \o t) = Len(t) + 1
    <2>1. 1 \in 1 .. Len(s)
      OBVIOUS
    <2>2. (s \o t)[1] = s[1]
      BY <1>1, <2>1
    <2>3. Len(s) + Len(t) = Len(t) + 1
      BY <1>1
    <2>4. QED
      BY <1>1, <2>2, <2>3
  <1>4. QED
    BY <1>1, <1>2, <1>3

LEMMA Single ==
  ASSUME NEW a \in Accesses
  PROVE  <<a>> \in Seq(Accesses) /\ Len(<<a>>) = 1 /\ <<a>>[1] = a
  OBVIOUS

\* EnableInterrupt.
Enables(t, p, c) ==
  /\ t \in Seq(Accesses) /\ Len(t) = 11
  /\ t[1].do = "acquire"
  /\ IsLoad(t[2], "PortDDR")     /\ Stores(t[3], "PortDDR", {}, {p})
  /\ IsLoad(t[4], "IntType")     /\ Stores(t[5], "IntType", IF c.edge THEN {p} ELSE {}, {p})
  /\ IsLoad(t[6], "IntPolarity") /\ Stores(t[7], "IntPolarity", IF c.high THEN {p} ELSE {}, {p})
  /\ Stores(t[8], "PortEOI", {p}, Pins)
  /\ IsLoad(t[9], "IntMask")     /\ Stores(t[10], "IntMask", {}, {p})
  /\ t[11].do = "release"

LEMMA EnableIs ==
  ASSUME NEW p \in Pins, NEW c
  PROVE  Enables(G!RockchipGpioEnableInterrupt(p, c), p, c)
  <1> DEFINE a == <<G!Acquire>>
             x == G!SetMode(p, c)
             b == <<G!Put("PortEOI", {p})>>
             y == G!Assign("IntMask", {p}, FALSE)
             e == <<G!Release>>
             u == a \o x
             v == u \o b
             w == v \o y
             t == w \o e
  <1>0. G!RockchipGpioEnableInterrupt(p, c) = t
    BY DEF G!RockchipGpioEnableInterrupt
  <1>1. a \in Seq(Accesses) /\ Len(a) = 1 /\ a[1].do = "acquire" /\ e \in Seq(Accesses) /\ Len(e) = 1 /\ e[1].do = "release"
    BY ListAccess, Single
  <1>2. b \in Seq(Accesses) /\ Len(b) = 1 /\ Stores(b[1], "PortEOI", {p}, Pins)
    BY ListAccess, Single DEF G!Put
  <1>3. /\ x \in Seq(Accesses) /\ Len(x) = 6
        /\ IsLoad(x[1], "PortDDR")     /\ Stores(x[2], "PortDDR", {}, {p})
        /\ IsLoad(x[3], "IntType")     /\ Stores(x[4], "IntType", IF c.edge THEN {p} ELSE {}, {p})
        /\ IsLoad(x[5], "IntPolarity") /\ Stores(x[6], "IntPolarity", IF c.high THEN {p} ELSE {}, {p})
    BY ModeIs
  <1>4. y \in Seq(Accesses) /\ Len(y) = 2 /\ IsLoad(y[1], "IntMask") /\ Stores(y[2], "IntMask", {}, {p})
    BY AssignIs, RegistersAre
  <1> HIDE DEF a, b, e, x, y
  <1>5. u \in Seq(Accesses) /\ Len(u) = 7 /\ u[1] = a[1] /\ \A i \in 1 .. 6 : u[i + 1] = x[i]
    <2>1. u \in Seq(Accesses) /\ Len(u) = Len(x) + 1 /\ (\A i \in 1 .. Len(x) : u[i + 1] = x[i]) /\ u[1] = a[1]
      BY <1>1, <1>3, JoinedBehind
    <2>2. QED
      BY <1>3, <2>1
  <1> HIDE DEF u
  <1>6. v \in Seq(Accesses) /\ Len(v) = 8 /\ (\A i \in 1 .. 7 : v[i] = u[i]) /\ v[8] = b[1]
    <2>1. v \in Seq(Accesses) /\ Len(v) = Len(u) + 1 /\ (\A i \in 1 .. Len(u) : v[i] = u[i]) /\ v[Len(u) + 1] = b[1]
      BY <1>2, <1>5, JoinedOne
    <2>2. Len(u) = 7 /\ 7 + 1 = 8
      BY <1>5
    <2>3. Len(v) = 8 /\ v[8] = b[1]
      BY <2>1, <2>2
    <2>4. QED
      BY <2>1, <2>2, <2>3
  <1> HIDE DEF v
  <1>7. w \in Seq(Accesses) /\ Len(w) = 10 /\ (\A i \in 1 .. 8 : w[i] = v[i]) /\ w[9] = y[1] /\ w[10] = y[2]
    <2>1. /\ w \in Seq(Accesses) /\ Len(w) = Len(v) + 2 /\ (\A i \in 1 .. Len(v) : w[i] = v[i])
          /\ w[Len(v) + 1] = y[1] /\ w[Len(v) + 2] = y[2]
      BY <1>4, <1>6, JoinedTwo
    <2>2. 8 + 1 = 9 /\ 8 + 2 = 10
      OBVIOUS
    <2>3. QED
      BY <1>6, <2>1, <2>2
  <1> HIDE DEF w
  <1>8. t \in Seq(Accesses) /\ Len(t) = 11 /\ (\A i \in 1 .. 10 : t[i] = w[i]) /\ t[11] = e[1]
    <2>1. t \in Seq(Accesses) /\ Len(t) = Len(w) + 1 /\ (\A i \in 1 .. Len(w) : t[i] = w[i]) /\ t[Len(w) + 1] = e[1]
      BY <1>1, <1>7, JoinedOne
    <2>2. 10 + 1 = 11
      OBVIOUS
    <2>3. QED
      BY <1>7, <2>1, <2>2
  <1> HIDE DEF t
  <1>9. /\ t[1] = a[1] /\ t[2] = x[1] /\ t[3] = x[2] /\ t[4] = x[3] /\ t[5] = x[4] /\ t[6] = x[5] /\ t[7] = x[6]
        /\ t[8] = b[1] /\ t[9] = y[1] /\ t[10] = y[2] /\ t[11] = e[1]
    BY <1>5, <1>6, <1>7, <1>8
  <1>10. QED
    BY <1>0, <1>1, <1>2, <1>3, <1>4, <1>8, <1>9 DEF Enables

Changes(t, r, set, clear) ==
  t \in Seq(Accesses) /\ Len(t) = 2 /\ IsLoad(t[1], r) /\ Stores(t[2], r, set, clear)

\* DisableInterrupt.
Disables(t, p) ==
  /\ t \in Seq(Accesses) /\ Len(t) = 4
  /\ t[1].do = "acquire"
  /\ IsLoad(t[2], "IntMask") /\ Stores(t[3], "IntMask", {p}, {p})
  /\ t[4].do = "release"

LEMMA DisableIs ==
  ASSUME NEW p \in Pins
  PROVE  Disables(G!RockchipGpioDisableInterrupt(p), p)
  <1> DEFINE a == <<G!Acquire>>
             y == G!Assign("IntMask", {p}, TRUE)
             e == <<G!Release>>
             u == a \o y
             t == u \o e
  <1>0. G!RockchipGpioDisableInterrupt(p) = t
    BY DEF G!RockchipGpioDisableInterrupt
  <1>1. a \in Seq(Accesses) /\ Len(a) = 1 /\ a[1].do = "acquire" /\ e \in Seq(Accesses) /\ Len(e) = 1 /\ e[1].do = "release"
    BY ListAccess, Single
  <1>2. y \in Seq(Accesses) /\ Len(y) = 2 /\ IsLoad(y[1], "IntMask") /\ Stores(y[2], "IntMask", {p}, {p})
    BY AssignIs, RegistersAre
  <1> HIDE DEF a, e, y
  <1>3. u \in Seq(Accesses) /\ Len(u) = 3 /\ u[1] = a[1] /\ \A i \in 1 .. 2 : u[i + 1] = y[i]
    <2>1. u \in Seq(Accesses) /\ Len(u) = Len(y) + 1 /\ (\A i \in 1 .. Len(y) : u[i + 1] = y[i]) /\ u[1] = a[1]
      BY <1>1, <1>2, JoinedBehind
    <2>2. QED
      BY <1>2, <2>1
  <1> HIDE DEF u
  <1>4. t \in Seq(Accesses) /\ Len(t) = 4 /\ (\A i \in 1 .. 3 : t[i] = u[i]) /\ t[4] = e[1]
    <2>1. t \in Seq(Accesses) /\ Len(t) = Len(u) + 1 /\ (\A i \in 1 .. Len(u) : t[i] = u[i]) /\ t[Len(u) + 1] = e[1]
      BY <1>1, <1>3, JoinedOne
    <2>2. 3 + 1 = 4
      OBVIOUS
    <2>3. QED
      BY <1>3, <2>1, <2>2
  <1> HIDE DEF t
  <1>5. t[1] = a[1] /\ t[2] = y[1] /\ t[3] = y[2] /\ t[4] = e[1]
    BY <1>3, <1>4
  <1>6. QED
    BY <1>0, <1>1, <1>2, <1>4, <1>5 DEF Disables

\* The callbacks that serve interrupts.
Serves(t, level, pins) ==
  /\ t \in Seq(Accesses) /\ Len(t) = 3
  /\ IsLoad(t[1], "IntMask") /\ Stores(t[2], "IntMask", level, level)
  /\ Stores(t[3], "PortEOI", pins, Pins)

LEMMA ServeIs ==
  ASSUME NEW level \in SUBSET Pins, NEW pins \in SUBSET Pins
  PROVE  Serves(G!RockchipGpioMaskInterrupts(level) \o G!RockchipGpioClearActiveInterrupts(pins), level, pins)
  <1> DEFINE y == G!RockchipGpioMaskInterrupts(level)
             e == G!RockchipGpioClearActiveInterrupts(pins)
             t == y \o e
  <1>1. e \in Seq(Accesses) /\ Len(e) = 1 /\ Stores(e[1], "PortEOI", pins, Pins)
    BY ListAccess, Single DEF G!Put, G!RockchipGpioClearActiveInterrupts
  <1>2. y \in Seq(Accesses) /\ Len(y) = 2 /\ IsLoad(y[1], "IntMask") /\ Stores(y[2], "IntMask", level, level)
    BY AssignIs, RegistersAre DEF G!RockchipGpioMaskInterrupts
  <1> HIDE DEF y, e
  <1>3. t \in Seq(Accesses) /\ Len(t) = 3 /\ (\A i \in 1 .. 2 : t[i] = y[i]) /\ t[3] = e[1]
    <2>1. t \in Seq(Accesses) /\ Len(t) = Len(y) + 1 /\ (\A i \in 1 .. Len(y) : t[i] = y[i]) /\ t[Len(y) + 1] = e[1]
      BY <1>1, <1>2, JoinedOne
    <2>2. 2 + 1 = 3
      OBVIOUS
    <2>3. QED
      BY <1>2, <2>1, <2>2
  <1> HIDE DEF t
  <1>4. t[1] = y[1] /\ t[2] = y[2] /\ t[3] = e[1]
    BY <1>3
  <1>5. Serves(t, level, pins)
    BY <1>1, <1>2, <1>3, <1>4 DEF Serves
  <1>6. QED
    BY <1>5 DEF t, y, e

Reconfigures(t, p, c) ==
  /\ t \in Seq(Accesses) /\ Len(t) = 7
  /\ Stores(t[1], "PortEOI", {p}, Pins)
  /\ IsLoad(t[2], "PortDDR")     /\ Stores(t[3], "PortDDR", {}, {p})
  /\ IsLoad(t[4], "IntType")     /\ Stores(t[5], "IntType", IF c.edge THEN {p} ELSE {}, {p})
  /\ IsLoad(t[6], "IntPolarity") /\ Stores(t[7], "IntPolarity", IF c.high THEN {p} ELSE {}, {p})

LEMMA ReconfigureIs ==
  ASSUME NEW p \in Pins, NEW c
  PROVE  Reconfigures(G!RockchipGpioReconfigureInterrupt(p, c), p, c)
  <1> DEFINE b == <<G!Put("PortEOI", {p})>>
             x == G!SetMode(p, c)
             t == b \o x
  <1>0. G!RockchipGpioReconfigureInterrupt(p, c) = t
    BY DEF G!RockchipGpioReconfigureInterrupt
  <1>1. b \in Seq(Accesses) /\ Len(b) = 1 /\ Stores(b[1], "PortEOI", {p}, Pins)
    BY ListAccess, Single DEF G!Put
  <1>2. /\ x \in Seq(Accesses) /\ Len(x) = 6
        /\ IsLoad(x[1], "PortDDR")     /\ Stores(x[2], "PortDDR", {}, {p})
        /\ IsLoad(x[3], "IntType")     /\ Stores(x[4], "IntType", IF c.edge THEN {p} ELSE {}, {p})
        /\ IsLoad(x[5], "IntPolarity") /\ Stores(x[6], "IntPolarity", IF c.high THEN {p} ELSE {}, {p})
    BY ModeIs
  <1> HIDE DEF b, x
  <1>3. t \in Seq(Accesses) /\ Len(t) = 7 /\ t[1] = b[1] /\ \A i \in 1 .. 6 : t[i + 1] = x[i]
    <2>1. t \in Seq(Accesses) /\ Len(t) = Len(x) + 1 /\ (\A i \in 1 .. Len(x) : t[i + 1] = x[i]) /\ t[1] = b[1]
      BY <1>1, <1>2, JoinedBehind
    <2>2. QED
      BY <1>2, <2>1
  <1> HIDE DEF t
  <1>4. /\ t[1] = b[1] /\ t[2] = x[1] /\ t[3] = x[2] /\ t[4] = x[3] /\ t[5] = x[4] /\ t[6] = x[5] /\ t[7] = x[6]
    BY <1>3
  <1>5. QED
    BY <1>0, <1>1, <1>2, <1>3, <1>4 DEF Reconfigures

\* DisconnectIoPins.
Disconnects(t, pins) ==
  /\ t \in Seq(Accesses) /\ Len(t) = 4
  /\ IsLoad(t[1], "PortDDR") /\ IsLoad(t[2], "PortDR")
  /\ Stores(t[3], "PortDR", {}, pins) /\ Stores(t[4], "PortDDR", pins, {})

LEMMA DisconnectIs ==
  ASSUME NEW pins \in SUBSET Pins
  PROVE  Disconnects(G!RockchipGpioDisconnectIoPins(pins), pins)
  <1> DEFINE a == G!Load("PortDDR")
             b == G!Load("PortDR")
             x == G!Store("PortDR", {}, pins)
             y == G!Store("PortDDR", pins, {})
             t == <<a, b, x, y>>
  <1>0. G!RockchipGpioDisconnectIoPins(pins) = t
    BY DEF G!RockchipGpioDisconnectIoPins
  <1>1. /\ a \in Accesses /\ b \in Accesses /\ x \in Accesses /\ y \in Accesses
        /\ IsLoad(a, "PortDDR") /\ IsLoad(b, "PortDR")
        /\ Stores(x, "PortDR", {}, pins) /\ Stores(y, "PortDDR", pins, {})
    BY ListAccess, RegistersAre
  <1> HIDE DEF a, b, x, y
  <1>2. t \in Seq(Accesses) /\ Len(t) = 4 /\ t[1] = a /\ t[2] = b /\ t[3] = x /\ t[4] = y
    BY <1>1
  <1> HIDE DEF t
  <1>3. QED
    BY <1>0, <1>1, <1>2 DEF Disconnects

\* SaveBankHardwareContext and RestoreBankHardwareContext.
Saves(t) ==
  /\ t \in Seq(Accesses) /\ Len(t) = 5
  /\ IsLoad(t[1], "PortDR") /\ IsLoad(t[2], "PortDDR") /\ IsLoad(t[3], "IntMask")
  /\ IsLoad(t[4], "IntType") /\ IsLoad(t[5], "IntPolarity")

LEMMA SaveIs == Saves(G!RockchipGpioSaveBankHardwareContext)
  <1> DEFINE a == G!Load("PortDR")
             b == G!Load("PortDDR")
             x == G!Load("IntMask")
             y == G!Load("IntType")
             z == G!Load("IntPolarity")
             t == <<a, b, x, y, z>>
  <1>0. G!RockchipGpioSaveBankHardwareContext = t
    BY DEF G!RockchipGpioSaveBankHardwareContext
  <1>1. /\ a \in Accesses /\ b \in Accesses /\ x \in Accesses /\ y \in Accesses /\ z \in Accesses
        /\ IsLoad(a, "PortDR") /\ IsLoad(b, "PortDDR") /\ IsLoad(x, "IntMask")
        /\ IsLoad(y, "IntType") /\ IsLoad(z, "IntPolarity")
    BY ListAccess, RegistersAre
  <1> HIDE DEF a, b, x, y, z
  <1>2. t \in Seq(Accesses) /\ Len(t) = 5 /\ t[1] = a /\ t[2] = b /\ t[3] = x /\ t[4] = y /\ t[5] = z
    BY <1>1
  <1> HIDE DEF t
  <1>3. QED
    BY <1>0, <1>1, <1>2 DEF Saves

Restores(t) ==
  /\ t \in Seq(Accesses) /\ Len(t) = 5
  /\ Stores(t[1], "PortDR", bankSaved["PortDR"], Pins) /\ Stores(t[2], "IntType", bankSaved["IntType"], Pins)
  /\ Stores(t[3], "IntPolarity", bankSaved["IntPolarity"], Pins)
  /\ Stores(t[4], "PortDDR", bankSaved["PortDDR"], Pins) /\ Stores(t[5], "IntMask", bankSaved["IntMask"], Pins)

LEMMA RestoreIs ==
  ASSUME bankSaved \in [G!SavedRegisters -> SUBSET Pins]
  PROVE  Restores(G!RockchipGpioRestoreBankHardwareContext)
  <1> DEFINE a == G!Put("PortDR", bankSaved["PortDR"])
             b == G!Put("IntType", bankSaved["IntType"])
             x == G!Put("IntPolarity", bankSaved["IntPolarity"])
             y == G!Put("PortDDR", bankSaved["PortDDR"])
             z == G!Put("IntMask", bankSaved["IntMask"])
             t == <<a, b, x, y, z>>
  <1>0. G!RockchipGpioRestoreBankHardwareContext = t
    BY DEF G!RockchipGpioRestoreBankHardwareContext
  <1>1. \A r \in {"PortDR", "IntType", "IntPolarity", "PortDDR", "IntMask"} :
          bankSaved[r] \in SUBSET Pins /\ r \in G!Registers
    BY DEF G!SavedRegisters, G!Registers
  <1>2. /\ a \in Accesses /\ b \in Accesses /\ x \in Accesses /\ y \in Accesses /\ z \in Accesses
        /\ Stores(a, "PortDR", bankSaved["PortDR"], Pins) /\ Stores(b, "IntType", bankSaved["IntType"], Pins)
        /\ Stores(x, "IntPolarity", bankSaved["IntPolarity"], Pins)
        /\ Stores(y, "PortDDR", bankSaved["PortDDR"], Pins) /\ Stores(z, "IntMask", bankSaved["IntMask"], Pins)
    BY <1>1, ListAccess DEF G!Put
  <1> HIDE DEF a, b, x, y, z
  <1>3. t \in Seq(Accesses) /\ Len(t) = 5 /\ t[1] = a /\ t[2] = b /\ t[3] = x /\ t[4] = y /\ t[5] = z
    BY <1>2
  <1> HIDE DEF t
  <1>4. QED
    BY <1>0, <1>2, <1>3 DEF Restores

\* StartController.
Starts(t, restore) ==
  /\ t \in Seq(Accesses) /\ Len(t) = IF restore THEN 8 ELSE 3
  /\ Stores(t[1], "IntMask", Pins, Pins) /\ Stores(t[2], "PortEOI", Pins, Pins) /\ Stores(t[3], "IntEn", Pins, Pins)
  /\ restore =>
       /\ Stores(t[4], "PortDR", bankSaved["PortDR"], Pins) /\ Stores(t[5], "IntType", bankSaved["IntType"], Pins)
       /\ Stores(t[6], "IntPolarity", bankSaved["IntPolarity"], Pins)
       /\ Stores(t[7], "PortDDR", bankSaved["PortDDR"], Pins) /\ Stores(t[8], "IntMask", bankSaved["IntMask"], Pins)

LEMMA StartIs ==
  ASSUME bankSaved \in [G!SavedRegisters -> SUBSET Pins], NEW restore \in BOOLEAN
  PROVE  Starts(G!RockchipGpioStartController(restore), restore)
  <1> DEFINE a == G!Put("IntMask", Pins)
             b == G!Put("PortEOI", Pins)
             x == G!Put("IntEn", Pins)
             u == <<a, b, x>>
             v == IF restore THEN G!RockchipGpioRestoreBankHardwareContext ELSE <<>>
  <1>0. G!RockchipGpioStartController(restore) = u \o v
    BY DEF G!RockchipGpioStartController
  <1>1. /\ a \in Accesses /\ b \in Accesses /\ x \in Accesses
        /\ Stores(a, "IntMask", Pins, Pins) /\ Stores(b, "PortEOI", Pins, Pins) /\ Stores(x, "IntEn", Pins, Pins)
    BY ListAccess, RegistersAre DEF G!Put
  <1> HIDE DEF a, b, x
  <1>2. u \in Seq(Accesses) /\ Len(u) = 3 /\ u[1] = a /\ u[2] = b /\ u[3] = x
    BY <1>1
  <1>3. v \in Seq(Accesses) /\ (restore => Restores(v)) /\ Len(v) = IF restore THEN 5 ELSE 0
    <2>1. CASE restore
      <3>1. v = G!RockchipGpioRestoreBankHardwareContext
        BY <2>1
      <3> HIDE DEF v
      <3>2. Restores(v)
        BY <3>1, RestoreIs
      <3>3. v \in Seq(Accesses) /\ Len(v) = 5
        BY <3>2 DEF Restores
      <3>4. QED
        BY <2>1, <3>2, <3>3
    <2>2. CASE ~restore
      <3>1. v = <<>>
        BY <2>2
      <3> HIDE DEF v
      <3>2. QED
        BY <2>2, <3>1
    <2>3. QED
      BY <2>1, <2>2
  <1> HIDE DEF u, v
  <1> DEFINE t == u \o v
  <1>4. /\ t \in Seq(Accesses) /\ Len(t) = Len(u) + Len(v)
        /\ \A i \in 1 .. Len(u) : t[i] = u[i]
        /\ \A i \in 1 .. Len(v) : t[Len(u) + i] = v[i]
    BY <1>2, <1>3, ListsJoined
  <1> HIDE DEF t
  <1>5. t[1] = u[1] /\ t[2] = u[2] /\ t[3] = u[3]
    BY <1>2, <1>4
  <1>6. Len(t) = IF restore THEN 8 ELSE 3
    BY <1>2, <1>3, <1>4
  <1>7. ASSUME restore
        PROVE  t[4] = v[1] /\ t[5] = v[2] /\ t[6] = v[3] /\ t[7] = v[4] /\ t[8] = v[5]
    <2>1. \A i \in 1 .. 5 : t[3 + i] = v[i]
      BY <1>2, <1>3, <1>4, <1>7
    <2>2. 3 + 1 = 4 /\ 3 + 2 = 5 /\ 3 + 3 = 6 /\ 3 + 4 = 7 /\ 3 + 5 = 8
      OBVIOUS
    <2>3. t[3 + 1] = v[1] /\ t[3 + 2] = v[2] /\ t[3 + 3] = v[3] /\ t[3 + 4] = v[4] /\ t[3 + 5] = v[5]
      BY <2>1
    <2>4. QED
      BY <2>2, <2>3
  <1>8. Starts(t, restore)
    BY <1>1, <1>2, <1>3, <1>4, <1>5, <1>6, <1>7 DEF Starts, Restores
  <1>9. QED
    BY <1>0, <1>8 DEF t

\* A callback at its beginning.
Begun(c, name, pins) ==
  /\ c.name = name /\ c.pins = pins /\ DOMAIN c.val = {} /\ c.todo # <<>>
  /\ \A i \in Places(c) : c.todo[i].do = "store" => ~c.todo[i].rest

LEMMA CallbackIs ==
  ASSUME NEW name \in IoNames \cup IsrNames, NEW pins \in SUBSET Pins, NEW t \in Seq(Accesses)
  PROVE  /\ G!Callback(name, pins, t) \in Calls
         /\ G!Callback(name, pins, t).name = name /\ G!Callback(name, pins, t).pins = pins
         /\ G!Callback(name, pins, t).todo = t /\ DOMAIN G!Callback(name, pins, t).val = {}
  <1> DEFINE v == [r \in {} |-> {}]
             c == G!Callback(name, pins, t)
  <1>1. c = [name |-> name, pins |-> pins, todo |-> t, val |-> v]
    BY DEF G!Callback
  <1>2. v \in [{} -> SUBSET Pins] /\ DOMAIN v = {}
    OBVIOUS
  <1>3. v \in Vals
    BY <1>2 DEF Vals
  <1> HIDE DEF v, c
  <1>4. c \in Calls
    BY <1>1, <1>3 DEF Calls
  <1>5. c.name = name /\ c.pins = pins /\ c.todo = t /\ DOMAIN c.val = {}
    BY <1>1, <1>2
  <1>6. QED
    BY <1>4, <1>5 DEF c

\* What begins agrees with the registers, and has done nothing by half.
LEMMA BegunAgrees ==
  ASSUME NEW c, NEW name, NEW pins, Begun(c, name, pins)
  PROVE  Halves(c) /\ \A b : AgreeWith(b, c)
  BY DEF Begun, Halves, AgreeWith

\* A list of loads, each of a register, and of stores, each once and after the load.
LEMMA EnableLists ==
  ASSUME NEW p \in Pins, NEW k, NEW c, Enables(c.todo, p, k), c.name = "enable", c.pins = {p}, DOMAIN c.val = {}
  PROVE  Listed(c) /\ Begun(c, "enable", {p}) /\ Places(c) = 1 .. 11
  <1> DEFINE t == c.todo
  <1>0. Places(c) = 1 .. 11
    BY DEF Places, Enables
  <1>1. ASSUME NEW i \in 1 .. 11
        PROVE  \/ i = 1 /\ t[i].do = "acquire"
               \/ i = 2 /\ IsLoad(t[i], "PortDDR")
               \/ i = 3 /\ Stores(t[i], "PortDDR", {}, {p})
               \/ i = 4 /\ IsLoad(t[i], "IntType")
               \/ i = 5 /\ Stores(t[i], "IntType", IF k.edge THEN {p} ELSE {}, {p})
               \/ i = 6 /\ IsLoad(t[i], "IntPolarity")
               \/ i = 7 /\ Stores(t[i], "IntPolarity", IF k.high THEN {p} ELSE {}, {p})
               \/ i = 8 /\ Stores(t[i], "PortEOI", {p}, Pins)
               \/ i = 9 /\ IsLoad(t[i], "IntMask")
               \/ i = 10 /\ Stores(t[i], "IntMask", {}, {p})
               \/ i = 11 /\ t[i].do = "release"
    <2>1. i = 1 \/ i = 2 \/ i = 3 \/ i = 4 \/ i = 5 \/ i = 6 \/ i = 7 \/ i = 8 \/ i = 9 \/ i = 10 \/ i = 11
      OBVIOUS
    <2>2. /\ t[1].do = "acquire" /\ t[11].do = "release"
          /\ IsLoad(t[2], "PortDDR") /\ IsLoad(t[4], "IntType") /\ IsLoad(t[6], "IntPolarity") /\ IsLoad(t[9], "IntMask")
          /\ Stores(t[3], "PortDDR", {}, {p}) /\ Stores(t[5], "IntType", IF k.edge THEN {p} ELSE {}, {p})
          /\ Stores(t[7], "IntPolarity", IF k.high THEN {p} ELSE {}, {p})
          /\ Stores(t[8], "PortEOI", {p}, Pins) /\ Stores(t[10], "IntMask", {}, {p})
      BY DEF Enables
    <2> HIDE DEF t
    <2>3. QED
      BY <2>1, <2>2
  <1>2. ASSUME NEW i \in 1 .. 11, t[i].do = "store"
        PROVE  /\ ~t[i].rest /\ t[i].set \subseteq {p}
               /\ \/ i = 3 /\ t[i].reg = "PortDDR" /\ t[i].clear = {p}
                  \/ i = 5 /\ t[i].reg = "IntType" /\ t[i].clear = {p}
                  \/ i = 7 /\ t[i].reg = "IntPolarity" /\ t[i].clear = {p}
                  \/ i = 8 /\ t[i].reg = "PortEOI" /\ t[i].clear = Pins /\ t[i].set = {p}
                  \/ i = 10 /\ t[i].reg = "IntMask" /\ t[i].clear = {p}
    BY <1>1, <1>2 DEF Stores, IsLoad
  <1>3. ASSUME NEW i \in 1 .. 11, t[i].do = "load"
        PROVE  \/ i = 2 /\ t[i].reg = "PortDDR"
               \/ i = 4 /\ t[i].reg = "IntType"
               \/ i = 6 /\ t[i].reg = "IntPolarity"
               \/ i = 9 /\ t[i].reg = "IntMask"
    BY <1>1, <1>3 DEF Stores, IsLoad
  <1>4. ASSUME NEW i \in 1 .. 11 PROVE (t[i].do = "acquire" => i = 1) /\ (t[i].do = "release" <=> i = 11)
    BY <1>1 DEF Stores, IsLoad
  <1>5. /\ IsLoad(t[2], "PortDDR") /\ IsLoad(t[4], "IntType") /\ IsLoad(t[6], "IntPolarity") /\ IsLoad(t[9], "IntMask")
        /\ IsStore(t[3], "PortDDR") /\ IsStore(t[5], "IntType") /\ IsStore(t[7], "IntPolarity") /\ IsStore(t[10], "IntMask")
    BY DEF Enables, Stores, IsStore
  <1>6. MayUse(c.name) = Modes \cup {"PortEOI", "IntMask"} /\ c.name \in Locking /\ c.name \notin Saving /\ c.name # "start"
    BY DEF MayUse, Saving, Locking
  <1>7. Len(t) = 11 /\ t # <<>>
    BY EmptySeq DEF Enables
  <1> HIDE DEF t
  <1>8. Mine(c)
    BY <1>0, <1>2, <1>3, <1>6 DEF Mine, IsStore, Modes, t
  <1>9. Loaded(c)
    <2>1. ASSUME NEW i \in 1 .. 11, t[i].do = "store"
          PROVE  t[i].clear = Pins \/ \E j \in 1 .. 11 : j < i /\ IsLoad(t[j], t[i].reg)
      BY <1>2, <1>5, <2>1
    <2>2. ASSUME NEW i \in 1 .. 11, t[i].do = "load"
          PROVE  \E j \in 1 .. 11 : i < j /\ IsStore(t[j], t[i].reg)
      BY <1>3, <1>5, <2>2
    <2>3. QED
      BY <1>0, <1>6, <2>1, <2>2 DEF Loaded, t
  <1>10. Locked(c)
    BY <1>0, <1>4, <1>6, <1>7 DEF Locked, t
  <1>11. Ordered(c)
    BY <1>0, <1>2, <1>6 DEF Ordered, Modes, t
  <1>12. QED
    BY <1>0, <1>2, <1>7, <1>8, <1>9, <1>10, <1>11 DEF Listed, Begun, t

LEMMA DisableLists ==
  ASSUME NEW p \in Pins, NEW c, Disables(c.todo, p), c.name = "disable", c.pins = {p}, DOMAIN c.val = {}
  PROVE  Listed(c) /\ Begun(c, "disable", {p}) /\ Places(c) = 1 .. 4
  <1> DEFINE t == c.todo
  <1>0. Places(c) = 1 .. 4
    BY DEF Places, Disables
  <1>1. /\ t[1].do = "acquire" /\ IsLoad(t[2], "IntMask") /\ Stores(t[3], "IntMask", {p}, {p}) /\ t[4].do = "release"
        /\ Len(t) = 4 /\ t # <<>>
    BY EmptySeq DEF Disables
  <1>2. MayUse(c.name) = {"IntMask"} /\ c.name \in Locking /\ c.name \notin Saving /\ c.name # "start"
    BY DEF MayUse, Saving, Locking
  <1> HIDE DEF t
  <1>3. ASSUME NEW i \in 1 .. 4
        PROVE  /\ t[i].do = "store" => i = 3 /\ t[i].reg = "IntMask" /\ ~t[i].rest /\ t[i].set = {p} /\ t[i].clear = {p}
               /\ t[i].do = "load" => i = 2 /\ t[i].reg = "IntMask"
               /\ (t[i].do = "acquire" => i = 1) /\ (t[i].do = "release" <=> i = 4)
    <2>1. i = 1 \/ i = 2 \/ i = 3 \/ i = 4
      OBVIOUS
    <2>2. QED
      BY <1>1, <2>1 DEF Stores, IsLoad
  <1>4. Mine(c)
    BY <1>0, <1>2, <1>3 DEF Mine, IsStore, t
  <1>5. IsStore(t[3], "IntMask")
    BY <1>1 DEF Stores, IsStore
  <1>6. Loaded(c)
    <2>1. ASSUME NEW i \in 1 .. 4, t[i].do = "store"
          PROVE  t[i].clear = Pins \/ \E j \in 1 .. 4 : j < i /\ IsLoad(t[j], t[i].reg)
      BY <1>1, <1>3, <2>1
    <2>2. ASSUME NEW i \in 1 .. 4, t[i].do = "load"
          PROVE  \E j \in 1 .. 4 : i < j /\ IsStore(t[j], t[i].reg)
      BY <1>3, <1>5, <2>2
    <2>3. QED
      BY <1>0, <1>2, <2>1, <2>2 DEF Loaded, t
  <1>7. Locked(c)
    BY <1>0, <1>1, <1>2, <1>3 DEF Locked, t
  <1>8. Ordered(c)
    BY <1>0, <1>2, <1>3 DEF Ordered, Modes, t
  <1>9. QED
    BY <1>0, <1>1, <1>3, <1>4, <1>6, <1>7, <1>8 DEF Listed, Begun, t

MayChange(c, r, set, clear) ==
  /\ r \in G!Registers /\ set \in SUBSET Pins /\ clear \in SUBSET Pins
  /\ Changes(c.todo, r, set, clear) /\ c.name \in {"connect", "write", "unmask"} /\ DOMAIN c.val = {}
  /\ r \in MayUse(c.name) /\ set \cup clear \subseteq c.pins

LEMMA ChangeLists ==
  ASSUME NEW c, NEW r, NEW set, NEW clear, MayChange(c, r, set, clear)
  PROVE  Listed(c) /\ Begun(c, c.name, c.pins) /\ Places(c) = 1 .. 2
  <1> DEFINE t == c.todo
  <1> /\ r \in G!Registers /\ set \in SUBSET Pins /\ clear \in SUBSET Pins
      /\ Changes(c.todo, r, set, clear) /\ c.name \in {"connect", "write", "unmask"} /\ DOMAIN c.val = {}
      /\ r \in MayUse(c.name) /\ set \cup clear \subseteq c.pins
    BY DEF MayChange
  <1>0. Places(c) = 1 .. 2
    BY DEF Places, Changes
  <1>1. IsLoad(t[1], r) /\ Stores(t[2], r, set, clear) /\ Len(t) = 2 /\ t # <<>> /\ r # "PortEOI"
    BY EmptySeq DEF Changes, G!Registers
  <1>2. c.name \notin Locking /\ c.name \notin Saving /\ c.name # "start" /\ c.name # "enable"
    BY DEF Saving, Locking
  <1> HIDE DEF t
  <1>3. ASSUME NEW i \in 1 .. 2
        PROVE  /\ t[i].do = "store" => i = 2 /\ t[i].reg = r /\ ~t[i].rest /\ t[i].set = set /\ t[i].clear = clear
               /\ t[i].do = "load" => i = 1 /\ t[i].reg = r
               /\ t[i].do # "acquire" /\ t[i].do # "release"
    <2>1. i = 1 \/ i = 2
      OBVIOUS
    <2>2. QED
      BY <1>1, <2>1 DEF Stores, IsLoad
  <1>4. Mine(c)
    BY <1>0, <1>1, <1>2, <1>3 DEF Mine, IsStore, t
  <1>5. IsStore(t[2], r)
    BY <1>1 DEF Stores, IsStore
  <1>6. Loaded(c)
    <2>1. ASSUME NEW i \in 1 .. 2, t[i].do = "store"
          PROVE  t[i].clear = Pins \/ \E j \in 1 .. 2 : j < i /\ IsLoad(t[j], t[i].reg)
      BY <1>1, <1>3, <2>1
    <2>2. ASSUME NEW i \in 1 .. 2, t[i].do = "load"
          PROVE  \E j \in 1 .. 2 : i < j /\ IsStore(t[j], t[i].reg)
      BY <1>3, <1>5, <2>2
    <2>3. QED
      BY <1>0, <1>2, <2>1, <2>2 DEF Loaded, t
  <1>7. Locked(c)
    BY <1>0, <1>1, <1>2, <1>3 DEF Locked, t
  <1>8. Ordered(c)
    <2>1. ~(r = "PortDR" /\ r = "PortDDR")
      OBVIOUS
    <2>2. QED
      BY <1>0, <1>2, <1>3, <2>1 DEF Ordered, Modes, t
  <1>9. QED
    BY <1>0, <1>1, <1>3, <1>4, <1>6, <1>7, <1>8 DEF Listed, Begun, t

LEMMA ServeLists ==
  ASSUME NEW pins \in SUBSET Pins, NEW level \in SUBSET pins, NEW c,
         Serves(c.todo, level, pins), c.name = "active", c.pins = pins, DOMAIN c.val = {}
  PROVE  Listed(c) /\ Begun(c, "active", pins) /\ Places(c) = 1 .. 3
  <1> DEFINE t == c.todo
  <1>0. Places(c) = 1 .. 3
    BY DEF Places, Serves
  <1>1. /\ IsLoad(t[1], "IntMask") /\ Stores(t[2], "IntMask", level, level) /\ Stores(t[3], "PortEOI", pins, Pins)
        /\ Len(t) = 3 /\ t # <<>>
    BY EmptySeq DEF Serves
  <1>2. MayUse(c.name) = {"IntMask", "PortEOI"} /\ c.name \notin Locking /\ c.name \notin Saving /\ c.name # "start"
    BY DEF MayUse, Saving, Locking
  <1> HIDE DEF t
  <1>3. ASSUME NEW i \in 1 .. 3
        PROVE  /\ t[i].do = "store" =>
                    /\ ~t[i].rest
                    /\ \/ i = 2 /\ t[i].reg = "IntMask" /\ t[i].set = level /\ t[i].clear = level
                       \/ i = 3 /\ t[i].reg = "PortEOI" /\ t[i].set = pins /\ t[i].clear = Pins
               /\ t[i].do = "load" => i = 1 /\ t[i].reg = "IntMask"
               /\ t[i].do # "acquire" /\ t[i].do # "release"
    <2>1. i = 1 \/ i = 2 \/ i = 3
      OBVIOUS
    <2>2. QED
      BY <1>1, <2>1 DEF Stores, IsLoad
  <1>4. Mine(c)
    BY <1>0, <1>1, <1>2, <1>3 DEF Mine, IsStore, t
  <1>5. IsStore(t[2], "IntMask")
    BY <1>1 DEF Stores, IsStore
  <1>6. Loaded(c)
    <2>1. ASSUME NEW i \in 1 .. 3, t[i].do = "store"
          PROVE  t[i].clear = Pins \/ \E j \in 1 .. 3 : j < i /\ IsLoad(t[j], t[i].reg)
      BY <1>1, <1>3, <2>1
    <2>2. ASSUME NEW i \in 1 .. 3, t[i].do = "load"
          PROVE  \E j \in 1 .. 3 : i < j /\ IsStore(t[j], t[i].reg)
      BY <1>3, <1>5, <2>2
    <2>3. QED
      BY <1>0, <1>2, <2>1, <2>2 DEF Loaded, t
  <1>7. Locked(c)
    BY <1>0, <1>1, <1>2, <1>3 DEF Locked, t
  <1>8. Ordered(c)
    BY <1>0, <1>2, <1>3 DEF Ordered, Modes, t
  <1>9. QED
    BY <1>0, <1>1, <1>3, <1>4, <1>6, <1>7, <1>8 DEF Listed, Begun, t

LEMMA ReconfigureLists ==
  ASSUME NEW p \in Pins, NEW k, NEW c, Reconfigures(c.todo, p, k), c.name = "reconfigure", c.pins = {p}, DOMAIN c.val = {}
  PROVE  Listed(c) /\ Begun(c, "reconfigure", {p}) /\ Places(c) = 1 .. 7
  <1> DEFINE t == c.todo
  <1>0. Places(c) = 1 .. 7
    BY DEF Places, Reconfigures
  <1>1. /\ Stores(t[1], "PortEOI", {p}, Pins)
        /\ IsLoad(t[2], "PortDDR") /\ IsLoad(t[4], "IntType") /\ IsLoad(t[6], "IntPolarity")
        /\ Stores(t[3], "PortDDR", {}, {p}) /\ Stores(t[5], "IntType", IF k.edge THEN {p} ELSE {}, {p})
        /\ Stores(t[7], "IntPolarity", IF k.high THEN {p} ELSE {}, {p})
        /\ Len(t) = 7 /\ t # <<>>
    BY EmptySeq DEF Reconfigures
  <1>2. MayUse(c.name) = Modes \cup {"PortEOI"} /\ c.name \notin Locking /\ c.name \notin Saving /\ c.name # "start"
    BY DEF MayUse, Saving, Locking
  <1> HIDE DEF t
  <1>3. ASSUME NEW i \in 1 .. 7
        PROVE  /\ t[i].do = "store" =>
                    /\ ~t[i].rest /\ t[i].set \subseteq {p}
                    /\ \/ i = 1 /\ t[i].reg = "PortEOI" /\ t[i].set = {p} /\ t[i].clear = Pins
                       \/ i = 3 /\ t[i].reg = "PortDDR" /\ t[i].clear = {p}
                       \/ i = 5 /\ t[i].reg = "IntType" /\ t[i].clear = {p}
                       \/ i = 7 /\ t[i].reg = "IntPolarity" /\ t[i].clear = {p}
               /\ t[i].do = "load" => \/ i = 2 /\ t[i].reg = "PortDDR"
                                      \/ i = 4 /\ t[i].reg = "IntType"
                                      \/ i = 6 /\ t[i].reg = "IntPolarity"
               /\ t[i].do # "acquire" /\ t[i].do # "release"
    <2>1. i = 1 \/ i = 2 \/ i = 3 \/ i = 4 \/ i = 5 \/ i = 6 \/ i = 7
      OBVIOUS
    <2>2. QED
      BY <1>1, <2>1 DEF Stores, IsLoad
  <1>4. Mine(c)
    BY <1>0, <1>1, <1>2, <1>3 DEF Mine, IsStore, Modes, t
  <1>5. IsStore(t[3], "PortDDR") /\ IsStore(t[5], "IntType") /\ IsStore(t[7], "IntPolarity")
    BY <1>1 DEF Stores, IsStore
  <1>6. Loaded(c)
    <2>1. ASSUME NEW i \in 1 .. 7, t[i].do = "store"
          PROVE  t[i].clear = Pins \/ \E j \in 1 .. 7 : j < i /\ IsLoad(t[j], t[i].reg)
      BY <1>1, <1>3, <2>1
    <2>2. ASSUME NEW i \in 1 .. 7, t[i].do = "load"
          PROVE  \E j \in 1 .. 7 : i < j /\ IsStore(t[j], t[i].reg)
      BY <1>3, <1>5, <2>2
    <2>3. QED
      BY <1>0, <1>2, <2>1, <2>2 DEF Loaded, t
  <1>7. Locked(c)
    BY <1>0, <1>1, <1>2, <1>3 DEF Locked, t
  <1>8. Ordered(c)
    BY <1>0, <1>2, <1>3 DEF Ordered, Modes, t
  <1>9. QED
    BY <1>0, <1>1, <1>3, <1>4, <1>6, <1>7, <1>8 DEF Listed, Begun, t

LEMMA DisconnectLists ==
  ASSUME NEW pins \in SUBSET Pins, NEW c, Disconnects(c.todo, pins), c.name = "disconnect", c.pins = pins, DOMAIN c.val = {}
  PROVE  Listed(c) /\ Begun(c, "disconnect", pins) /\ Places(c) = 1 .. 4
  <1> DEFINE t == c.todo
  <1>0. Places(c) = 1 .. 4
    BY DEF Places, Disconnects
  <1>1. /\ IsLoad(t[1], "PortDDR") /\ IsLoad(t[2], "PortDR")
        /\ Stores(t[3], "PortDR", {}, pins) /\ Stores(t[4], "PortDDR", pins, {}) /\ Len(t) = 4 /\ t # <<>>
    BY EmptySeq DEF Disconnects
  <1>2. MayUse(c.name) = {"PortDDR", "PortDR"} /\ c.name \notin Locking /\ c.name \notin Saving /\ c.name # "start"
    BY DEF MayUse, Saving, Locking
  <1> HIDE DEF t
  <1>3. ASSUME NEW i \in 1 .. 4
        PROVE  /\ t[i].do = "store" =>
                    /\ ~t[i].rest
                    /\ \/ i = 3 /\ t[i].reg = "PortDR" /\ t[i].set = {} /\ t[i].clear = pins
                       \/ i = 4 /\ t[i].reg = "PortDDR" /\ t[i].set = pins /\ t[i].clear = {}
               /\ t[i].do = "load" => \/ i = 1 /\ t[i].reg = "PortDDR"
                                      \/ i = 2 /\ t[i].reg = "PortDR"
               /\ t[i].do # "acquire" /\ t[i].do # "release"
    <2>1. i = 1 \/ i = 2 \/ i = 3 \/ i = 4
      OBVIOUS
    <2>2. QED
      BY <1>1, <2>1 DEF Stores, IsLoad
  <1>4. Mine(c)
    BY <1>0, <1>2, <1>3 DEF Mine, IsStore, t
  <1>5. IsStore(t[3], "PortDR") /\ IsStore(t[4], "PortDDR")
    BY <1>1 DEF Stores, IsStore
  <1>6. Loaded(c)
    <2>1. ASSUME NEW i \in 1 .. 4, t[i].do = "store"
          PROVE  t[i].clear = Pins \/ \E j \in 1 .. 4 : j < i /\ IsLoad(t[j], t[i].reg)
      BY <1>1, <1>3, <2>1
    <2>2. ASSUME NEW i \in 1 .. 4, t[i].do = "load"
          PROVE  \E j \in 1 .. 4 : i < j /\ IsStore(t[j], t[i].reg)
      BY <1>3, <1>5, <2>2
    <2>3. QED
      BY <1>0, <1>2, <2>1, <2>2 DEF Loaded, t
  <1>7. Locked(c)
    BY <1>0, <1>1, <1>2, <1>3 DEF Locked, t
  <1>8. Ordered(c)
    BY <1>0, <1>2, <1>3 DEF Ordered, Modes, t
  <1>9. QED
    BY <1>0, <1>1, <1>3, <1>4, <1>6, <1>7, <1>8 DEF Listed, Begun, t

LEMMA SaveLists ==
  ASSUME NEW c, Saves(c.todo), c.name \in Saving, c.pins = {}, DOMAIN c.val = {}
  PROVE  /\ Listed(c) /\ Begun(c, c.name, {})
         /\ \A r, p : ~Hits(c, r, p) /\ ~EoiDue(c, p) /\ \A v : Gives(c, r, p, v)
  <1> DEFINE t == c.todo
  <1>0. Places(c) = 1 .. 5
    BY DEF Places, Saves
  <1>1. /\ IsLoad(t[1], "PortDR") /\ IsLoad(t[2], "PortDDR") /\ IsLoad(t[3], "IntMask")
        /\ IsLoad(t[4], "IntType") /\ IsLoad(t[5], "IntPolarity") /\ Len(t) = 5 /\ t # <<>>
    BY EmptySeq DEF Saves
  <1>2. MayUse(c.name) = G!SavedRegisters /\ c.name \notin Locking /\ c.name # "start"
    BY DEF MayUse, Saving, Locking
  <1>3. G!SavedRegisters = {"PortDR", "PortDDR", "IntMask", "IntType", "IntPolarity"}
    BY DEF G!SavedRegisters, G!Registers
  <1> HIDE DEF t
  <1>4. ASSUME NEW i \in 1 .. 5
        PROVE  t[i].do = "load" /\ t[i].reg \in G!SavedRegisters
    <2>1. i = 1 \/ i = 2 \/ i = 3 \/ i = 4 \/ i = 5
      OBVIOUS
    <2>2. QED
      BY <1>1, <1>3, <2>1 DEF IsLoad
  <1>5. Mine(c)
    BY <1>0, <1>2, <1>4 DEF Mine, IsStore, t
  <1>6. Loaded(c)
    <2>1. \A r \in G!SavedRegisters : \E i \in 1 .. 5 : IsLoad(t[i], r)
      BY <1>1, <1>3
    <2>2. QED
      BY <1>0, <1>2, <1>4, <2>1 DEF Loaded, t
  <1>7. Locked(c) /\ Ordered(c)
    BY <1>0, <1>2, <1>4 DEF Locked, Ordered, t
  <1>8. \A r, p : ~Hits(c, r, p) /\ ~EoiDue(c, p) /\ \A v : Gives(c, r, p, v)
    BY <1>0, <1>4 DEF Hits, EoiDue, Gives, LastSets, Sets, IsStore, t
  <1>9. QED
    BY <1>0, <1>1, <1>4, <1>5, <1>6, <1>7, <1>8 DEF Listed, Begun, t

\* StartController stores the mask twice when it restores the bank.
LEMMA StartLists ==
  ASSUME NEW restore \in BOOLEAN, NEW c, Starts(c.todo, restore), c.name = "start", c.pins = {}, DOMAIN c.val = {},
         bankSaved \in [G!SavedRegisters -> SUBSET Pins]
  PROVE  Listed(c) /\ Begun(c, "start", {}) /\ Places(c) = 1 .. IF restore THEN 8 ELSE 3
  <1> DEFINE t == c.todo
             n == IF restore THEN 8 ELSE 3
  <1>0. Places(c) = 1 .. n
    BY DEF Places, Starts
  <1>1. /\ Stores(t[1], "IntMask", Pins, Pins) /\ Stores(t[2], "PortEOI", Pins, Pins) /\ Stores(t[3], "IntEn", Pins, Pins)
        /\ restore => /\ Stores(t[4], "PortDR", bankSaved["PortDR"], Pins)
                      /\ Stores(t[5], "IntType", bankSaved["IntType"], Pins)
                      /\ Stores(t[6], "IntPolarity", bankSaved["IntPolarity"], Pins)
                      /\ Stores(t[7], "PortDDR", bankSaved["PortDDR"], Pins)
                      /\ Stores(t[8], "IntMask", bankSaved["IntMask"], Pins)
        /\ Len(t) = n /\ t # <<>>
    BY EmptySeq DEF Starts
  <1>2. MayUse(c.name) = G!Registers \cup {"PortEOI"} /\ c.name \notin Locking /\ c.name \notin Saving
    BY DEF MayUse, Saving, Locking
  <1> HIDE DEF t
  <1>3. ASSUME NEW i \in 1 .. n
        PROVE  /\ t[i].do = "store" /\ ~t[i].rest /\ t[i].clear = Pins
               /\ \/ i = 1 /\ t[i].reg = "IntMask" /\ t[i].set = Pins
                  \/ i = 2 /\ t[i].reg = "PortEOI" /\ t[i].set = Pins
                  \/ i = 3 /\ t[i].reg = "IntEn"
                  \/ i = 4 /\ t[i].reg = "PortDR"
                  \/ i = 5 /\ t[i].reg = "IntType"
                  \/ i = 6 /\ t[i].reg = "IntPolarity"
                  \/ i = 7 /\ t[i].reg = "PortDDR"
                  \/ i = 8 /\ t[i].reg = "IntMask"
    <2>1. \/ i = 1 \/ i = 2 \/ i = 3
          \/ restore /\ (i = 4 \/ i = 5 \/ i = 6 \/ i = 7 \/ i = 8)
      OBVIOUS
    <2>2. QED
      BY <1>1, <2>1 DEF Stores
  <1>4. Mine(c)
    <2>1. \A i \in 1 .. n : t[i].reg \in G!Registers \cup {"PortEOI"}
      BY <1>3, RegistersAre
    <2>2. QED
      BY <1>0, <1>2, <1>3, <2>1 DEF Mine, IsStore, t
  <1>5. Loaded(c)
    BY <1>0, <1>2, <1>3 DEF Loaded, t
  <1>6. Locked(c)
    BY <1>0, <1>2, <1>3 DEF Locked, t
  <1>7. Ordered(c)
    BY <1>0, <1>3 DEF Ordered, t
  <1>8. QED
    BY <1>0, <1>1, <1>3, <1>4, <1>5, <1>6, <1>7 DEF Listed, Begun, t

LEMMA RestoreLists ==
  ASSUME NEW c, Restores(c.todo), c.name = "start", c.pins = {}, DOMAIN c.val = {},
         bankSaved \in [G!SavedRegisters -> SUBSET Pins]
  PROVE  Listed(c) /\ Begun(c, "start", {}) /\ Places(c) = 1 .. 5
  <1> DEFINE t == c.todo
  <1>0. Places(c) = 1 .. 5
    BY DEF Places, Restores
  <1>1. /\ Stores(t[1], "PortDR", bankSaved["PortDR"], Pins)
        /\ Stores(t[2], "IntType", bankSaved["IntType"], Pins)
        /\ Stores(t[3], "IntPolarity", bankSaved["IntPolarity"], Pins)
        /\ Stores(t[4], "PortDDR", bankSaved["PortDDR"], Pins)
        /\ Stores(t[5], "IntMask", bankSaved["IntMask"], Pins)
        /\ Len(t) = 5 /\ t # <<>>
    BY EmptySeq DEF Restores
  <1>2. MayUse(c.name) = G!Registers \cup {"PortEOI"} /\ c.name \notin Locking /\ c.name \notin Saving
    BY DEF MayUse, Saving, Locking
  <1> HIDE DEF t
  <1>3. ASSUME NEW i \in 1 .. 5
        PROVE  /\ t[i].do = "store" /\ ~t[i].rest /\ t[i].clear = Pins
               /\ \/ i = 1 /\ t[i].reg = "PortDR"
                  \/ i = 2 /\ t[i].reg = "IntType"
                  \/ i = 3 /\ t[i].reg = "IntPolarity"
                  \/ i = 4 /\ t[i].reg = "PortDDR"
                  \/ i = 5 /\ t[i].reg = "IntMask"
    <2>1. i = 1 \/ i = 2 \/ i = 3 \/ i = 4 \/ i = 5
      OBVIOUS
    <2>2. QED
      BY <1>1, <2>1 DEF Stores
  <1>4. Mine(c)
    <2>1. \A i \in 1 .. 5 : t[i].reg \in G!Registers /\ t[i].reg # "PortEOI"
      BY <1>3, RegistersAre
    <2>2. QED
      BY <1>0, <1>2, <1>3, <2>1 DEF Mine, IsStore, t
  <1>5. Loaded(c)
    BY <1>0, <1>2, <1>3 DEF Loaded, t
  <1>6. Locked(c)
    BY <1>0, <1>2, <1>3 DEF Locked, t
  <1>7. Ordered(c)
    BY <1>0, <1>3 DEF Ordered, t
  <1>8. QED
    BY <1>0, <1>1, <1>3, <1>4, <1>5, <1>6, <1>7 DEF Listed, Begun, t

\* What becomes of a line when everything is done.
Makes(c, r, p, v) == Hits(c, r, p) /\ Gives(c, r, p, v)

LEMMA OnlyStore ==
  ASSUME NEW c, Ordered(c), NEW i, i \in Places(c), NEW r, NEW set, NEW clear,
         Stores(c.todo[i], r, set, clear), c.name # "start", NEW q \in Pins, q \in set \cup clear
  PROVE  Makes(c, r, q, q \in set) /\ (r = "PortEOI" => (EoiDue(c, q) <=> q \in set))
  <1>1. ASSUME NEW j \in Places(c), IsStore(c.todo[j], r) PROVE j = i
    BY <1>1 DEF Ordered, Stores, IsStore
  <1>2. IsStore(c.todo[i], r) /\ Reach(c.todo[i]) = Pins /\ c.todo[i].set = set /\ c.todo[i].clear = clear
    BY DEF Stores, IsStore, Reach
  <1>3. Hits(c, r, q)
    BY <1>2 DEF Hits, Sets
  <1>4. Gives(c, r, q, q \in set)
    <2>1. ASSUME NEW j \in Places(c), LastSets(c, j, r, q) PROVE j = i
      BY <1>1, <2>1 DEF LastSets, Sets
    <2>2. QED
      BY <1>2, <2>1 DEF Gives
  <1>5. r = "PortEOI" => (EoiDue(c, q) <=> q \in set)
    BY <1>1, <1>2 DEF EoiDue
  <1>6. QED
    BY <1>3, <1>4, <1>5 DEF Makes

LEMMA EnableMakes ==
  ASSUME NEW p \in Pins, NEW k, NEW c, Enables(c.todo, p, k), c.name = "enable", Ordered(c)
  PROVE  /\ Makes(c, "PortDDR", p, FALSE) /\ Makes(c, "IntType", p, k.edge) /\ Makes(c, "IntPolarity", p, k.high)
         /\ Makes(c, "IntMask", p, FALSE) /\ EoiDue(c, p)
  <1> DEFINE t == c.todo
  <1>1. /\ Stores(t[3], "PortDDR", {}, {p}) /\ Stores(t[5], "IntType", IF k.edge THEN {p} ELSE {}, {p})
        /\ Stores(t[7], "IntPolarity", IF k.high THEN {p} ELSE {}, {p})
        /\ Stores(t[8], "PortEOI", {p}, Pins) /\ Stores(t[10], "IntMask", {}, {p}) /\ Places(c) = 1 .. 11
    BY DEF Enables, Places
  <1>2. 3 \in 1 .. 11 /\ 5 \in 1 .. 11 /\ 7 \in 1 .. 11 /\ 8 \in 1 .. 11 /\ 10 \in 1 .. 11
    OBVIOUS
  <1>3. Makes(c, "PortDDR", p, FALSE)
    <2>1. Makes(c, "PortDDR", p, p \in {})
      BY <1>1, <1>2, OnlyStore
    <2>2. QED
      BY <2>1 DEF Makes, Gives
  <1>4. Makes(c, "IntType", p, k.edge)
    <2> DEFINE set == IF k.edge THEN {p} ELSE {}
    <2>1. set \in SUBSET Pins /\ (p \in set <=> k.edge) /\ p \in set \cup {p}
      OBVIOUS
    <2>2. Stores(t[5], "IntType", set, {p})
      BY <1>1
    <2> HIDE DEF set
    <2>3. Makes(c, "IntType", p, p \in set)
      BY <1>1, <1>2, <2>1, <2>2, OnlyStore
    <2>4. QED
      BY <2>1, <2>3 DEF Makes, Gives
  <1>5. Makes(c, "IntPolarity", p, k.high)
    <2> DEFINE set == IF k.high THEN {p} ELSE {}
    <2>1. set \in SUBSET Pins /\ (p \in set <=> k.high) /\ p \in set \cup {p}
      OBVIOUS
    <2>2. Stores(t[7], "IntPolarity", set, {p})
      BY <1>1
    <2> HIDE DEF set
    <2>3. Makes(c, "IntPolarity", p, p \in set)
      BY <1>1, <1>2, <2>1, <2>2, OnlyStore
    <2>4. QED
      BY <2>1, <2>3 DEF Makes, Gives
  <1>6. Makes(c, "IntMask", p, FALSE)
    <2>1. Makes(c, "IntMask", p, p \in {})
      BY <1>1, <1>2, OnlyStore
    <2>2. QED
      BY <2>1 DEF Makes, Gives
  <1>7. EoiDue(c, p)
    BY <1>1, <1>2 DEF EoiDue, Stores, IsStore, Reach
  <1>8. QED
    BY <1>3, <1>4, <1>5, <1>6, <1>7

LEMMA DisableMakes ==
  ASSUME NEW p \in Pins, NEW c, Disables(c.todo, p), c.name = "disable", Ordered(c)
  PROVE  Makes(c, "IntMask", p, TRUE)
  <1>1. Stores(c.todo[3], "IntMask", {p}, {p}) /\ Places(c) = 1 .. 4
    BY DEF Disables, Places
  <1>2. 3 \in 1 .. 4
    OBVIOUS
  <1>3. Makes(c, "IntMask", p, p \in {p})
    BY <1>1, <1>2, OnlyStore
  <1>4. QED
    BY <1>3 DEF Makes, Gives

LEMMA ChangeMakes ==
  ASSUME NEW r \in G!Registers, NEW set \in SUBSET Pins, NEW clear \in SUBSET Pins, NEW c,
         Changes(c.todo, r, set, clear), c.name # "start", Ordered(c), NEW q \in set \cup clear
  PROVE  Makes(c, r, q, q \in set)
  <1>1. Stores(c.todo[2], r, set, clear) /\ Places(c) = 1 .. 2 /\ q \in Pins
    BY DEF Changes, Places
  <1>2. 2 \in 1 .. 2
    OBVIOUS
  <1>3. QED
    BY <1>1, <1>2, OnlyStore

LEMMA ServeMakes ==
  ASSUME NEW pins \in SUBSET Pins, NEW level \in SUBSET pins, NEW c,
         Serves(c.todo, level, pins), c.name = "active", Ordered(c), NEW q \in Pins
  PROVE  /\ Hits(c, "IntMask", q) <=> q \in level
         /\ Gives(c, "IntMask", q, TRUE)
  <1>1. Stores(c.todo[2], "IntMask", level, level) /\ Places(c) = 1 .. 3
    BY DEF Serves, Places
  <1>2. 2 \in 1 .. 3
    OBVIOUS
  <1>3. ASSUME NEW i \in Places(c), IsStore(c.todo[i], "IntMask") PROVE i = 2
    BY <1>1, <1>2, <1>3 DEF Ordered, Stores, IsStore
  <1>4. IsStore(c.todo[2], "IntMask") /\ Reach(c.todo[2]) = Pins /\ c.todo[2].set = level /\ c.todo[2].clear = level
    BY <1>1 DEF Stores, IsStore, Reach
  <1>5. \A i \in Places(c) : Sets(c.todo[i], "IntMask", q) <=> i = 2 /\ q \in level
    BY <1>3, <1>4 DEF Sets
  <1>6. QED
    BY <1>1, <1>2, <1>4, <1>5 DEF Hits, Gives, LastSets

LEMMA ReconfigureMakes ==
  ASSUME NEW p \in Pins, NEW k, NEW c, Reconfigures(c.todo, p, k), c.name = "reconfigure", Ordered(c)
  PROVE  Makes(c, "PortDDR", p, FALSE) /\ Makes(c, "IntType", p, k.edge) /\ Makes(c, "IntPolarity", p, k.high)
  <1> DEFINE t == c.todo
  <1>1. /\ Stores(t[3], "PortDDR", {}, {p}) /\ Stores(t[5], "IntType", IF k.edge THEN {p} ELSE {}, {p})
        /\ Stores(t[7], "IntPolarity", IF k.high THEN {p} ELSE {}, {p}) /\ Places(c) = 1 .. 7
    BY DEF Reconfigures, Places
  <1>2. 3 \in 1 .. 7 /\ 5 \in 1 .. 7 /\ 7 \in 1 .. 7
    OBVIOUS
  <1>3. Makes(c, "PortDDR", p, FALSE)
    <2>1. Makes(c, "PortDDR", p, p \in {})
      BY <1>1, <1>2, OnlyStore
    <2>2. QED
      BY <2>1 DEF Makes, Gives
  <1>4. Makes(c, "IntType", p, k.edge)
    <2> DEFINE set == IF k.edge THEN {p} ELSE {}
    <2>1. set \in SUBSET Pins /\ (p \in set <=> k.edge) /\ p \in set \cup {p}
      OBVIOUS
    <2>2. Stores(t[5], "IntType", set, {p})
      BY <1>1
    <2> HIDE DEF set
    <2>3. Makes(c, "IntType", p, p \in set)
      BY <1>1, <1>2, <2>1, <2>2, OnlyStore
    <2>4. QED
      BY <2>1, <2>3 DEF Makes, Gives
  <1>5. Makes(c, "IntPolarity", p, k.high)
    <2> DEFINE set == IF k.high THEN {p} ELSE {}
    <2>1. set \in SUBSET Pins /\ (p \in set <=> k.high) /\ p \in set \cup {p}
      OBVIOUS
    <2>2. Stores(t[7], "IntPolarity", set, {p})
      BY <1>1
    <2> HIDE DEF set
    <2>3. Makes(c, "IntPolarity", p, p \in set)
      BY <1>1, <1>2, <2>1, <2>2, OnlyStore
    <2>4. QED
      BY <2>1, <2>3 DEF Makes, Gives
  <1>6. QED
    BY <1>3, <1>4, <1>5

\* A store behind which nothing is stored to the register.
LEMMA LastStore ==
  ASSUME NEW c, NEW i \in Places(c), NEW r, NEW set \in SUBSET Pins, Stores(c.todo[i], r, set, Pins),
         \A j \in Places(c) : IsStore(c.todo[j], r) => j <= i, c.todo \in Seq(Accesses), NEW q \in Pins
  PROVE  Makes(c, r, q, q \in set)
  <1>1. IsStore(c.todo[i], r) /\ Reach(c.todo[i]) = Pins /\ c.todo[i].set = set /\ c.todo[i].clear = Pins
    BY DEF Stores, IsStore, Reach
  <1>2. Sets(c.todo[i], r, q)
    BY <1>1 DEF Sets
  <1>3. ASSUME NEW j \in Places(c), LastSets(c, j, r, q) PROVE j = i
    <2>1. IsStore(c.todo[j], r) /\ j <= i /\ ~(i > j)
      BY <1>2, <1>3 DEF LastSets, Sets
    <2>2. i \in Int /\ j \in Int
      BY DEF Places
    <2>3. QED
      BY <2>1, <2>2
  <1>4. QED
    BY <1>1, <1>2, <1>3 DEF Makes, Hits, Gives

Restored == {"PortDR", "IntType", "IntPolarity", "PortDDR", "IntMask"}

LEMMA StartMakes ==
  ASSUME NEW restore \in BOOLEAN, NEW c, Starts(c.todo, restore), c.name = "start", NEW q \in Pins,
         bankSaved \in [G!SavedRegisters -> SUBSET Pins]
  PROVE  /\ Makes(c, "IntEn", q, TRUE) /\ EoiDue(c, q)
         /\ restore => \A r \in Restored : Makes(c, r, q, q \in bankSaved[r])
         /\ ~restore => Makes(c, "IntMask", q, TRUE)
  <1> DEFINE t == c.todo
             n == IF restore THEN 8 ELSE 3
  <1>0. Places(c) = 1 .. n /\ c.todo \in Seq(Accesses)
    BY DEF Places, Starts
  <1>1. /\ Stores(t[1], "IntMask", Pins, Pins) /\ Stores(t[2], "PortEOI", Pins, Pins) /\ Stores(t[3], "IntEn", Pins, Pins)
        /\ restore => /\ Stores(t[4], "PortDR", bankSaved["PortDR"], Pins)
                      /\ Stores(t[5], "IntType", bankSaved["IntType"], Pins)
                      /\ Stores(t[6], "IntPolarity", bankSaved["IntPolarity"], Pins)
                      /\ Stores(t[7], "PortDDR", bankSaved["PortDDR"], Pins)
                      /\ Stores(t[8], "IntMask", bankSaved["IntMask"], Pins)
    BY DEF Starts
  <1>2. ASSUME NEW i \in 1 .. n
        PROVE  \/ i = 1 /\ t[i].reg = "IntMask"
               \/ i = 2 /\ t[i].reg = "PortEOI"
               \/ i = 3 /\ t[i].reg = "IntEn"
               \/ i = 4 /\ t[i].reg = "PortDR"
               \/ i = 5 /\ t[i].reg = "IntType"
               \/ i = 6 /\ t[i].reg = "IntPolarity"
               \/ i = 7 /\ t[i].reg = "PortDDR"
               \/ i = 8 /\ t[i].reg = "IntMask" /\ restore
    <2>1. \/ i = 1 \/ i = 2 \/ i = 3
          \/ restore /\ (i = 4 \/ i = 5 \/ i = 6 \/ i = 7 \/ i = 8)
      OBVIOUS
    <2> HIDE DEF t, n
    <2>2. QED
      BY <1>1, <2>1 DEF Stores
  <1>3. \A r \in Restored : bankSaved[r] \in SUBSET Pins
    BY DEF Restored, G!SavedRegisters, G!Registers
  <1>4. 1 \in 1 .. n /\ 2 \in 1 .. n /\ 3 \in 1 .. n /\ (restore => \A i \in 4 .. 8 : i \in 1 .. n)
    OBVIOUS
  <1>5. Pins \in SUBSET Pins
    OBVIOUS
  <1> HIDE DEF n
  <1>6. Makes(c, "IntEn", q, TRUE)
    <2>1. \A j \in Places(c) : IsStore(c.todo[j], "IntEn") => j <= 3
      BY <1>0, <1>2 DEF IsStore
    <2>2. Makes(c, "IntEn", q, q \in Pins)
      BY <1>0, <1>1, <1>4, <1>5, <2>1, LastStore
    <2>3. QED
      BY <2>2 DEF Makes, Gives
  <1>7. EoiDue(c, q)
    BY <1>0, <1>1, <1>4 DEF EoiDue, Stores, IsStore, Reach
  <1>8. ASSUME ~restore PROVE Makes(c, "IntMask", q, TRUE)
    <2>1. \A j \in Places(c) : IsStore(c.todo[j], "IntMask") => j <= 1
      BY <1>0, <1>2, <1>8 DEF IsStore
    <2>2. Makes(c, "IntMask", q, q \in Pins)
      BY <1>0, <1>1, <1>4, <1>5, <2>1, LastStore
    <2>3. QED
      BY <2>2 DEF Makes, Gives
  <1>9. ASSUME restore PROVE \A r \in Restored : Makes(c, r, q, q \in bankSaved[r])
    <2>1. \A r \in Restored : \E i \in Places(c) :
            Stores(c.todo[i], r, bankSaved[r], Pins) /\ \A j \in Places(c) : IsStore(c.todo[j], r) => j <= i
      <3>0. \A i \in 4 .. 8 : i \in Places(c)
        BY <1>0, <1>4, <1>9
      <3>1. 4 \in Places(c) /\ \A j \in Places(c) : IsStore(c.todo[j], "PortDR") => j <= 4
        BY <1>0, <1>2, <3>0 DEF IsStore
      <3>2. 5 \in Places(c) /\ \A j \in Places(c) : IsStore(c.todo[j], "IntType") => j <= 5
        BY <1>0, <1>2, <3>0 DEF IsStore
      <3>3. 6 \in Places(c) /\ \A j \in Places(c) : IsStore(c.todo[j], "IntPolarity") => j <= 6
        BY <1>0, <1>2, <3>0 DEF IsStore
      <3>4. 7 \in Places(c) /\ \A j \in Places(c) : IsStore(c.todo[j], "PortDDR") => j <= 7
        BY <1>0, <1>2, <3>0 DEF IsStore
      <3>5. 8 \in Places(c) /\ \A j \in Places(c) : IsStore(c.todo[j], "IntMask") => j <= 8
        BY <1>0, <1>2, <3>0 DEF IsStore
      <3>6. QED
        BY <1>1, <1>9, <3>1, <3>2, <3>3, <3>4, <3>5 DEF Restored
    <2>2. QED
      BY <1>0, <1>3, <2>1, LastStore
  <1>10. QED
    BY <1>6, <1>7, <1>8, <1>9

LEMMA RestoreMakes ==
  ASSUME NEW c, Restores(c.todo), c.name = "start", NEW q \in Pins, bankSaved \in [G!SavedRegisters -> SUBSET Pins]
  PROVE  /\ \A r \in Restored : Makes(c, r, q, q \in bankSaved[r])
         /\ ~EoiDue(c, q) /\ ~Hits(c, "IntEn", q) /\ \A v : Gives(c, "IntEn", q, v)
  <1> DEFINE t == c.todo
  <1>0. Places(c) = 1 .. 5 /\ c.todo \in Seq(Accesses)
    BY DEF Places, Restores
  <1>1. /\ Stores(t[1], "PortDR", bankSaved["PortDR"], Pins)
        /\ Stores(t[2], "IntType", bankSaved["IntType"], Pins)
        /\ Stores(t[3], "IntPolarity", bankSaved["IntPolarity"], Pins)
        /\ Stores(t[4], "PortDDR", bankSaved["PortDDR"], Pins)
        /\ Stores(t[5], "IntMask", bankSaved["IntMask"], Pins)
    BY DEF Restores
  <1>2. ASSUME NEW i \in 1 .. 5
        PROVE  \/ i = 1 /\ t[i].reg = "PortDR"
               \/ i = 2 /\ t[i].reg = "IntType"
               \/ i = 3 /\ t[i].reg = "IntPolarity"
               \/ i = 4 /\ t[i].reg = "PortDDR"
               \/ i = 5 /\ t[i].reg = "IntMask"
    <2>1. i = 1 \/ i = 2 \/ i = 3 \/ i = 4 \/ i = 5
      OBVIOUS
    <2> HIDE DEF t
    <2>2. QED
      BY <1>1, <2>1 DEF Stores
  <1>3. \A r \in Restored : bankSaved[r] \in SUBSET Pins
    BY DEF Restored, G!SavedRegisters, G!Registers
  <1>4. \A r \in Restored : \E i \in Places(c) :
          Stores(c.todo[i], r, bankSaved[r], Pins) /\ \A j \in Places(c) : IsStore(c.todo[j], r) => j <= i
    <2>1. 1 \in Places(c) /\ \A j \in Places(c) : IsStore(c.todo[j], "PortDR") => j <= 1
      BY <1>0, <1>2 DEF IsStore
    <2>2. 2 \in Places(c) /\ \A j \in Places(c) : IsStore(c.todo[j], "IntType") => j <= 2
      BY <1>0, <1>2 DEF IsStore
    <2>3. 3 \in Places(c) /\ \A j \in Places(c) : IsStore(c.todo[j], "IntPolarity") => j <= 3
      BY <1>0, <1>2 DEF IsStore
    <2>4. 4 \in Places(c) /\ \A j \in Places(c) : IsStore(c.todo[j], "PortDDR") => j <= 4
      BY <1>0, <1>2 DEF IsStore
    <2>5. 5 \in Places(c) /\ \A j \in Places(c) : IsStore(c.todo[j], "IntMask") => j <= 5
      BY <1>0, <1>2 DEF IsStore
    <2>6. QED
      BY <1>1, <2>1, <2>2, <2>3, <2>4, <2>5 DEF Restored
  <1>5. \A r \in Restored : Makes(c, r, q, q \in bankSaved[r])
    BY <1>0, <1>3, <1>4, LastStore
  <1>6. \A j \in Places(c) : ~IsStore(c.todo[j], "IntEn") /\ ~IsStore(c.todo[j], "PortEOI")
    BY <1>0, <1>2 DEF IsStore
  <1>7. QED
    BY <1>5, <1>6 DEF EoiDue, Hits, Gives, LastSets, Sets

-----------------------------------------------------------------------------
(* Callbacks begin and return.                                             *)

LEMMA CallbackOf ==
  \A n, x, t : /\ G!Callback(n, x, t).name = n /\ G!Callback(n, x, t).pins = x
               /\ G!Callback(n, x, t).todo = t /\ DOMAIN G!Callback(n, x, t).val = {}
  BY DEF G!Callback

LEMMA CallbackIn ==
  \A n, x, t : n \in IoNames \cup IsrNames /\ x \in SUBSET Pins /\ t \in Seq(Accesses) => G!Callback(n, x, t) \in Calls
  BY CallbackIs

LEMMA NoHitsGives ==
  ASSUME NEW c, NEW r, NEW p, ~Hits(c, r, p)
  PROVE  \A v : Gives(c, r, p, v)
  BY DEF Hits, Gives, LastSets

LEMMA IdleIs ==
  /\ G!Idle \in Calls /\ Listed(G!Idle) /\ Halves(G!Idle) /\ \A b : AgreeWith(b, G!Idle)
  /\ G!Idle.name = "none" /\ G!Idle.pins = {} /\ G!Idle.todo = <<>>
  /\ \A r, p : ~Hits(G!Idle, r, p) /\ ~EoiDue(G!Idle, p) /\ \A v : Gives(G!Idle, r, p, v)
  <1>0. /\ G!Idle.name = "none" /\ G!Idle.pins = {} /\ G!Idle.todo = <<>> /\ DOMAIN G!Idle.val = {}
    BY DEF G!Idle
  <1>1. G!Idle \in Calls
    <2>1. G!Idle = G!Callback("none", {}, <<>>)
      BY DEF G!Idle, G!Callback
    <2>2. "none" \in IoNames \cup IsrNames /\ {} \in SUBSET Pins /\ <<>> \in Seq(Accesses)
      BY DEF IoNames
    <2>3. QED
      BY <2>1, <2>2, CallbackIs
  <1>2. \A i : i \notin Places(G!Idle)
    BY <1>0 DEF Places
  <1>3. MayUse(G!Idle.name) = {} /\ G!Idle.name \notin Saving /\ G!Idle.name # "start"
    BY <1>0 DEF MayUse, Saving
  <1>4. Listed(G!Idle)
    BY <1>0, <1>2, <1>3 DEF Listed, Mine, Loaded, Locked, Ordered
  <1>5. Halves(G!Idle) /\ \A b : AgreeWith(b, G!Idle)
    BY <1>0, <1>2 DEF Halves, AgreeWith
  <1>6. \A r, p : ~Hits(G!Idle, r, p) /\ ~EoiDue(G!Idle, p) /\ \A v : Gives(G!Idle, r, p, v)
    BY <1>0, NothingLeft
  <1>7. QED
    BY <1>0, <1>1, <1>4, <1>5, <1>6

\* A side's callback becomes another, a new one or none.
Becomes(s, d) == call' = [call EXCEPT ![s] = d]

LEMMA BecomesIs ==
  ASSUME Sound, NEW s \in G!Sides, NEW d \in Calls, Becomes(s, d)
  PROVE  /\ call' \in [G!Sides -> Calls] /\ call'[s] = d
         /\ \A o \in G!Sides : o # s => call'[o] = call[o]
         /\ s = "io" => Io' = d /\ Isr' = Isr
         /\ s = "isr" => Isr' = d /\ Io' = Io
  <1>1. call \in [G!Sides -> Calls] /\ G!Sides = {"io", "isr"}
    BY SidesAre DEF Sound, BankTypes
  <1>2. QED
    BY <1>1 DEF Becomes, Io, Isr

\* A list as the invariant wants it.
Proper(b, d) == d \in Calls /\ Listed(d) /\ Halves(d) /\ AgreeWith(b, d) /\ (d.name = "none" => d = G!Idle)

LEMMA ListBecomes ==
  ASSUME Sound, NEW s \in G!Sides, NEW d, Becomes(s, d), Proper(reg, d), reg' = reg, type' = type
  PROVE  ListInv' /\ call' \in [G!Sides -> Calls]
  <1>1. /\ call' \in [G!Sides -> Calls] /\ call'[s] = d /\ \A o \in G!Sides : o # s => call'[o] = call[o]
    BY BecomesIs DEF Proper
  <1>2. ASSUME NEW o \in G!Sides
        PROVE  /\ Listed(call'[o]) /\ Halves(call'[o]) /\ AgreeWith(reg, call'[o])
               /\ call'[o].name = "none" => call'[o] = G!Idle
    <2>1. CASE o = s
      BY <1>1, <2>1 DEF Proper
    <2>2. CASE o # s
      <3>1. Listed(call[o]) /\ Halves(call[o]) /\ AgreeWith(reg, call[o]) /\ (call[o].name = "none" => call[o] = G!Idle)
        BY DEF Sound, ListInv, Agree
      <3>2. QED
        BY <1>1, <2>2, <3>1
    <2>3. QED
      BY <2>1, <2>2
  <1>3. ASSUME NEW o \in G!Sides
        PROVE  (Listed(call[o]) /\ Halves(call[o]) /\ Agree(call[o]) /\ (call[o].name = "none" => call[o] = G!Idle))'
    BY <1>2 DEF Halves, Agree
  <1>4. ListInv'
    BY <1>3 DEF ListInv
  <1>5. QED
    BY <1>1, <1>4

LEMMA BegunProper ==
  ASSUME NEW d \in Calls, NEW name, name # "none", NEW pins, Listed(d), Begun(d, name, pins)
  PROVE  Proper(reg, d) /\ d.name = name /\ d.pins = pins
  <1>1. d.name = name /\ d.pins = pins
    BY DEF Begun
  <1>2. QED
    BY <1>1, BegunAgrees DEF Proper

LEMMA IdleProper == \A b : Proper(b, G!Idle)
  BY IdleIs DEF Proper

\* The serialised side begins something on other lines.
LEMMA Elsewhere ==
  ASSUME GpioInv, bankPower = "on", Io = G!Idle, Isr' = Isr, Mine(Io'), Io'.name # "start",
         NEW p \in Pins, p \notin Io'.pins, use'[p] = use[p], p \in driven' <=> p \in driven,
         reg' = reg, latched' = latched, masked' = masked, pending' = pending, bankPower' = bankPower
  PROVE  ModeOf(p)' /\ MaskOf(p)' /\ EdgeOf(p)'
  <1>1. /\ \A r : r # "PortEOI" => ~Hits(Io', r, p) /\ \A v : Gives(Io', r, p, v)
        /\ ~EoiDue(Io', p)
    <2>1. \A r : r # "PortEOI" => ~Hits(Io', r, p) /\ ~EoiDue(Io', p) /\ \A v : Gives(Io', r, p, v)
      BY NotMine
    <2>2. "PortDR" # "PortEOI"
      OBVIOUS
    <2>3. QED
      BY <2>1, <2>2
  <1>2. /\ \A r : ~Hits(Io, r, p) /\ \A v : Gives(Io, r, p, v)
        /\ ~EoiDue(Io, p) /\ Io.name = "none" /\ Io.pins = {}
    BY IdleIs
  <1>3. ModeOf(p) /\ MaskOf(p) /\ EdgeOf(p)
    BY DEF GpioInv, Values, ModeInv, MaskInv, EdgeInv
  <1>4. ASSUME NEW r, r # "PortEOI", NEW v, NEW w, v <=> w, Asked(r, p, v)
        PROVE  Settled(Io', Isr', reg', r, p, w)
    BY <1>1, <1>2, <1>4 DEF Asked, Settled, Gives
  <1>5. ModeOf(p)'
    <2>1. ASSUME NEW r \in {"PortDR", "PortDDR", "IntType", "IntPolarity"}, NEW v, Asked(r, p, v)
          PROVE  Settled(Io', Isr', reg', r, p, v)
      BY <1>4, <2>1
    <2>2. Asked("PortDR", p, p \in driven) => Settled(Io', Isr', reg', "PortDR", p, p \in driven')
      BY <1>4
    <2>3. QED
      BY <1>3, <2>1, <2>2 DEF ModeOf, Asked
  <1>6. MaskOf(p)'
    <2>1. MaskedThen(p)' <=> MaskedThen(p)
      BY DEF MaskedThen, Isr
    <2>2. CASE use[p].as # "irq"
      BY <1>3, <2>2 DEF MaskOf
    <2>3. CASE use[p].as = "irq"
      <3>1. Holds(Isr, reg, "IntMask", p, MaskedThen(p))
        BY <1>2, <1>3, <2>3 DEF MaskOf, NotEnabled, Enabled, NotDisabled, Disabled, InUse, Enabling, Disabling
      <3>2. Holds(Isr', reg', "IntMask", p, MaskedThen(p)')
        BY <2>1, <3>1 DEF Holds, Gives
      <3>3. InUse(p)'
        BY <3>2 DEF InUse
      <3>4. QED
        BY <2>3, <3>3 DEF MaskOf
    <2>4. QED
      BY <2>2, <2>3
  <1>7. EdgeOf(p)'
    <2>1. ~Dirty(p) /\ ~(Dirty(p)')
      BY <1>1, <1>2 DEF Dirty
    <2>2. \A r \in {"IntType", "IntPolarity"} : ~Hits(Io', r, p) /\ (Hits(Isr', r, p) <=> Hits(Isr, r, p))
      BY <1>1
    <2>3. \A r \in {"IntType", "IntPolarity"} : use[p].as = "irq" => (Hits(Isr, r, p) => use[p].both)
      BY <1>3 DEF EdgeOf
    <2>4. QED
      BY <1>3, <2>1, <2>2, <2>3 DEF EdgeOf
  <1>8. QED
    BY <1>5, <1>6, <1>7

\* What the serialised side does with the lines when the bank is on.
Serialised == {"connect", "disconnect", "write", "enable", "disable"}

LEMMA IoBegins ==
  ASSUME GpioInv, bankPower = "on", Io = G!Idle, NEW d \in Calls, Becomes("io", d), d.name \in Serialised,
         Listed(d), Begun(d, d.name, d.pins),
         d.name \in {"connect", "disconnect"} => Isr.name # "reconfigure",
         d.name \in Locking => d.todo[1].do = "acquire",
         use' \in [Pins -> Uses],
         bankPower' = bankPower, type' = type, reg' = reg, latched' = latched, bankSaved' = bankSaved, lock' = lock,
         masked' = masked, pending' = pending,
         \A p \in Pins : p \notin d.pins => use'[p] = use[p] /\ (p \in driven' <=> p \in driven),
         \A p \in Pins : use[p].as = "irq" => use'[p] = use[p],
         d.name \in Locking => \A p \in d.pins : use'[p].as = "irq",
         \A p \in Pins : p \in d.pins => ModeOf(p)' /\ MaskOf(p)' /\ EdgeOf(p)'
  PROVE  GpioInv'
  <1>0. Sound /\ d.name # "none" /\ d.name \notin Saving /\ d.name # "start" /\ d.name \in IoNames /\ d.todo # <<>>
    BY DEF GpioInv, Serialised, Saving, IoNames, Locking, Begun
  <1>1. Io' = d /\ Isr' = Isr
    BY <1>0, BecomesIs, SidesAre
  <1>2. ListInv' /\ call' \in [G!Sides -> Calls]
    BY <1>0, BegunProper, ListBecomes, SidesAre
  <1>3. BankTypes'
    BY <1>0, <1>1, <1>2 DEF Sound, BankTypes
  <1>4. LockInv'
    <2>1. lock # "io" /\ (lock = "isr" <=> Isr.name # "none")
      BY <1>0, IdleIs DEF Sound, LockInv, Locking
    <2>2. ~(Io'.name \in Locking /\ Io'.todo # <<>> /\ Io'.todo[1].do # "acquire")
      BY <1>1
    <2>3. QED
      BY <1>1, <2>1, <2>2 DEF LockInv
  <1>5. PowerInv'
    BY <1>0, <1>1 DEF PowerInv
  <1>6. Sound'
    BY <1>2, <1>3, <1>4, <1>5 DEF Sound
  <1>7. Mine(Io') /\ Io'.name # "start" /\ Io'.pins = d.pins
    BY <1>0, <1>1 DEF Listed
  <1>8. ASSUME NEW p \in Pins PROVE ModeOf(p)' /\ MaskOf(p)' /\ EdgeOf(p)'
    <2>1. CASE p \in d.pins
      BY <2>1
    <2>2. CASE p \notin d.pins
      BY <1>1, <1>7, <2>2, Elsewhere
    <2>3. QED
      BY <2>1, <2>2
  <1>9. ModeInv' /\ MaskInv' /\ EdgeInv'
    BY <1>8 DEF ModeInv, MaskInv, EdgeInv
  <1>10. EnableInv'
    <2>1. "IntEn" \notin MayUse(Io'.name)
      BY <1>0, <1>1 DEF MayUse, Serialised, Locking, Saving, Modes
    <2>2. ASSUME NEW p \in Pins PROVE Holds(Io', reg', "IntEn", p, TRUE)
      <3>1. Holds(Io, reg, "IntEn", p, TRUE) /\ ~Hits(Io, "IntEn", p)
        BY IdleIs DEF GpioInv, Values, EnableInv
      <3>2. ~Hits(Io', "IntEn", p) /\ Gives(Io', "IntEn", p, TRUE)
        BY <1>7, <2>1, NotUsed
      <3>3. QED
        BY <3>1, <3>2 DEF Holds
    <2>3. QED
      BY <2>2 DEF EnableInv
  <1>11. UseInv'
    <2>1. UseInv
      BY DEF GpioInv, Values
    <2>2. QED
      BY <1>1, <1>7, <2>1 DEF UseInv
  <1>12. DriveInv' /\ StartInv' /\ SavedInv' /\ QuietInv'
    BY DEF DriveInv, StartInv, SavedInv, QuietInv
  <1>13. QED
    BY <1>6, <1>9, <1>10, <1>11, <1>12 DEF GpioInv, Values

\* What the interrupt side does not touch: lines that do not interrupt.
LEMMA IsrElsewhere ==
  ASSUME GpioInv, NEW p \in Pins, use[p].as # "irq", NEW r \in G!Registers
  PROVE  ~Hits(Isr, r, p) /\ \A v : Gives(Isr, r, p, v)
  <1>1. p \notin Isr.pins
    BY DEF GpioInv, Values, UseInv
  <1>2. Mine(Isr) /\ Isr.name # "start"
    BY SidesAre DEF GpioInv, Sound, ListInv, BankTypes, Listed, IsrNames, Isr
  <1>3. r # "PortEOI"
    BY DEF G!Registers
  <1>4. QED
    BY <1>1, <1>2, <1>3, NotMine

LEMMA BankOn ==
  ASSUME GpioInv, bankPower = "on"
  PROVE  /\ \A p \in Pins : ModeOf(p) /\ MaskOf(p) /\ EdgeOf(p)
         /\ reg \in [G!Registers -> SUBSET Pins] /\ use \in [Pins -> Uses]
         /\ bankSaved \in [G!SavedRegisters -> SUBSET Pins] /\ Sound
         /\ \A p \in Pins : use[p].as # "irq" => p \notin masked /\ p \notin pending /\ p \notin Isr.pins
  BY DEF GpioInv, Values, ModeInv, MaskInv, EdgeInv, UseInv, Sound, BankTypes

LEMMA UsesAs == \A what \in {"none", "in", "out"} : G!As(what) \in Uses /\ G!As(what).as = what
  BY DEF Uses, G!As

\* A line that is not, and was not, one that interrupts.
LEMMA MaskEdgePlain ==
  ASSUME NEW p \in Pins, MaskOf(p), EdgeOf(p), use[p].as # "irq", use'[p].as # "irq",
         reg' = reg, latched' = latched, pending' = pending, p \notin pending
  PROVE  MaskOf(p)' /\ EdgeOf(p)'
  BY DEF MaskOf, EdgeOf

LEMMA ConnectKept ==
  ASSUME GpioInv, NEW pins \in SUBSET Pins, NEW output \in BOOLEAN, G!ConnectIoPins(pins, output)
  PROVE  GpioInv'
  <1> DEFINE t == G!RockchipGpioConnectIoPins(pins, output)
             d == G!Callback("connect", pins, t)
             set == IF output THEN pins ELSE {}
             as == G!As(IF output THEN "out" ELSE "in")
  <1>0. /\ bankPower = "on" /\ Io = G!Idle /\ Becomes("io", d) /\ Isr.name # "reconfigure"
        /\ \A p \in pins : use[p].as = "none"
        /\ use' = [p \in Pins |-> IF p \in pins THEN as ELSE use[p]]
        /\ driven' = IF output THEN (driven \ pins) \cup (pins \cap reg["PortDR"]) ELSE driven
        /\ bankPower' = bankPower /\ type' = type /\ reg' = reg /\ latched' = latched /\ bankSaved' = bankSaved
        /\ lock' = lock /\ masked' = masked /\ pending' = pending
    BY DEF G!ConnectIoPins, G!Call, G!Undisturbed, G!hardware, Becomes, Io, Isr
  <1>1. t \in Seq(Accesses) /\ Changes(t, "PortDDR", set, pins)
    BY AssignIs, RegistersAre DEF G!RockchipGpioConnectIoPins, Changes
  <1>2. /\ d \in Calls /\ d.name = "connect" /\ d.pins = pins /\ d.todo = t /\ DOMAIN d.val = {}
    <2>1. t \in Seq(Accesses) /\ "connect" \in IoNames \cup IsrNames
      BY <1>1 DEF IoNames
    <2> HIDE DEF t, set, as
    <2>2. QED
      BY <2>1, CallbackIs
  <1>3. as \in Uses /\ as.as = IF output THEN "out" ELSE "in"
    BY UsesAs
  <1> HIDE DEF d, t, as
  <1>4. MayUse(d.name) = {"PortDDR"} /\ set \in SUBSET Pins /\ set \cup pins = pins
    BY <1>2 DEF MayUse, Saving
  <1>5. Listed(d) /\ Begun(d, d.name, d.pins)
    <2>1. /\ "PortDDR" \in G!Registers /\ Changes(d.todo, "PortDDR", set, pins) /\ d.name = "connect"
          /\ DOMAIN d.val = {} /\ "PortDDR" \in MayUse(d.name) /\ set \cup pins \subseteq d.pins
      BY <1>1, <1>2, <1>4, RegistersAre
    <2> HIDE DEF set
    <2>2. set \in SUBSET Pins /\ pins \in SUBSET Pins
      BY <1>4
    <2>3. d.name \in {"connect", "write", "unmask"}
      BY <2>1
    <2>4. MayChange(d, "PortDDR", set, pins)
      BY <2>1, <2>2, <2>3 DEF MayChange
    <2>5. QED
      BY <2>4, ChangeLists
  <1>6. Io' = d /\ Isr' = Isr
    BY <1>0, <1>2, BecomesIs, SidesAre DEF GpioInv
  <1>7. use' \in [Pins -> Uses] /\ (\A p \in Pins : p \in pins => use'[p] = as) /\ (\A p \in Pins : p \notin pins => use'[p] = use[p])
    BY <1>0, <1>3, BankOn
  <1>8. ASSUME NEW p \in Pins, p \in pins PROVE ModeOf(p)' /\ MaskOf(p)' /\ EdgeOf(p)'
    <2>1. use'[p].as = (IF output THEN "out" ELSE "in") /\ use[p].as = "none"
      BY <1>0, <1>3, <1>7, <1>8
    <2>2. MaskOf(p)' /\ EdgeOf(p)'
      BY <1>0, <2>1, MaskEdgePlain, BankOn
    <2>3. \A r \in G!Registers : ~Hits(Isr, r, p) /\ \A v : Gives(Isr, r, p, v)
      BY <2>1, IsrElsewhere
    <2>4. Settled(Io', Isr', reg', "PortDDR", p, output)
      <3>1. Makes(d, "PortDDR", p, p \in set)
        BY <1>1, <1>2, <1>4, <1>5, <1>8, ChangeMakes, RegistersAre DEF Listed
      <3>2. p \in set <=> output
        BY <1>8
      <3>3. Gives(d, "PortDDR", p, output) /\ Hits(d, "PortDDR", p)
        BY <3>1, <3>2 DEF Makes, Gives
      <3>4. QED
        BY <1>6, <2>3, <3>3, RegistersAre DEF Settled
    <2>5. output => Settled(Io', Isr', reg', "PortDR", p, p \in driven')
      <3>1. ~Hits(d, "PortDR", p) /\ \A v : Gives(d, "PortDR", p, v)
        BY <1>4, <1>5, NotUsed DEF Listed
      <3>2. output => (p \in driven' <=> p \in reg["PortDR"])
        BY <1>0, <1>8
      <3>3. QED
        BY <1>0, <1>6, <2>3, <3>1, <3>2, RegistersAre DEF Settled
    <2>6. ModeOf(p)'
      <3>1. output = TRUE \/ output = FALSE
        OBVIOUS
      <3>2. QED
        BY <2>1, <2>4, <2>5, <3>1 DEF ModeOf, Asked
    <2>7. QED
      BY <2>2, <2>6
  <1>9. \A p \in Pins : p \notin pins => (p \in driven' <=> p \in driven)
    BY <1>0
  <1>10. \A p \in Pins : use[p].as = "irq" => use'[p] = use[p]
    BY <1>0, <1>7
  <1>11. QED
    BY <1>0, <1>2, <1>5, <1>7, <1>8, <1>9, <1>10, IoBegins DEF Serialised, Locking

LEMMA DisconnectKept ==
  ASSUME GpioInv, NEW pins \in SUBSET Pins, G!DisconnectIoPins(pins)
  PROVE  GpioInv'
  <1> DEFINE t == G!RockchipGpioDisconnectIoPins(pins)
             d == G!Callback("disconnect", pins, t)
  <1>0. /\ bankPower = "on" /\ Io = G!Idle /\ Becomes("io", d) /\ Isr.name # "reconfigure"
        /\ \A p \in pins : use[p].as \in {"in", "out"}
        /\ use' = [p \in Pins |-> IF p \in pins THEN G!As("none") ELSE use[p]]
        /\ driven' = driven \ pins
        /\ bankPower' = bankPower /\ type' = type /\ reg' = reg /\ latched' = latched /\ bankSaved' = bankSaved
        /\ lock' = lock /\ masked' = masked /\ pending' = pending
    BY DEF G!DisconnectIoPins, G!Call, G!Undisturbed, G!hardware, Becomes, Io, Isr
  <1>1. t \in Seq(Accesses) /\ Disconnects(t, pins)
    BY DisconnectIs DEF Disconnects
  <1>2. d \in Calls /\ d.name = "disconnect" /\ d.pins = pins /\ d.todo = t /\ DOMAIN d.val = {}
    BY <1>1, CallbackIs DEF IoNames
  <1> HIDE DEF d, t
  <1>3. Listed(d) /\ Begun(d, d.name, d.pins)
    BY <1>1, <1>2, DisconnectLists
  <1>4. use' \in [Pins -> Uses] /\ (\A p \in Pins : p \in pins => use'[p].as = "none") /\ (\A p \in Pins : p \notin pins => use'[p] = use[p])
    BY <1>0, BankOn, UsesAs
  <1>5. ASSUME NEW p \in Pins, p \in pins PROVE ModeOf(p)' /\ MaskOf(p)' /\ EdgeOf(p)'
    <2>1. use'[p].as = "none" /\ use[p].as # "irq"
      BY <1>0, <1>4, <1>5
    <2>2. MaskOf(p)' /\ EdgeOf(p)'
      BY <1>0, <2>1, MaskEdgePlain, BankOn
    <2>3. ModeOf(p)'
      BY <2>1 DEF ModeOf
    <2>4. QED
      BY <2>2, <2>3
  <1>6. \A p \in Pins : p \notin pins => (p \in driven' <=> p \in driven)
    BY <1>0
  <1>7. \A p \in Pins : use[p].as = "irq" => use'[p] = use[p]
    BY <1>0, <1>4
  <1>8. QED
    BY <1>0, <1>2, <1>3, <1>4, <1>5, <1>6, <1>7, IoBegins DEF Serialised, Locking

LEMMA WriteKept ==
  ASSUME GpioInv, NEW set \in SUBSET Pins, NEW clear \in SUBSET Pins, G!WriteGpioPins(set, clear)
  PROVE  GpioInv'
  <1> DEFINE t == G!RockchipGpioWriteGpioPins(set, clear)
             pins == set \cup clear
             d == G!Callback("write", pins, t)
  <1>0. /\ bankPower = "on" /\ Io = G!Idle /\ Becomes("io", d) /\ set \cap clear = {}
        /\ \A p \in pins : use[p].as = "out"
        /\ driven' = (driven \ clear) \cup set /\ use' = use
        /\ bankPower' = bankPower /\ type' = type /\ reg' = reg /\ latched' = latched /\ bankSaved' = bankSaved
        /\ lock' = lock /\ masked' = masked /\ pending' = pending
    BY DEF G!WriteGpioPins, G!Call, G!hardware, Becomes, Io
  <1>1. t \in Seq(Accesses) /\ Changes(t, "PortDR", set, clear)
    <2>1. set \ clear = set
      BY <1>0
    <2>2. t = G!Change("PortDR", set, clear)
      BY <2>1 DEF G!RockchipGpioWriteGpioPins
    <2>3. QED
      BY <2>2, ChangeIs, RegistersAre DEF Changes
  <1>2. d \in Calls /\ d.name = "write" /\ d.pins = pins /\ d.todo = t /\ DOMAIN d.val = {}
    <2>1. pins \in SUBSET Pins
      OBVIOUS
    <2>2. t \in Seq(Accesses) /\ "write" \in IoNames \cup IsrNames
      BY <1>1 DEF IoNames
    <2> HIDE DEF t, pins
    <2>3. d \in Calls
      BY <2>1, <2>2, CallbackIn
    <2>4. QED
      BY <2>3, CallbackOf
  <1> HIDE DEF d, t
  <1>3. MayUse(d.name) = {"PortDR"} /\ set \cup clear \subseteq d.pins
    BY <1>2 DEF MayUse, Saving
  <1>4. Listed(d) /\ Begun(d, d.name, d.pins)
    <2>1. MayChange(d, "PortDR", set, clear)
      BY <1>1, <1>2, <1>3, RegistersAre DEF MayChange
    <2>2. QED
      BY <2>1, ChangeLists
  <1>5. Io' = d /\ Isr' = Isr
    BY <1>0, <1>2, BecomesIs, SidesAre DEF GpioInv
  <1>6. use' \in [Pins -> Uses]
    BY <1>0, BankOn
  <1>7. ASSUME NEW p \in Pins, p \in pins PROVE ModeOf(p)' /\ MaskOf(p)' /\ EdgeOf(p)'
    <2>1. use'[p].as = "out" /\ use[p].as = "out"
      BY <1>0, <1>7
    <2>2. MaskOf(p)' /\ EdgeOf(p)'
      BY <1>0, <2>1, MaskEdgePlain, BankOn
    <2>3. \A r \in G!Registers : ~Hits(Isr, r, p) /\ \A v : Gives(Isr, r, p, v)
      BY <2>1, IsrElsewhere
    <2>4. Settled(Io', Isr', reg', "PortDDR", p, TRUE)
      <3>1. Asked("PortDDR", p, TRUE) /\ ~Hits(Io, "PortDDR", p)
        BY <1>0, <2>1, BankOn, IdleIs DEF ModeOf
      <3>2. ~Hits(d, "PortDDR", p) /\ Gives(d, "PortDDR", p, TRUE)
        BY <1>3, <1>4, NotUsed DEF Listed
      <3>3. QED
        BY <1>0, <1>5, <2>3, <3>1, <3>2, RegistersAre DEF Settled, Asked
    <2>5. Settled(Io', Isr', reg', "PortDR", p, p \in driven')
      <3>1. Makes(d, "PortDR", p, p \in set)
        BY <1>1, <1>2, <1>4, <1>7, ChangeMakes, RegistersAre DEF Listed
      <3>2. p \in driven' <=> p \in set
        BY <1>0, <1>7
      <3>3. Gives(d, "PortDR", p, p \in driven') /\ Hits(d, "PortDR", p)
        BY <3>1, <3>2 DEF Makes, Gives
      <3>4. QED
        BY <1>5, <2>3, <3>3, RegistersAre DEF Settled
    <2>6. ModeOf(p)'
      BY <2>1, <2>4, <2>5 DEF ModeOf, Asked
    <2>7. QED
      BY <2>2, <2>6
  <1>8. \A p \in Pins : p \notin pins => (p \in driven' <=> p \in driven)
    BY <1>0
  <1>9. QED
    BY <1>0, <1>2, <1>4, <1>6, <1>7, <1>8, IoBegins DEF Serialised, Locking

LEMMA ConfigsAre ==
  ASSUME NEW p \in Pins, NEW k \in Configs[p]
  PROVE  k \in Uses /\ k.as = "irq" /\ k.edge \in BOOLEAN /\ k.high \in BOOLEAN
  <1>1. Configs \in [Pins -> SUBSET [as : {"irq"}, edge : BOOLEAN, high : BOOLEAN, both : BOOLEAN]]
    BY BankAssumption DEF G!GpioAssumption
  <1>2. k \in [as : {"irq"}, edge : BOOLEAN, high : BOOLEAN, both : BOOLEAN]
    BY <1>1
  <1>3. QED
    BY <1>2 DEF Uses

LEMMA EnableKept ==
  ASSUME GpioInv, NEW p \in Pins, NEW k \in Configs[p], G!EnableInterrupt(p, k)
  PROVE  GpioInv'
  <1> DEFINE t == G!RockchipGpioEnableInterrupt(p, k)
             d == G!Callback("enable", {p}, t)
  <1>0. /\ bankPower = "on" /\ Io = G!Idle /\ Becomes("io", d)
        /\ use[p].as = "none" /\ use' = [use EXCEPT ![p] = k] /\ driven' = driven
        /\ bankPower' = bankPower /\ type' = type /\ reg' = reg /\ latched' = latched /\ bankSaved' = bankSaved
        /\ lock' = lock /\ masked' = masked /\ pending' = pending
    BY DEF G!EnableInterrupt, G!Call, G!hardware, Becomes, Io
  <1>1. t \in Seq(Accesses) /\ Enables(t, p, k)
    BY EnableIs DEF Enables
  <1>2. d \in Calls /\ d.name = "enable" /\ d.pins = {p} /\ d.todo = t /\ DOMAIN d.val = {}
    <2>1. {p} \in SUBSET Pins /\ "enable" \in IoNames \cup IsrNames /\ t \in Seq(Accesses)
      BY <1>1 DEF IoNames, Locking
    <2> HIDE DEF t
    <2>2. d \in Calls
      BY <2>1, CallbackIn
    <2>3. QED
      BY <2>2, CallbackOf
  <1> HIDE DEF d, t
  <1>3. Listed(d) /\ Begun(d, d.name, d.pins)
    BY <1>1, <1>2, EnableLists
  <1>4. Io' = d /\ Isr' = Isr
    BY <1>0, <1>2, BecomesIs, SidesAre DEF GpioInv
  <1>5. use' \in [Pins -> Uses] /\ use'[p] = k /\ k.as = "irq" /\ \A q \in Pins : q # p => use'[q] = use[q]
    BY <1>0, BankOn, ConfigsAre
  <1>6. ModeOf(p)' /\ MaskOf(p)' /\ EdgeOf(p)'
    <2>1. /\ Makes(d, "PortDDR", p, FALSE) /\ Makes(d, "IntType", p, k.edge) /\ Makes(d, "IntPolarity", p, k.high)
          /\ Makes(d, "IntMask", p, FALSE) /\ EoiDue(d, p)
      BY <1>1, <1>2, <1>3, EnableMakes DEF Listed
    <2>2. \A r \in G!Registers : ~Hits(Isr, r, p) /\ \A v : Gives(Isr, r, p, v)
      BY <1>0, IsrElsewhere
    <2>3. MaskOf(p) /\ EdgeOf(p) /\ p \notin masked /\ p \notin pending /\ p \notin Isr.pins
      BY <1>0, BankOn
    <2>4. ModeOf(p)'
      <3>1. /\ Settled(Io', Isr', reg', "PortDDR", p, FALSE) /\ Settled(Io', Isr', reg', "IntType", p, use'[p].edge)
            /\ Settled(Io', Isr', reg', "IntPolarity", p, use'[p].high)
        BY <1>4, <1>5, <2>1, <2>2, RegistersAre DEF Settled, Makes
      <3>2. QED
        BY <1>5, <3>1 DEF ModeOf, Asked
    <2>5. Enabling(p)' /\ Dirty(p)'
      BY <1>2, <1>4, <2>1 DEF Enabling, Dirty
    <2>6. NotEnabled(p)'
      BY <1>0, <1>4, <2>1, <2>3, <2>5 DEF NotEnabled, Makes, MaskOf
    <2>7. MaskOf(p)'
      BY <1>5, <2>6 DEF MaskOf
    <2>8. EdgeOf(p)'
      BY <1>0, <1>4, <2>2, <2>3, <2>5, RegistersAre DEF EdgeOf
    <2>9. QED
      BY <2>4, <2>7, <2>8
  <1>7. \A q \in Pins : use[q].as = "irq" => use'[q] = use[q]
    BY <1>0, <1>5
  <1>8. d.todo[1].do = "acquire"
    BY <1>1, <1>2 DEF Enables
  <1>9. /\ \A q \in Pins : q \notin d.pins => use'[q] = use[q] /\ (q \in driven' <=> q \in driven)
        /\ \A q \in d.pins : use'[q].as = "irq"
        /\ \A q \in Pins : q \in d.pins => ModeOf(q)' /\ MaskOf(q)' /\ EdgeOf(q)'
    <2>1. \A q \in Pins : q \in d.pins <=> q = p
      BY <1>2
    <2>2. \A q \in d.pins : q = p
      BY <1>2
    <2>3. /\ \A q \in Pins : q \notin d.pins => use'[q] = use[q] /\ (q \in driven' <=> q \in driven)
          /\ \A q \in d.pins : use'[q].as = "irq"
      BY <1>0, <1>5, <2>1, <2>2
    <2>4. ASSUME NEW q \in Pins, q \in d.pins PROVE ModeOf(q)' /\ MaskOf(q)' /\ EdgeOf(q)'
      BY <1>6, <2>1, <2>4
    <2>5. QED
      BY <2>3, <2>4
  <1>10. QED
    BY <1>0, <1>2, <1>3, <1>5, <1>7, <1>8, <1>9, IoBegins DEF Serialised, Locking

LEMMA DisableKept ==
  ASSUME GpioInv, NEW p \in Pins, G!DisableInterrupt(p)
  PROVE  GpioInv'
  <1> DEFINE t == G!RockchipGpioDisableInterrupt(p)
             d == G!Callback("disable", {p}, t)
  <1>0. /\ bankPower = "on" /\ Io = G!Idle /\ Becomes("io", d)
        /\ use[p].as = "irq" /\ use' = use /\ driven' = driven
        /\ bankPower' = bankPower /\ type' = type /\ reg' = reg /\ latched' = latched /\ bankSaved' = bankSaved
        /\ lock' = lock /\ masked' = masked /\ pending' = pending
    BY DEF G!DisableInterrupt, G!Call, G!hardware, G!asked, G!IsIrq, Becomes, Io
  <1>1. t \in Seq(Accesses) /\ Disables(t, p)
    BY DisableIs DEF Disables
  <1>2. d \in Calls /\ d.name = "disable" /\ d.pins = {p} /\ d.todo = t /\ DOMAIN d.val = {}
    <2>1. {p} \in SUBSET Pins /\ "disable" \in IoNames \cup IsrNames /\ t \in Seq(Accesses)
      BY <1>1 DEF IoNames, Locking
    <2> HIDE DEF t
    <2>2. d \in Calls
      BY <2>1, CallbackIn
    <2>3. QED
      BY <2>2, CallbackOf
  <1> HIDE DEF d, t
  <1>3. Listed(d) /\ Begun(d, d.name, d.pins)
    BY <1>1, <1>2, DisableLists
  <1>4. Io' = d /\ Isr' = Isr
    BY <1>0, <1>2, BecomesIs, SidesAre DEF GpioInv
  <1>5. use' \in [Pins -> Uses]
    BY <1>0, BankOn
  <1>6. ModeOf(p)' /\ MaskOf(p)' /\ EdgeOf(p)'
    <2>1. Makes(d, "IntMask", p, TRUE)
      BY <1>1, <1>2, <1>3, DisableMakes DEF Listed
    <2>2. /\ \A r \in {"PortDDR", "IntType", "IntPolarity"} :
               ~Hits(d, r, p) /\ (\A v : Gives(d, r, p, v)) /\ ~Hits(Io, r, p)
          /\ ~EoiDue(Io, p) /\ Io.pins = {} /\ Io.name = "none"
      <3>1. MayUse(d.name) = {"IntMask"}
        BY <1>2 DEF MayUse, Saving
      <3>2. QED
        BY <1>0, <1>3, <3>1, NotUsed, IdleIs DEF Listed
    <2>3. ModeOf(p) /\ MaskOf(p) /\ EdgeOf(p)
      BY <1>0, BankOn
    <2>4. ModeOf(p)'
      <3>1. /\ Settled(Io', Isr', reg', "PortDDR", p, FALSE) /\ Settled(Io', Isr', reg', "IntType", p, use'[p].edge)
            /\ Settled(Io', Isr', reg', "IntPolarity", p, use'[p].high)
        BY <1>0, <1>4, <2>2, <2>3 DEF Settled, Asked, ModeOf
      <3>2. QED
        BY <1>0, <3>1 DEF ModeOf, Asked
    <2>5. Disabling(p)' /\ ~(Dirty(p)') /\ ~Dirty(p)
      BY <1>2, <1>4, <2>2 DEF Enabling, Disabling, Dirty
    <2>6. Holds(Isr, reg, "IntMask", p, MaskedThen(p))
      BY <1>0, <2>2, <2>3 DEF MaskOf, NotEnabled, Enabled, NotDisabled, Disabled, InUse, Enabling, Disabling
    <2>7. MaskedThen(p)' <=> MaskedThen(p)
      BY <1>0, <1>4 DEF MaskedThen
    <2>8. Holds(Isr', reg', "IntMask", p, MaskedThen(p)')
      BY <1>0, <1>4, <2>6, <2>7 DEF Holds, Gives
    <2>9. NotDisabled(p)'
      BY <1>4, <2>1, <2>5, <2>8 DEF NotDisabled, Makes
    <2>10. MaskOf(p)'
      BY <1>0, <2>9 DEF MaskOf
    <2>11. EdgeOf(p)'
      BY <1>0, <1>4, <2>2, <2>3, <2>5 DEF EdgeOf
    <2>12. QED
      BY <2>4, <2>10, <2>11
  <1>7. d.todo[1].do = "acquire"
    BY <1>1, <1>2 DEF Disables
  <1>8. /\ \A q \in Pins : use[q].as = "irq" => use'[q] = use[q]
        /\ \A q \in Pins : q \notin d.pins => use'[q] = use[q] /\ (q \in driven' <=> q \in driven)
        /\ \A q \in d.pins : use'[q].as = "irq"
        /\ \A q \in Pins : q \in d.pins => ModeOf(q)' /\ MaskOf(q)' /\ EdgeOf(q)'
    <2>1. \A q \in Pins : q \in d.pins <=> q = p
      BY <1>2
    <2>2. \A q \in d.pins : q = p
      BY <1>2
    <2>3. ASSUME NEW q \in Pins, q \in d.pins PROVE ModeOf(q)' /\ MaskOf(q)' /\ EdgeOf(q)'
      BY <1>6, <2>1, <2>3
    <2>4. QED
      BY <1>0, <2>2, <2>3
  <1>9. QED
    BY <1>0, <1>2, <1>3, <1>5, <1>7, <1>8, IoBegins DEF Serialised, Locking

\* With PreserveConfiguration nothing begins.
LEMMA PreserveKept ==
  ASSUME GpioInv, NEW pins \in SUBSET Pins, G!DisconnectPreserving(pins)
  PROVE  GpioInv'
  <1>0. /\ bankPower = "on" /\ Io = G!Idle /\ call' = call
        /\ \A p \in pins : use[p].as \in {"in", "out"}
        /\ use' = [p \in Pins |-> IF p \in pins THEN G!As("none") ELSE use[p]]
        /\ driven' = driven \ pins
        /\ bankPower' = bankPower /\ type' = type /\ reg' = reg /\ latched' = latched /\ bankSaved' = bankSaved
        /\ lock' = lock /\ masked' = masked /\ pending' = pending
    BY DEF G!DisconnectPreserving, G!hardware, Io
  <1>1. use' \in [Pins -> Uses] /\ (\A p \in Pins : p \in pins => use'[p].as = "none") /\ (\A p \in Pins : p \notin pins => use'[p] = use[p])
    BY <1>0, BankOn, UsesAs
  <1>2. Io' = Io /\ Isr' = Isr /\ Mine(Io') /\ Io'.name # "start" /\ Io'.pins = {} /\ Io'.name = "none"
    BY <1>0, IdleIs DEF Io, Isr, Listed
  <1>3. Sound'
    <2>1. BankTypes'
      BY <1>0, <1>1, <1>2 DEF GpioInv, Sound, BankTypes
    <2>2. ListInv'
      BY <1>0, ListsKept DEF GpioInv, Sound
    <2>3. LockInv' /\ PowerInv'
      BY <1>0, <1>2 DEF GpioInv, Sound, LockInv, PowerInv
    <2>4. QED
      BY <2>1, <2>2, <2>3 DEF Sound
  <1>4. ASSUME NEW p \in Pins PROVE ModeOf(p)' /\ MaskOf(p)' /\ EdgeOf(p)'
    <2>1. CASE p \in pins
      <3>1. use'[p].as = "none" /\ use[p].as # "irq"
        BY <1>0, <1>1, <2>1
      <3>2. MaskOf(p)' /\ EdgeOf(p)'
        BY <1>0, <3>1, MaskEdgePlain, BankOn
      <3>3. ModeOf(p)'
        BY <3>1 DEF ModeOf
      <3>4. QED
        BY <3>2, <3>3
    <2>2. CASE p \notin pins
      <3>1. (p \in driven' <=> p \in driven) /\ use'[p] = use[p] /\ p \notin Io'.pins
        BY <1>0, <1>1, <1>2, <2>2
      <3>2. QED
        BY <1>0, <1>2, <3>1, Elsewhere
    <2>3. QED
      BY <2>1, <2>2
  <1>5. ModeInv' /\ MaskInv' /\ EdgeInv'
    BY <1>4 DEF ModeInv, MaskInv, EdgeInv
  <1>6. EnableInv'
    BY <1>0, <1>2 DEF GpioInv, Values, EnableInv, Holds, Gives
  <1>7. UseInv'
    <2>1. UseInv
      BY DEF GpioInv, Values
    <2>2. \A p \in Pins : use'[p].as # "irq" => use[p].as # "irq"
      BY <1>0, <1>1
    <2>3. QED
      BY <1>0, <1>2, <2>1, <2>2 DEF UseInv, Locking
  <1>8. DriveInv' /\ StartInv' /\ SavedInv' /\ QuietInv'
    BY <1>0 DEF DriveInv, StartInv, SavedInv, QuietInv
  <1>9. QED
    BY <1>3, <1>5, <1>6, <1>7, <1>8 DEF GpioInv, Values

\* The serialised side has nothing left to do.
LEMMA IoReturnsKept ==
  ASSUME GpioInv, G!IoReturns
  PROVE  GpioInv'
  <1> DEFINE off == Io.name = "disable"
  <1>0. /\ Io.name \in Serialised /\ Io.todo = <<>> /\ Becomes("io", G!Idle)
        /\ use' = IF off THEN [p \in Pins |-> IF p \in Io.pins THEN G!As("none") ELSE use[p]] ELSE use
        /\ masked' = IF off THEN masked \ Io.pins ELSE masked
        /\ pending' = IF off THEN pending \ Io.pins ELSE pending
        /\ bankPower' = bankPower /\ type' = type /\ reg' = reg /\ latched' = latched /\ bankSaved' = bankSaved
        /\ lock' = lock /\ driven' = driven
    BY DEF G!IoReturns, G!Finished, G!Todo, G!Return, G!hardware, Becomes, Serialised, Io
  <1>1. bankPower = "on" /\ Sound
    <2>1. Io.name \notin {"none", "start"} \cup Saving
      BY <1>0 DEF Serialised, Saving
    <2>2. bankPower \notin {"absent", "prepared", "D3", "F1", "starting", "stopping"}
      BY <2>1 DEF GpioInv, Sound, PowerInv
    <2>3. QED
      BY <2>2 DEF GpioInv, Sound, BankTypes
  <1>2. /\ \A p \in Pins : ModeOf(p) /\ MaskOf(p) /\ EdgeOf(p)
        /\ use \in [Pins -> Uses] /\ UseInv
    BY <1>1, BankOn DEF GpioInv, Values
  <1>3. Io' = G!Idle /\ Isr' = Isr
    BY <1>0, <1>1, BecomesIs, IdleIs, SidesAre
  <1>4. /\ \A r, p : ~Hits(Io, r, p) /\ ~EoiDue(Io, p) /\ \A v : Gives(Io, r, p, v)
        /\ \A r, p : ~Hits(Io', r, p) /\ ~EoiDue(Io', p) /\ \A v : Gives(Io', r, p, v)
        /\ Io'.name = "none" /\ Io'.pins = {} /\ Io'.todo = <<>>
    BY <1>0, <1>3, NothingLeft, IdleIs
  <1>5. \A p \in Pins : IF off /\ p \in Io.pins
                          THEN use'[p].as = "none" /\ p \notin masked' /\ p \notin pending'
                          ELSE use'[p] = use[p] /\ (p \in masked' <=> p \in masked) /\ (p \in pending' <=> p \in pending)
    BY <1>0, UsesAs
  <1>6. \A p \in Pins : off /\ p \in Io.pins => p \in reg["IntMask"] /\ p \notin Isr.pins
    <2>1. SUFFICES ASSUME NEW p \in Pins, off, p \in Io.pins PROVE p \in reg["IntMask"] /\ p \notin Isr.pins
      OBVIOUS
    <2>2. use[p].as = "irq"
      BY <1>2, <2>1 DEF UseInv, Locking
    <2>3. QED
      BY <1>2, <1>4, <2>1, <2>2 DEF MaskOf, NotEnabled, Enabled, NotDisabled, Disabled, InUse, Enabling, Disabling
  <1>7. Sound'
    <2>1. ListInv' /\ call' \in [G!Sides -> Calls]
      BY <1>0, <1>1, ListBecomes, IdleProper, SidesAre
    <2>2. use' \in [Pins -> Uses]
      BY <1>0, <1>2, UsesAs
    <2>3. BankTypes'
      BY <1>0, <1>1, <1>3, <1>4, <2>1, <2>2 DEF Sound, BankTypes, IoNames
    <2>4. LockInv'
      <3>1. lock # "io"
        BY <1>0, <1>1 DEF Sound, LockInv
      <3>2. QED
        BY <1>0, <1>1, <1>3, <1>4, <3>1 DEF Sound, LockInv
    <2>5. PowerInv'
      BY <1>0, <1>1, <1>4 DEF PowerInv, Saving
    <2>6. QED
      BY <2>1, <2>3, <2>4, <2>5 DEF Sound
  <1>8. ASSUME NEW p \in Pins PROVE ModeOf(p)'
    <2>1. CASE off /\ p \in Io.pins
      BY <1>5, <2>1 DEF ModeOf
    <2>2. CASE ~(off /\ p \in Io.pins)
      <3>1. use'[p] = use[p]
        BY <1>5, <2>2
      <3>2. ASSUME NEW r, NEW v, Asked(r, p, v) PROVE Settled(Io', Isr', reg', r, p, v)
        BY <1>0, <1>3, <1>4, <3>2 DEF Asked, Settled
      <3>3. Asked("PortDR", p, p \in driven) => Settled(Io', Isr', reg', "PortDR", p, p \in driven')
        BY <1>0, <3>2
      <3>4. QED
        BY <1>2, <3>1, <3>2, <3>3 DEF ModeOf, Asked
    <2>3. QED
      BY <2>1, <2>2
  <1>9. ASSUME NEW p \in Pins PROVE MaskOf(p)'
    <2>1. CASE off /\ p \in Io.pins
      BY <1>0, <1>5, <1>6, <2>1 DEF MaskOf
    <2>2. CASE ~(off /\ p \in Io.pins)
      <3>1. use'[p] = use[p] /\ (p \in masked' <=> p \in masked)
        BY <1>5, <2>2
      <3>2. CASE use[p].as # "irq"
        BY <1>0, <1>2, <3>1, <3>2 DEF MaskOf
      <3>3. CASE use[p].as = "irq"
        <4>1. Holds(Isr, reg, "IntMask", p, MaskedThen(p))
          BY <1>2, <1>4, <2>2, <3>3 DEF MaskOf, NotEnabled, Enabled, NotDisabled, Disabled, InUse, Enabling, Disabling
        <4>2. MaskedThen(p)' <=> MaskedThen(p)
          BY <1>0, <1>3, <3>1 DEF MaskedThen
        <4>3. Holds(Isr', reg', "IntMask", p, MaskedThen(p)')
          BY <1>0, <1>3, <4>1, <4>2 DEF Holds, Gives
        <4>4. InUse(p)'
          BY <1>4, <4>3 DEF InUse
        <4>5. QED
          BY <3>1, <3>3, <4>4 DEF MaskOf
      <3>4. QED
        BY <3>2, <3>3
    <2>3. QED
      BY <2>1, <2>2
  <1>10. ASSUME NEW p \in Pins PROVE EdgeOf(p)'
    <2>1. ~Dirty(p) /\ ~(Dirty(p)')
      BY <1>4 DEF Dirty
    <2>2. CASE off /\ p \in Io.pins
      BY <1>5, <2>2 DEF EdgeOf
    <2>3. CASE ~(off /\ p \in Io.pins)
      BY <1>0, <1>2, <1>3, <1>4, <1>5, <2>1, <2>3 DEF EdgeOf
    <2>4. QED
      BY <2>2, <2>3
  <1>11. ModeInv' /\ MaskInv' /\ EdgeInv'
    BY <1>8, <1>9, <1>10 DEF ModeInv, MaskInv, EdgeInv
  <1>12. EnableInv'
    <2>1. ASSUME NEW p \in Pins PROVE Holds(Io', reg', "IntEn", p, TRUE)
      BY <1>0, <1>1, <1>4 DEF GpioInv, Values, EnableInv, Holds
    <2>2. QED
      BY <2>1 DEF EnableInv
  <1>13. UseInv'
    <2>1. Io'.name \notin Locking /\ pending' \subseteq Pins
      BY <1>0, <1>2, <1>4 DEF Locking, UseInv
    <2>2. ASSUME NEW p \in Pins, use'[p].as # "irq"
          PROVE  p \notin masked' /\ p \notin pending' /\ p \notin Isr'.pins
      <3>1. CASE off /\ p \in Io.pins
        BY <1>3, <1>5, <1>6, <3>1
      <3>2. CASE ~(off /\ p \in Io.pins)
        BY <1>2, <1>3, <1>5, <2>2, <3>2 DEF UseInv
      <3>3. QED
        BY <3>1, <3>2
    <2>3. QED
      BY <1>0, <1>1, <2>1, <2>2 DEF UseInv
  <1>14. DriveInv' /\ StartInv' /\ SavedInv' /\ QuietInv'
    BY <1>0, <1>1 DEF DriveInv, StartInv, SavedInv, QuietInv
  <1>15. QED
    BY <1>7, <1>11, <1>12, <1>13, <1>14 DEF GpioInv, Values

\* The interrupt side begins.
LEMMA IsrBegins ==
  ASSUME GpioInv, bankPower = "on", lock = "free", Isr = G!Idle, NEW d \in Calls, Becomes("isr", d),
         d.name \in {"active", "unmask", "reconfigure"},
         Listed(d), Begun(d, d.name, d.pins),
         d.name = "reconfigure" => Io.name \notin {"connect", "disconnect"},
         use' \in [Pins -> Uses], \A p \in Pins : use'[p].as = use[p].as, \A p \in d.pins : use[p].as = "irq",
         bankPower' = bankPower, type' = type, reg' = reg, latched' = latched, bankSaved' = bankSaved, lock' = "isr",
         driven' = driven, masked' = masked, pending' = pending,
         \A p \in Pins : ModeOf(p)' /\ MaskOf(p)' /\ EdgeOf(p)'
  PROVE  GpioInv'
  <1>0. Sound /\ d.name # "none" /\ d.name \in IsrNames
    BY DEF GpioInv, IsrNames
  <1>1. Isr' = d /\ Io' = Io
    BY <1>0, BecomesIs, SidesAre
  <1>2. ListInv' /\ call' \in [G!Sides -> Calls]
    BY <1>0, BegunProper, ListBecomes, SidesAre
  <1>3. BankTypes'
    BY <1>0, <1>1, <1>2 DEF Sound, BankTypes
  <1>4. LockInv' /\ PowerInv'
    BY <1>0, <1>1 DEF Sound, LockInv, PowerInv
  <1>5. Sound'
    BY <1>2, <1>3, <1>4 DEF Sound
  <1>6. ModeInv' /\ MaskInv' /\ EdgeInv'
    BY DEF ModeInv, MaskInv, EdgeInv
  <1>7. EnableInv'
    BY <1>1 DEF GpioInv, Values, EnableInv, Holds, Gives
  <1>8. UseInv'
    <2>1. UseInv
      BY DEF GpioInv, Values
    <2>2. Io'.name \in Locking => \A p \in Io'.pins : use'[p].as = "irq"
      <3>1. Io.pins \subseteq Pins
        BY <1>0, SidesAre, CallsAre DEF Sound, BankTypes, Io
      <3>2. QED
        BY <1>1, <2>1, <3>1 DEF UseInv
    <2>3. \A p \in Pins : use'[p].as # "irq" => p \notin masked' /\ p \notin pending' /\ p \notin Isr'.pins
      BY <1>1, <2>1 DEF UseInv
    <2>4. QED
      BY <2>1, <2>2, <2>3 DEF UseInv
  <1>9. DriveInv' /\ StartInv' /\ SavedInv' /\ QuietInv'
    BY DEF DriveInv, StartInv, SavedInv, QuietInv
  <1>10. QED
    BY <1>5, <1>6, <1>7, <1>8, <1>9 DEF GpioInv, Values

\* Lines whose modes are not touched.
LEMMA ModeStays ==
  ASSUME NEW p \in Pins, ModeOf(p), use'[p] = use[p], driven' = driven, reg' = reg, Io' = Io, Isr = G!Idle,
         \A r \in {"PortDR", "PortDDR", "IntType", "IntPolarity"} : ~Hits(Isr', r, p)
  PROVE  ModeOf(p)'
  <1>1. \A r, v : ~Hits(Isr, r, p) /\ Gives(Isr, r, p, v)
    BY IdleIs
  <1>2. ASSUME NEW r \in {"PortDR", "PortDDR", "IntType", "IntPolarity"}, NEW v, Asked(r, p, v)
        PROVE  Settled(Io', Isr', reg', r, p, v)
    <2>1. \A w : Gives(Isr', r, p, w)
      BY NoHitsGives
    <2>2. QED
      BY <1>1, <1>2, <2>1 DEF Asked, Settled
  <1>3. QED
    BY <1>2 DEF ModeOf, Asked

\* The mask bit of a line that an interrupt callback is about, or is not.
LEMMA MaskStays ==
  ASSUME GpioInv, bankPower = "on", NEW p \in Pins, MaskOf(p), use'[p].as = use[p].as, reg' = reg, masked' = masked, Io' = Io,
         Isr = G!Idle,
         p \in Isr'.pins => p \notin reg["IntMask"] \/ p \in masked,
         p \in Isr'.pins /\ p \in masked => p \notin Io.pins,
         use[p].as = "irq" => (Hits(Isr', "IntMask", p) => Gives(Isr', "IntMask", p, MaskedThen(p)')),
         use[p].as = "irq" /\ ~Hits(Isr', "IntMask", p) => (MaskedThen(p)' <=> p \in masked)
  PROVE  MaskOf(p)'
  <1>0. /\ \A r, v : ~Hits(Isr, r, p) /\ Gives(Isr, r, p, v)
        /\ Isr.name = "none"
    BY IdleIs
  <1>1. MaskedThen(p) <=> p \in masked
    BY <1>0 DEF MaskedThen
  <1>2. CASE use[p].as # "irq"
    BY <1>2 DEF MaskOf
  <1>3. CASE use[p].as = "irq"
    <2>1. Holds(Isr, reg, "IntMask", p, MaskedThen(p)) => Holds(Isr', reg', "IntMask", p, MaskedThen(p)')
      <3>1. SUFFICES ASSUME p \in reg["IntMask"] <=> p \in masked
                     PROVE  Holds(Isr', reg', "IntMask", p, MaskedThen(p)')
        BY <1>0, <1>1 DEF Holds
      <3>2. CASE Hits(Isr', "IntMask", p)
        BY <1>3, <3>2 DEF Holds
      <3>3. CASE ~Hits(Isr', "IntMask", p)
        BY <1>3, <3>1, <3>3, NoHitsGives DEF Holds
      <3>4. QED
        BY <3>2, <3>3
    <2>2. /\ Enabling(p)' <=> Enabling(p)
          /\ Disabling(p)' <=> Disabling(p)
      BY DEF Enabling, Disabling
    <2>3. CASE NotEnabled(p)
      <3>1. p \notin Isr'.pins
        BY <2>3 DEF NotEnabled
      <3>2. NotEnabled(p)'
        BY <2>2, <2>3, <3>1 DEF NotEnabled, Gives
      <3>3. QED
        BY <1>3, <3>2 DEF MaskOf
    <2>4. CASE Enabled(p)
      <3>1. Enabled(p)'
        BY <2>1, <2>2, <2>4 DEF Enabled
      <3>2. QED
        BY <1>3, <3>1 DEF MaskOf
    <2>5. CASE NotDisabled(p)
      <3>1. NotDisabled(p)'
        BY <2>1, <2>2, <2>5 DEF NotDisabled, Gives
      <3>2. QED
        BY <1>3, <3>1 DEF MaskOf
    <2>6. CASE Disabled(p)
      <3>1. p \notin Isr'.pins
        BY <2>6 DEF Disabled, Disabling
      <3>2. Disabled(p)'
        BY <2>2, <2>6, <3>1 DEF Disabled
      <3>3. QED
        BY <1>3, <3>2 DEF MaskOf
    <2>7. CASE InUse(p)
      <3>1. InUse(p)'
        BY <2>1, <2>7 DEF InUse
      <3>2. QED
        BY <1>3, <3>1 DEF MaskOf
    <2>8. QED
      BY <1>3, <2>3, <2>4, <2>5, <2>6, <2>7 DEF MaskOf
  <1>4. QED
    BY <1>2, <1>3

\* The edges of a line.
LEMMA EdgeStays ==
  ASSUME NEW p \in Pins, EdgeOf(p), use'[p].as = use[p].as, use'[p].edge = use[p].edge, use'[p].both = use[p].both,
         latched' = latched, pending' = pending, bankPower' = bankPower, Io' = Io,
         use[p].as = "irq" => \A r \in {"IntType", "IntPolarity"} : Hits(Isr', r, p) => use[p].both
  PROVE  EdgeOf(p)'
  <1>1. Dirty(p)' <=> Dirty(p)
    BY DEF Dirty, Enabling
  <1>2. QED
    BY <1>1 DEF EdgeOf

\* A line that is not masked raises no interrupt that is being served already.
LEMMA NotMasked ==
  ASSUME GpioInv, bankPower = "on", Isr = G!Idle, NEW p \in Pins, p \notin reg["IntMask"]
  PROVE  use[p].as = "irq" /\ p \notin masked
  <1>1. MaskOf(p)
    BY BankOn
  <1>2. use[p].as = "irq"
    BY <1>1 DEF MaskOf
  <1>3. (\A r : ~Hits(Isr, r, p)) /\ Isr.name = "none"
    BY IdleIs
  <1>4. MaskedThen(p) <=> p \in masked
    BY <1>3 DEF MaskedThen
  <1>5. Holds(Isr, reg, "IntMask", p, MaskedThen(p))
    BY <1>1, <1>2 DEF MaskOf, NotEnabled, Enabled, NotDisabled, Disabled, InUse
  <1>6. QED
    BY <1>2, <1>3, <1>4, <1>5 DEF Holds

LEMMA QueryKept ==
  ASSUME GpioInv, G!QueryActiveInterrupts
  PROVE  GpioInv'
  <1> DEFINE pins == G!IntStatus
             level == G!Level(pins)
             t == G!RockchipGpioMaskInterrupts(level) \o G!RockchipGpioClearActiveInterrupts(pins)
             d == G!Callback("active", pins, t)
  <1>0. /\ bankPower = "on" /\ Isr = G!Idle /\ Becomes("isr", d) /\ lock = "free" /\ lock' = "isr"
        /\ bankPower' = bankPower /\ type' = type /\ reg' = reg /\ latched' = latched /\ bankSaved' = bankSaved
        /\ use' = use /\ driven' = driven /\ masked' = masked /\ pending' = pending
    BY DEF G!QueryActiveInterrupts, G!Call, G!Lock, G!hardware, G!asked, Becomes, Isr
  <1>1. pins \in SUBSET Pins /\ \A p \in pins : p \notin reg["IntMask"]
    <2>1. reg["IntEn"] \in SUBSET Pins
      BY <1>0, BankOn, RegistersAre
    <2>2. QED
      BY <2>1 DEF G!IntStatus
  <1>2. level \in SUBSET pins /\ \A p \in pins : p \in level <=> p \notin reg["IntType"]
    BY DEF G!Level
  <1> HIDE DEF pins, level
  <1>3. Serves(t, level, pins) /\ t \in Seq(Accesses)
    <2>1. level \in SUBSET Pins
      BY <1>1, <1>2
    <2>2. Serves(t, level, pins)
      BY <1>1, <2>1, ServeIs
    <2>3. QED
      BY <2>2 DEF Serves
  <1> HIDE DEF t
  <1>4. d \in Calls /\ d.name = "active" /\ d.pins = pins /\ d.todo = t /\ DOMAIN d.val = {}
    <2>1. "active" \in IoNames \cup IsrNames
      BY DEF IsrNames
    <2>2. d \in Calls
      BY <1>1, <1>3, <2>1, CallbackIn
    <2>3. QED
      BY <2>2, CallbackOf
  <1> HIDE DEF d
  <1>5. Listed(d) /\ Begun(d, d.name, d.pins)
    BY <1>1, <1>2, <1>3, <1>4, ServeLists
  <1>6. Isr' = d /\ Io' = Io
    BY <1>0, <1>4, BecomesIs, SidesAre DEF GpioInv
  <1>7. ASSUME NEW p \in Pins PROVE ModeOf(p)' /\ MaskOf(p)' /\ EdgeOf(p)'
    <2>1. ModeOf(p) /\ MaskOf(p) /\ EdgeOf(p)
      BY <1>0, BankOn
    <2>2. \A r \in {"PortDR", "PortDDR", "IntType", "IntPolarity"} : ~Hits(Isr', r, p)
      <3>1. MayUse(d.name) = {"IntMask", "PortEOI"} /\ Mine(d)
        BY <1>4, <1>5 DEF MayUse, Saving, Listed
      <3>2. QED
        BY <1>6, <3>1, NotUsed
    <2>3. ModeOf(p)'
      BY <1>0, <1>6, <2>1, <2>2, ModeStays
    <2>4. EdgeOf(p)'
      BY <1>0, <1>6, <2>1, <2>2, EdgeStays
    <2>5. (Hits(Isr', "IntMask", p) <=> p \in level) /\ Gives(Isr', "IntMask", p, TRUE)
      BY <1>1, <1>2, <1>3, <1>4, <1>5, <1>6, ServeMakes DEF Listed
    <2>6. MaskedThen(p)' <=> (p \in masked \/ (p \in pins /\ p \notin reg["IntType"] /\ use[p].as = "irq"))
      BY <1>0, <1>4, <1>6 DEF MaskedThen
    <2>7. p \in pins => p \notin masked
      BY <1>0, <1>1, NotMasked
    <2>8. ASSUME use[p].as = "irq"
          PROVE  /\ Hits(Isr', "IntMask", p) => Gives(Isr', "IntMask", p, MaskedThen(p)')
                 /\ ~Hits(Isr', "IntMask", p) => (MaskedThen(p)' <=> p \in masked)
      <3>1. CASE p \in level
        <4>1. MaskedThen(p)'
          BY <1>2, <2>6, <2>8, <3>1
        <4>2. QED
          BY <2>5, <3>1, <4>1 DEF Gives
      <3>2. CASE p \notin level
        BY <1>2, <2>5, <2>6, <3>2
      <3>3. QED
        BY <3>1, <3>2
    <2>9. Isr'.pins = pins
      BY <1>4, <1>6
    <2>10. MaskOf(p)'
      BY <1>0, <1>1, <1>6, <2>1, <2>7, <2>8, <2>9, MaskStays
    <2>11. QED
      BY <2>3, <2>4, <2>10
  <1>8. \A p \in d.pins : use[p].as = "irq"
    BY <1>0, <1>1, <1>4, NotMasked
  <1>9. use' \in [Pins -> Uses]
    BY <1>0, BankOn
  <1>10. QED
    BY <1>0, <1>4, <1>5, <1>7, <1>8, <1>9, IsrBegins

LEMMA UnmaskKept ==
  ASSUME GpioInv, NEW p \in Pins, G!UnmaskInterrupt(p)
  PROVE  GpioInv'
  <1> DEFINE t == G!RockchipGpioUnmaskInterrupt(p)
             d == G!Callback("unmask", {p}, t)
  <1>0. /\ bankPower = "on" /\ Isr = G!Idle /\ Becomes("isr", d) /\ lock = "free" /\ lock' = "isr"
        /\ p \in masked /\ p \notin Io.pins
        /\ bankPower' = bankPower /\ type' = type /\ reg' = reg /\ latched' = latched /\ bankSaved' = bankSaved
        /\ use' = use /\ driven' = driven /\ masked' = masked /\ pending' = pending
    BY DEF G!UnmaskInterrupt, G!Call, G!Lock, G!hardware, G!asked, Becomes, Isr, Io
  <1>1. Changes(t, "IntMask", {}, {p}) /\ t \in Seq(Accesses)
    BY AssignIs, RegistersAre DEF G!RockchipGpioUnmaskInterrupt, Changes
  <1> HIDE DEF t
  <1>2. d \in Calls /\ d.name = "unmask" /\ d.pins = {p} /\ d.todo = t /\ DOMAIN d.val = {}
    <2>1. "unmask" \in IoNames \cup IsrNames /\ {p} \in SUBSET Pins
      BY DEF IsrNames
    <2>2. d \in Calls
      BY <1>1, <2>1, CallbackIn
    <2>3. QED
      BY <2>2, CallbackOf
  <1> HIDE DEF d
  <1>3. MayUse(d.name) = {"IntMask"} /\ {} \cup {p} \subseteq d.pins /\ {} \in SUBSET Pins /\ {p} \in SUBSET Pins
    BY <1>2 DEF MayUse, Saving
  <1>4. Listed(d) /\ Begun(d, d.name, d.pins)
    <2>1. MayChange(d, "IntMask", {}, {p})
      BY <1>1, <1>2, <1>3, RegistersAre DEF MayChange
    <2>2. QED
      BY <2>1, ChangeLists
  <1>5. Isr' = d /\ Io' = Io
    BY <1>0, <1>2, BecomesIs, SidesAre DEF GpioInv
  <1>6. ASSUME NEW q \in Pins PROVE ModeOf(q)' /\ MaskOf(q)' /\ EdgeOf(q)'
    <2>1. ModeOf(q) /\ MaskOf(q) /\ EdgeOf(q)
      BY <1>0, BankOn
    <2>2. \A r \in {"PortDR", "PortDDR", "IntType", "IntPolarity"} : ~Hits(Isr', r, q)
      BY <1>3, <1>4, <1>5, NotUsed DEF Listed
    <2>3. ModeOf(q)'
      BY <1>0, <1>5, <2>1, <2>2, ModeStays
    <2>4. EdgeOf(q)'
      BY <1>0, <1>5, <2>1, <2>2, EdgeStays
    <2>5. Isr'.pins = {p} /\ Isr'.name = "unmask"
      BY <1>2, <1>5
    <2>6. MaskedThen(q)' <=> q \in masked /\ q # p
      BY <1>0, <2>5 DEF MaskedThen
    <2>7. CASE q = p
      <3>1. Makes(d, "IntMask", p, p \in {})
        <4>1. p \in {} \cup {p}
          OBVIOUS
        <4>2. "IntMask" \in G!Registers
          BY RegistersAre
        <4>3. QED
          BY <1>1, <1>2, <1>3, <1>4, <4>1, <4>2, ChangeMakes DEF Listed
      <3>2. Hits(Isr', "IntMask", q) /\ Gives(Isr', "IntMask", q, MaskedThen(q)')
        BY <1>5, <2>6, <2>7, <3>1 DEF Makes, Gives
      <3>3. MaskOf(q)'
        BY <1>0, <1>5, <2>1, <2>7, <3>2, MaskStays
      <3>4. QED
        BY <2>3, <2>4, <3>3
    <2>8. CASE q # p
      <3>1. q \notin Isr'.pins
        BY <2>5, <2>8
      <3>2. Mine(Isr') /\ Isr'.name # "start"
        BY <1>4, <1>5, <2>5 DEF Listed
      <3>3. ~Hits(Isr', "IntMask", q)
        BY <3>1, <3>2, NotMine
      <3>4. MaskOf(q)'
        BY <1>0, <1>5, <2>1, <2>6, <2>8, <3>1, <3>3, MaskStays
      <3>5. QED
        BY <2>3, <2>4, <3>4
    <2>9. QED
      BY <2>7, <2>8
  <1>7. \A q \in d.pins : use[q].as = "irq"
    BY <1>0, <1>2, BankOn
  <1>8. use' \in [Pins -> Uses]
    BY <1>0, BankOn
  <1>9. QED
    BY <1>0, <1>2, <1>4, <1>6, <1>7, <1>8, IsrBegins

LEMMA TurnedRound ==
  ASSUME NEW u \in Uses
  PROVE  LET k == [u EXCEPT !.high = ~@]
         IN  k \in Uses /\ k.as = u.as /\ k.edge = u.edge /\ k.both = u.both
  BY DEF Uses

LEMMA ReconfigureKept ==
  ASSUME GpioInv, NEW p \in Pins, G!ReconfigureInterrupt(p)
  PROVE  GpioInv'
  <1> DEFINE k == [use[p] EXCEPT !.high = ~@]
             t == G!RockchipGpioReconfigureInterrupt(p, k)
             d == G!Callback("reconfigure", {p}, t)
  <1>0. /\ bankPower = "on" /\ Isr = G!Idle /\ Becomes("isr", d) /\ lock = "free" /\ lock' = "isr"
        /\ use[p].as = "irq" /\ use[p].both /\ p \notin Io.pins /\ Io.name \notin {"connect", "disconnect"}
        /\ use' = [use EXCEPT ![p] = k]
        /\ bankPower' = bankPower /\ type' = type /\ reg' = reg /\ latched' = latched /\ bankSaved' = bankSaved
        /\ driven' = driven /\ masked' = masked /\ pending' = pending
    BY DEF G!ReconfigureInterrupt, G!Call, G!Lock, G!hardware, G!IsIrq, Becomes, Isr, Io
  <1>1. Reconfigures(t, p, k) /\ t \in Seq(Accesses)
    BY ReconfigureIs DEF Reconfigures
  <1>2. k \in Uses /\ k.as = "irq" /\ k.edge = use[p].edge /\ k.both = use[p].both
    BY <1>0, BankOn, TurnedRound
  <1> HIDE DEF k, t
  <1>3. d \in Calls /\ d.name = "reconfigure" /\ d.pins = {p} /\ d.todo = t /\ DOMAIN d.val = {}
    <2>1. "reconfigure" \in IoNames \cup IsrNames /\ {p} \in SUBSET Pins
      BY DEF IsrNames
    <2>2. d \in Calls
      BY <1>1, <2>1, CallbackIn
    <2>3. QED
      BY <2>2, CallbackOf
  <1> HIDE DEF d
  <1>4. Listed(d) /\ Begun(d, d.name, d.pins)
    BY <1>1, <1>3, ReconfigureLists
  <1>5. Isr' = d /\ Io' = Io
    BY <1>0, <1>3, BecomesIs, SidesAre DEF GpioInv
  <1>6. use' \in [Pins -> Uses] /\ use'[p] = k /\ \A q \in Pins : q # p => use'[q] = use[q]
    BY <1>0, <1>2, BankOn
  <1>7. ASSUME NEW q \in Pins PROVE ModeOf(q)' /\ MaskOf(q)' /\ EdgeOf(q)'
    <2>1. ModeOf(q) /\ MaskOf(q) /\ EdgeOf(q)
      BY <1>0, BankOn
    <2>2. Isr'.name = "reconfigure" /\ Isr'.pins = {p} /\ Mine(Isr') /\ Isr'.name # "start"
      BY <1>3, <1>4, <1>5 DEF Listed
    <2>3. use'[q].as = use[q].as /\ use'[q].edge = use[q].edge /\ use'[q].both = use[q].both
      BY <1>0, <1>2, <1>6
    <2>4. q # p => \A r : r # "PortEOI" => ~Hits(Isr', r, q)
      BY <2>2, NotMine
    <2>5. EdgeOf(q)'
      <3>1. \A r \in {"IntType", "IntPolarity"} : Hits(Isr', r, q) => use[q].both
        BY <1>0, <2>4
      <3>2. QED
        BY <1>0, <1>5, <2>1, <2>3, <3>1, EdgeStays
    <2>6. MaskOf(q)'
      <3>1. ~Hits(Isr', "IntMask", q)
        BY <2>2, NotUsed DEF MayUse, Saving, Modes
      <3>2. MaskedThen(q)' <=> q \in masked
        BY <1>0, <2>2 DEF MaskedThen
      <3>3. q \in Isr'.pins => q = p
        BY <2>2
      <3>4. q \in Isr'.pins => q \notin reg["IntMask"] \/ q \in masked
        <4>1. SUFFICES ASSUME q = p PROVE q \notin reg["IntMask"] \/ q \in masked
          BY <3>3
        <4>2. (\A r : ~Hits(Isr, r, p)) /\ Isr.name = "none"
          BY <1>0, IdleIs
        <4>3. InUse(p)
          BY <1>0, <2>1, <4>1 DEF MaskOf, NotEnabled, Enabled, NotDisabled, Disabled, Enabling, Disabling
        <4>4. MaskedThen(p) <=> p \in masked
          BY <4>2 DEF MaskedThen
        <4>5. QED
          BY <4>1, <4>2, <4>3, <4>4 DEF InUse, Holds
      <3>5. QED
        BY <1>0, <1>5, <2>1, <2>3, <3>1, <3>2, <3>3, <3>4, MaskStays
    <2>7. CASE q # p
      <3>1. ModeOf(q)'
        BY <1>0, <1>5, <1>6, <2>1, <2>4, <2>7, ModeStays
      <3>2. QED
        BY <2>5, <2>6, <3>1
    <2>8. CASE q = p
      <3>1. Makes(d, "PortDDR", p, FALSE) /\ Makes(d, "IntType", p, k.edge) /\ Makes(d, "IntPolarity", p, k.high)
        BY <1>1, <1>3, <1>4, ReconfigureMakes DEF Listed
      <3>2. \A r, v : r # "PortEOI" => Gives(Io, r, p, v)
        <4>1. Mine(Io) /\ Io.name # "start"
          BY <1>0, SidesAre DEF GpioInv, Sound, ListInv, PowerInv, Listed, Io
        <4>2. QED
          BY <1>0, <4>1, NotMine
      <3>3. /\ Settled(Io', Isr', reg', "PortDDR", p, FALSE) /\ Settled(Io', Isr', reg', "IntType", p, use'[p].edge)
            /\ Settled(Io', Isr', reg', "IntPolarity", p, use'[p].high)
        BY <1>5, <1>6, <3>1, <3>2 DEF Settled, Makes
      <3>4. ModeOf(q)'
        BY <1>2, <1>6, <2>8, <3>3 DEF ModeOf, Asked
      <3>5. QED
        BY <2>5, <2>6, <3>4
    <2>9. QED
      BY <2>7, <2>8
  <1>8. \A q \in d.pins : use[q].as = "irq"
    BY <1>0, <1>3
  <1>9. \A q \in Pins : use'[q].as = use[q].as
    BY <1>0, <1>2, <1>6
  <1>10. QED
    BY <1>0, <1>3, <1>4, <1>6, <1>7, <1>8, <1>9, IsrBegins

\* The interrupt side has nothing left to do.
LEMMA IsrReturnsKept ==
  ASSUME GpioInv, G!IsrReturns
  PROVE  GpioInv'
  <1>0. /\ Isr # G!Idle /\ Isr.todo = <<>> /\ Becomes("isr", G!Idle) /\ lock' = "free"
        /\ masked' = CASE Isr.name = "active" -> masked \cup {p \in G!Level(Isr.pins) : use[p].as = "irq"}
                       [] Isr.name = "unmask" -> masked \ Isr.pins
                       [] OTHER -> masked
        /\ bankPower' = bankPower /\ type' = type /\ reg' = reg /\ latched' = latched /\ bankSaved' = bankSaved
        /\ use' = use /\ driven' = driven /\ pending' = pending
    BY DEF G!IsrReturns, G!Todo, G!Return, G!hardware, G!IsIrq, Becomes, Isr
  <1>1. bankPower = "on" /\ Sound /\ lock = "isr" /\ Isr \in Calls /\ Isr.name \in IsrNames
    BY <1>0, SidesAre DEF GpioInv, Sound, ListInv, LockInv, BankTypes, Isr
  <1>2. (\A p \in Pins : ModeOf(p) /\ MaskOf(p) /\ EdgeOf(p)) /\ UseInv
    BY <1>1, BankOn DEF GpioInv, Values
  <1>3. Isr' = G!Idle /\ Io' = Io
    BY <1>0, <1>1, BecomesIs, IdleIs, SidesAre
  <1>4. /\ \A r, p : ~Hits(Isr, r, p) /\ ~EoiDue(Isr, p) /\ \A v : Gives(Isr, r, p, v)
        /\ \A r, p : ~Hits(Isr', r, p) /\ ~EoiDue(Isr', p) /\ \A v : Gives(Isr', r, p, v)
        /\ Isr'.name = "none" /\ Isr'.pins = {} /\ Isr'.todo = <<>>
    BY <1>0, <1>3, NothingLeft, IdleIs
  <1>5. ASSUME NEW p \in Pins
        PROVE  /\ use[p].as = "irq" => (p \in masked' <=> MaskedThen(p))
               /\ use[p].as # "irq" => p \notin masked'
               /\ p \notin masked /\ p \notin Isr.pins => p \notin masked'
    <2>1. CASE Isr.name = "active"
      BY <1>0, <1>2, <2>1 DEF MaskedThen, G!Level, UseInv
    <2>2. CASE Isr.name = "unmask"
      BY <1>0, <1>2, <2>2 DEF MaskedThen, UseInv
    <2>3. CASE Isr.name \notin {"active", "unmask"}
      BY <1>0, <1>2, <2>3 DEF MaskedThen, UseInv
    <2>4. QED
      BY <2>1, <2>2, <2>3
  <1>6. Sound'
    <2>1. ListInv' /\ call' \in [G!Sides -> Calls]
      BY <1>0, <1>1, ListBecomes, IdleProper, SidesAre
    <2>2. BankTypes'
      BY <1>0, <1>1, <1>3, <1>4, <2>1 DEF Sound, BankTypes, IsrNames
    <2>3. LockInv'
      BY <1>0, <1>1, <1>3, <1>4 DEF Sound, LockInv
    <2>4. PowerInv'
      BY <1>0, <1>1, <1>3 DEF Sound, PowerInv
    <2>5. QED
      BY <2>1, <2>2, <2>3, <2>4 DEF Sound
  <1>7. ASSUME NEW p \in Pins PROVE ModeOf(p)'
    <2>1. ASSUME NEW r, NEW v, Asked(r, p, v) PROVE Settled(Io', Isr', reg', r, p, v)
      BY <1>0, <1>3, <1>4, <2>1 DEF Asked, Settled
    <2>2. QED
      BY <1>0, <1>2, <2>1 DEF ModeOf, Asked
  <1>8. ASSUME NEW p \in Pins PROVE MaskOf(p)'
    <2>1. CASE use[p].as # "irq"
      BY <1>0, <1>2, <2>1 DEF MaskOf
    <2>2. CASE use[p].as = "irq"
      <3>1. MaskedThen(p)' <=> MaskedThen(p)
        <4>1. MaskedThen(p)' <=> p \in masked'
          BY <1>4 DEF MaskedThen
        <4>2. QED
          BY <1>5, <2>2, <4>1
      <3>2. Holds(Isr, reg, "IntMask", p, MaskedThen(p)) => Holds(Isr', reg', "IntMask", p, MaskedThen(p)')
        BY <1>0, <1>4, <3>1 DEF Holds
      <3>3. Enabling(p)' = Enabling(p) /\ Disabling(p)' = Disabling(p)
        BY <1>3 DEF Enabling, Disabling
      <3>4. CASE NotEnabled(p)
        <4>1. NotEnabled(p)'
          BY <1>0, <1>3, <1>4, <1>5, <3>3, <3>4 DEF NotEnabled
        <4>2. QED
          BY <1>0, <2>2, <4>1 DEF MaskOf
      <3>5. CASE Enabled(p)
        <4>1. Enabled(p)'
          BY <1>3, <3>2, <3>3, <3>5 DEF Enabled
        <4>2. QED
          BY <1>0, <2>2, <4>1 DEF MaskOf
      <3>6. CASE NotDisabled(p)
        <4>1. NotDisabled(p)'
          BY <1>3, <3>2, <3>3, <3>6 DEF NotDisabled
        <4>2. QED
          BY <1>0, <2>2, <4>1 DEF MaskOf
      <3>7. CASE Disabled(p)
        <4>1. Disabled(p)'
          BY <1>0, <1>3, <1>4, <3>3, <3>7 DEF Disabled
        <4>2. QED
          BY <1>0, <2>2, <4>1 DEF MaskOf
      <3>8. CASE InUse(p)
        <4>1. InUse(p)'
          BY <1>3, <3>2, <3>8 DEF InUse
        <4>2. QED
          BY <1>0, <2>2, <4>1 DEF MaskOf
      <3>9. QED
        BY <1>2, <2>2, <3>4, <3>5, <3>6, <3>7, <3>8 DEF MaskOf
    <2>3. QED
      BY <2>1, <2>2
  <1>9. ASSUME NEW p \in Pins PROVE EdgeOf(p)'
    <2>1. Dirty(p)' <=> Dirty(p)
      BY <1>3 DEF Dirty, Enabling
    <2>2. QED
      BY <1>0, <1>2, <1>3, <1>4, <2>1 DEF EdgeOf
  <1>10. ModeInv' /\ MaskInv' /\ EdgeInv'
    BY <1>7, <1>8, <1>9 DEF ModeInv, MaskInv, EdgeInv
  <1>11. EnableInv'
    BY <1>0, <1>3 DEF GpioInv, Values, EnableInv, Holds, Gives
  <1>12. UseInv'
    <2>1. Io'.name \in Locking => \A p \in Io'.pins : use'[p].as = "irq"
      BY <1>0, <1>2, <1>3 DEF UseInv
    <2>2. \A p \in Pins : use'[p].as # "irq" => p \notin masked' /\ p \notin pending' /\ p \notin Isr'.pins
      BY <1>0, <1>2, <1>4, <1>5 DEF UseInv
    <2>3. QED
      BY <1>0, <1>1, <1>2, <2>1, <2>2 DEF UseInv
  <1>13. DriveInv' /\ StartInv' /\ SavedInv' /\ QuietInv'
    BY <1>0, <1>1 DEF DriveInv, StartInv, SavedInv, QuietInv
  <1>14. QED
    BY <1>6, <1>10, <1>11, <1>12, <1>13 DEF GpioInv, Values

\* What nobody is about to change is as asked for.
LEMMA EdgeSeen ==
  ASSUME GpioInv, bankPower \in {"on", "stopping"}, NEW p \in Pins, use[p].as = "irq", ~use[p].both, ~Dirty(p), use[p].edge,
         NEW rises \in BOOLEAN
  PROVE  G!Detected(p, rises) <=> (rises <=> use[p].high)
  <1>1. ModeOf(p) /\ EdgeOf(p) /\ Holds(Io, reg, "IntEn", p, TRUE)
    BY DEF GpioInv, Values, ModeInv, EdgeInv, EnableInv
  <1>2. \A r \in {"IntType", "IntPolarity"} : ~Hits(Io, r, p) /\ ~Hits(Isr, r, p)
    BY <1>1 DEF EdgeOf
  <1>3. (p \in reg["IntType"] <=> use[p].edge) /\ (p \in reg["IntPolarity"] <=> use[p].high)
    <2>1. Asked("IntType", p, use[p].edge) /\ Asked("IntPolarity", p, use[p].high)
      BY <1>1 DEF ModeOf
    <2>2. QED
      BY <1>2, <2>1 DEF Asked, Settled
  <1>4. p \in reg["IntEn"]
    <2>1. Mine(Io) /\ Io.name \in IoNames /\ Io.name # "start"
      BY SidesAre DEF GpioInv, Sound, ListInv, Listed, BankTypes, PowerInv, Io
    <2>2. "IntEn" \notin MayUse(Io.name)
      BY <2>1 DEF MayUse, IoNames, Locking, Saving, Modes, G!SavedRegisters
    <2>3. ~Hits(Io, "IntEn", p)
      BY <2>1, <2>2, NotUsed
    <2>4. QED
      BY <1>1, <2>3 DEF Holds
  <1>5. QED
    BY <1>3, <1>4 DEF G!Detected, G!Detects

LEMMA LineKept ==
  ASSUME GpioInv, NEW p \in Pins, G!LineChanges(p)
  PROVE  GpioInv'
  <1> DEFINE rises == p \notin line
  <1>0. /\ bankPower \in {"starting", "on", "stopping"} /\ use[p].as = "irq"
        /\ latched' = IF G!Detected(p, rises) THEN latched \cup {p} ELSE latched
        /\ pending' = IF G!Asks(p, rises) \/ G!Stray(p, rises) THEN pending \cup {p} ELSE pending
        /\ bankPower' = bankPower /\ type' = type /\ reg' = reg /\ bankSaved' = bankSaved /\ lock' = lock /\ call' = call
        /\ use' = use /\ driven' = driven /\ masked' = masked
    BY DEF G!LineChanges, G!IsIrq
  <1>1. Io' = Io /\ Isr' = Isr
    BY <1>0 DEF Io, Isr
  <1>2. Sound'
    <2>1. ListInv'
      BY <1>0, ListsKept DEF GpioInv, Sound
    <2>2. QED
      BY <1>0, <1>1, <2>1 DEF GpioInv, Sound, BankTypes, LockInv, PowerInv
  <1>3. ModeInv' /\ DriveInv' /\ EnableInv' /\ StartInv' /\ SavedInv' /\ QuietInv'
    BY <1>0, <1>1 DEF GpioInv, Values, ModeInv, ModeOf, Asked, Settled, DriveInv, EnableInv, StartInv, SavedInv, Holds, Gives,
                      QuietInv, QuietOf, FirstMask
  <1>4. MaskInv'
    BY <1>0, <1>1 DEF GpioInv, Values, MaskInv, MaskOf, NotEnabled, Enabled, NotDisabled, Disabled, InUse, Enabling, Disabling,
                      MaskedThen, Holds, Gives
  <1>5. UseInv'
    BY <1>0, <1>1 DEF GpioInv, Values, UseInv
  <1>6. ASSUME NEW q \in Pins, q # p PROVE EdgeOf(q)'
    <2>1. (q \in latched' <=> q \in latched) /\ (q \in pending' <=> q \in pending)
      BY <1>0, <1>6
    <2>2. EdgeOf(q) /\ (Dirty(q)' <=> Dirty(q))
      BY <1>1 DEF GpioInv, Values, EdgeInv, Dirty, Enabling
    <2>3. QED
      BY <1>0, <1>1, <2>1, <2>2 DEF EdgeOf
  <1>7. EdgeOf(p)'
    <2>1. EdgeOf(p) /\ (Dirty(p)' <=> Dirty(p))
      BY <1>1 DEF GpioInv, Values, EdgeInv, Dirty, Enabling
    <2>2. p \in pending' /\ ~use[p].both => p \in latched' \/ Dirty(p)
      <3>1. SUFFICES ASSUME p \in pending', ~use[p].both, ~Dirty(p) PROVE p \in latched'
        OBVIOUS
      <3>2. CASE p \in pending
        BY <1>0, <2>1, <3>1, <3>2 DEF EdgeOf
      <3>3. CASE G!Asks(p, rises) \/ G!Stray(p, rises)
        <4>1. CASE bankPower = "starting"
          BY <1>0, <3>3, <4>1 DEF G!Asks, G!Stray
        <4>2. CASE bankPower # "starting"
          <5>1. use[p].edge /\ (rises <=> use[p].high)
            BY <3>1, <3>3, <4>2 DEF G!Asks, G!Stray
          <5>2. G!Detected(p, rises)
            BY <1>0, <3>1, <4>2, <5>1, EdgeSeen
          <5>3. QED
            BY <1>0, <5>2
        <4>3. QED
          BY <4>1, <4>2
      <3>4. QED
        BY <1>0, <3>1, <3>2, <3>3
    <2>3. use[p].edge /\ p \in latched' => p \in pending' \/ Dirty(p)
      <3>1. SUFFICES ASSUME use[p].edge, p \in latched', ~Dirty(p), p \notin pending' PROVE FALSE
        OBVIOUS
      <3>2. p \notin pending /\ ~G!Asks(p, rises) /\ ~G!Stray(p, rises)
        BY <1>0, <3>1
      <3>3. CASE p \in latched
        BY <1>0, <2>1, <3>1, <3>2, <3>3 DEF EdgeOf
      <3>4. CASE G!Detected(p, rises)
        <4>1. bankPower # "starting"
          <5>1. SUFFICES ASSUME bankPower = "starting" PROVE FALSE
            OBVIOUS
          <5>2. p \in bankSaved["IntPolarity"] <=> use[p].high
            BY <1>0, <5>1 DEF GpioInv, Values, QuietInv
          <5>3. rises <=> p \in reg["IntPolarity"]
            BY <3>4 DEF G!Detected, G!Detects
          <5>4. p \in reg["IntPolarity"] <=> p \in bankSaved["IntPolarity"]
            BY <3>2, <3>4, <5>1 DEF G!Stray
          <5>5. QED
            BY <1>0, <3>1, <3>2, <3>4, <5>1, <5>2, <5>3, <5>4 DEF G!Asks, G!IsIrq
        <4>2. ~use[p].both /\ ~(rises <=> use[p].high)
          BY <1>0, <3>1, <3>2, <4>1 DEF G!Asks, G!IsIrq
        <4>3. rises <=> use[p].high
          BY <1>0, <3>1, <3>4, <4>1, <4>2, EdgeSeen
        <4>4. QED
          BY <4>2, <4>3
      <3>5. QED
        BY <1>0, <3>1, <3>3, <3>4
    <2>4. QED
      BY <1>0, <1>1, <2>1, <2>2, <2>3 DEF EdgeOf
  <1>8. EdgeInv'
    BY <1>6, <1>7 DEF EdgeInv
  <1>9. QED
    BY <1>2, <1>3, <1>4, <1>5, <1>8 DEF GpioInv, Values

-----------------------------------------------------------------------------
(* Power.                                                                  *)

LEMMA BothIdle ==
  ASSUME GpioInv, bankPower \in {"absent", "prepared", "D3", "F1"}
  PROVE  Io = G!Idle /\ Isr = G!Idle /\ lock = "free"
  <1>1. Sound
    BY DEF GpioInv
  <1>2. Io.name = "none" /\ Isr.name = "none"
    BY <1>1 DEF Sound, PowerInv, LockInv
  <1>3. Io = G!Idle /\ Isr = G!Idle
    BY <1>1, <1>2, SidesAre DEF Sound, ListInv, Io, Isr
  <1>4. lock # "io" /\ lock # "isr"
    BY <1>1, <1>2 DEF Sound, LockInv, Locking
  <1>5. QED
    BY <1>1, <1>3, <1>4 DEF Sound, BankTypes

LEMMA IdleThen ==
  ASSUME \A s \in G!Sides : call'[s] = G!Idle
  PROVE  ListInv'
  <1>1. ASSUME NEW s \in G!Sides
        PROVE  (Listed(call[s]) /\ Halves(call[s]) /\ Agree(call[s]) /\ (call[s].name = "none" => call[s] = G!Idle))'
    <2>1. Listed(G!Idle) /\ (\A b : AgreeWith(b, G!Idle)) /\ G!Idle.todo = <<>>
      BY IdleIs
    <2>2. Halves(call[s])'
      BY <2>1 DEF Halves, Places
    <2>3. Agree(call[s])'
      BY <2>1 DEF Agree, AgreeWith, Places, IsStore
    <2>4. Listed(call[s])'
      BY <2>1 DEF Listed, Mine, Loaded, Locked, Ordered, Places, IsStore, IsLoad, MayUse
    <2>5. QED
      BY <2>2, <2>3, <2>4
  <1>2. QED
    BY <1>1 DEF ListInv

LEMMA IdleList ==
  ASSUME Sound, call' = call, Io = G!Idle, Isr = G!Idle
  PROVE  ListInv' /\ Io' = G!Idle /\ Isr' = G!Idle
  <1>1. \A s \in G!Sides : call'[s] = G!Idle
    BY SidesAre DEF Io, Isr
  <1>2. QED
    BY <1>1, IdleThen, SidesAre DEF Io, Isr

\* Nobody uses a line then.
LEMMA Unused ==
  ASSUME \A p \in Pins : use'[p].as = "none", pending' = {}
  PROVE  /\ \A p \in Pins : ModeOf(p)' /\ EdgeOf(p)'
         /\ DriveInv'
  <1>1. \A p \in Pins : ModeOf(p)'
    BY DEF ModeOf
  <1>2. \A p \in Pins : EdgeOf(p)'
    BY DEF EdgeOf
  <1>3. DriveInv'
    BY DEF DriveInv
  <1>4. QED
    BY <1>1, <1>2, <1>3

LEMMA PrepareKept ==
  ASSUME GpioInv, G!RockchipGpioPrepareController
  PROVE  GpioInv'
  <1>0. /\ bankPower = "absent" /\ bankPower' = "prepared" /\ type' \in {"V1", "V2"}
        /\ reg' \in [G!Registers -> SUBSET Pins]
        /\ bankSaved' = G!NothingSaved /\ call' = call
        /\ use' = use /\ driven' = driven /\ masked' = masked /\ pending' = pending /\ lock' = lock
    <2>1. reg' \in [G!Registers -> SUBSET Pins]
      <3>1. PICK mask \in SUBSET Pins, en \in SUBSET Pins :
              reg' = [[r \in G!Registers |-> {}] EXCEPT !["IntMask"] = mask, !["IntEn"] = en]
        BY DEF G!RockchipGpioPrepareController
      <3>2. [r \in G!Registers |-> {}] \in [G!Registers -> SUBSET Pins]
        OBVIOUS
      <3>3. QED
        BY <3>1, <3>2
    <2>2. QED
      BY <2>1 DEF G!RockchipGpioPrepareController, G!asked
  <1>1. /\ Io = G!Idle /\ Isr = G!Idle /\ lock = "free" /\ Sound /\ UseInv
        /\ (\A p \in Pins : use[p].as = "none") /\ pending = {}
    BY <1>0, BothIdle DEF GpioInv, Values, UseInv
  <1>2. ListInv' /\ Io' = G!Idle /\ Isr' = G!Idle /\ Io'.name = "none" /\ Isr'.name = "none"
    BY <1>0, <1>1, IdleList, IdleIs
  <1>3. Sound'
    <2>1. bankSaved' \in [G!SavedRegisters -> SUBSET Pins]
      BY <1>0 DEF G!NothingSaved
    <2>2. BankTypes'
      BY <1>0, <1>1, <1>2, <2>1 DEF Sound, BankTypes, IoNames, IsrNames
    <2>3. LockInv' /\ PowerInv'
      BY <1>0, <1>1, <1>2 DEF LockInv, PowerInv, Locking, Saving
    <2>4. QED
      BY <1>2, <2>2, <2>3 DEF Sound
  <1>4. ModeInv' /\ EdgeInv' /\ DriveInv'
    BY <1>0, <1>1, Unused DEF ModeInv, EdgeInv
  <1>5. EnableInv' /\ MaskInv' /\ StartInv' /\ SavedInv' /\ QuietInv'
    BY <1>0 DEF EnableInv, MaskInv, StartInv, SavedInv, QuietInv
  <1>6. UseInv'
    BY <1>0, <1>1, <1>2 DEF UseInv, Locking
  <1>7. QED
    BY <1>3, <1>4, <1>5, <1>6 DEF GpioInv, Values

LEMMA ReleaseKept ==
  ASSUME GpioInv, G!RockchipGpioReleaseController
  PROVE  GpioInv'
  <1>0. /\ bankPower = "prepared" /\ bankPower' = "absent" /\ type' = type /\ reg' = reg
        /\ bankSaved' = bankSaved /\ call' = call
        /\ use' = use /\ driven' = driven /\ masked' = masked /\ pending' = pending /\ lock' = lock
    BY DEF G!RockchipGpioReleaseController, G!hardware, G!asked
  <1>1. /\ Io = G!Idle /\ Isr = G!Idle /\ lock = "free" /\ Sound /\ UseInv
        /\ (\A p \in Pins : use[p].as = "none") /\ pending = {}
    BY <1>0, BothIdle DEF GpioInv, Values, UseInv
  <1>2. ListInv' /\ Io' = G!Idle /\ Isr' = G!Idle /\ Io'.name = "none" /\ Isr'.name = "none"
    BY <1>0, <1>1, IdleList, IdleIs
  <1>3. Sound'
    <2>1. BankTypes'
      BY <1>0, <1>1, <1>2 DEF Sound, BankTypes, IoNames, IsrNames
    <2>2. LockInv' /\ PowerInv'
      BY <1>0, <1>1, <1>2 DEF LockInv, PowerInv, Locking, Saving
    <2>3. QED
      BY <1>2, <2>1, <2>2 DEF Sound
  <1>4. ModeInv' /\ EdgeInv' /\ DriveInv'
    BY <1>0, <1>1, Unused DEF ModeInv, EdgeInv
  <1>5. EnableInv' /\ MaskInv' /\ StartInv' /\ SavedInv' /\ QuietInv'
    BY <1>0 DEF EnableInv, MaskInv, StartInv, SavedInv, QuietInv
  <1>6. UseInv'
    BY <1>0, <1>1, <1>2 DEF UseInv, Locking
  <1>7. QED
    BY <1>3, <1>4, <1>5, <1>6 DEF GpioInv, Values

LEMMA RemoveKept ==
  ASSUME GpioInv, G!StopForRemoval
  PROVE  GpioInv'
  <1>0. /\ bankPower = "on" /\ bankPower' = "prepared" /\ type' = type /\ reg' = reg
        /\ bankSaved' = bankSaved /\ call' = call /\ Io = G!Idle /\ Isr = G!Idle
        /\ (\A p \in Pins : use[p].as = "none") /\ pending' = {}
        /\ use' = use /\ driven' = driven /\ masked' = masked /\ lock' = lock
    BY SidesAre DEF G!StopForRemoval, G!hardware, Io, Isr
  <1>1. Sound /\ UseInv /\ Io.name = "none" /\ Isr.name = "none" /\ lock = "free"
    <2>1. Sound /\ UseInv /\ Io.name = "none" /\ Isr.name = "none"
      BY <1>0, IdleIs DEF GpioInv, Values
    <2>2. lock # "io" /\ lock # "isr"
      BY <2>1 DEF Sound, LockInv, Locking
    <2>3. QED
      BY <2>1, <2>2 DEF Sound, BankTypes
  <1>2. ListInv' /\ Io' = G!Idle /\ Isr' = G!Idle /\ Io'.name = "none" /\ Isr'.name = "none"
    BY <1>0, <1>1, IdleList, IdleIs
  <1>3. Sound'
    <2>1. BankTypes'
      BY <1>0, <1>1, <1>2 DEF Sound, BankTypes, IoNames, IsrNames
    <2>2. LockInv' /\ PowerInv'
      BY <1>0, <1>1, <1>2 DEF LockInv, PowerInv, Locking, Saving
    <2>3. QED
      BY <1>2, <2>1, <2>2 DEF Sound
  <1>4. ModeInv' /\ EdgeInv' /\ DriveInv'
    BY <1>0, <1>1, Unused DEF ModeInv, EdgeInv
  <1>5. EnableInv' /\ MaskInv' /\ StartInv' /\ SavedInv' /\ QuietInv'
    BY <1>0 DEF EnableInv, MaskInv, StartInv, SavedInv, QuietInv
  <1>6. UseInv'
    <2>1. Isr'.pins = {}
      BY <1>2, IdleIs
    <2>2. QED
      BY <1>0, <1>1, <1>2, <2>1 DEF UseInv, Locking
  <1>7. QED
    BY <1>3, <1>4, <1>5, <1>6 DEF GpioInv, Values

\* A callback of a power transition begins, or one is over.
LEMMA PowerBegins ==
  ASSUME GpioInv, Io = G!Idle, Isr = G!Idle, NEW d \in Calls, Listed(d), Begun(d, d.name, d.pins),
         d.name \in {"start"} \cup Saving, Becomes("io", d),
         bankPower' = IF d.name = "start" THEN "starting" ELSE "stopping",
         type' = type, reg' = reg, bankSaved' = bankSaved, lock' = lock, use' = use, masked' = masked, pending' = pending
  PROVE  Sound' /\ UseInv' /\ Io' = d /\ Isr' = G!Idle
  <1>1. Sound /\ UseInv /\ lock = "free"
    <2>1. Sound /\ UseInv
      BY DEF GpioInv, Values
    <2>2. lock # "io" /\ lock # "isr"
      BY <2>1, IdleIs DEF Sound, LockInv, Locking
    <2>3. QED
      BY <2>1, <2>2 DEF Sound, BankTypes
  <1>2. Io' = d /\ Isr' = G!Idle /\ Isr'.name = "none" /\ Isr'.pins = {}
    BY <1>1, BecomesIs, SidesAre, IdleIs
  <1>3. d.name # "none" /\ d.name \notin Locking /\ d.name \in IoNames
    BY DEF Saving, Locking, IoNames
  <1>4. ListInv' /\ call' \in [G!Sides -> Calls]
    BY <1>1, <1>3, BegunProper, ListBecomes, SidesAre
  <1>5. BankTypes'
    BY <1>1, <1>2, <1>3, <1>4 DEF Sound, BankTypes, IsrNames
  <1>6. LockInv'
    BY <1>1, <1>2, <1>3 DEF LockInv
  <1>7. PowerInv'
    BY <1>2, <1>3 DEF PowerInv, Saving
  <1>8. UseInv'
    BY <1>1, <1>2, <1>3 DEF UseInv
  <1>9. QED
    BY <1>2, <1>4, <1>5, <1>6, <1>7, <1>8 DEF Sound

\* What a start makes of the modes of the lines.
LEMMA StartMode ==
  ASSUME SavedInv, bankPower \in {"D3", "F1"}, NEW d, Io' = d, Isr' = G!Idle, NEW p \in Pins,
         use' = use, driven' = driven,
         \A r \in Restored : Makes(d, r, p, p \in bankSaved[r])
  PROVE  /\ ModeOf(p)'
         /\ Holds(d, reg', "IntMask", p, use[p].as = "irq" => p \in masked)
  <1>1. \A r \in Restored : Hits(d, r, p) /\ Gives(d, r, p, p \in bankSaved[r])
    BY DEF Makes
  <1>2. \A r, v : Gives(Isr', r, p, v)
    BY IdleIs
  <1>3. ASSUME NEW r \in Restored, NEW v, p \in bankSaved[r] <=> v
        PROVE  Gives(d, r, p, v) /\ Hits(d, r, p)
    BY <1>1, <1>3 DEF Gives
  <1>4. ASSUME NEW r \in Restored, NEW v, p \in bankSaved[r] <=> v
        PROVE  Settled(Io', Isr', reg', r, p, v)
    BY <1>2, <1>3, <1>4 DEF Settled
  <1>5. ModeOf(p)'
    <2>1. CASE use[p].as = "in"
      <3>1. Settled(Io', Isr', reg', "PortDDR", p, FALSE)
        BY <1>4, <2>1 DEF SavedInv, Restored
      <3>2. QED
        BY <2>1, <3>1 DEF ModeOf, Asked
    <2>2. CASE use[p].as = "out"
      <3>1. Settled(Io', Isr', reg', "PortDDR", p, TRUE) /\ Settled(Io', Isr', reg', "PortDR", p, p \in driven')
        BY <1>4, <2>2 DEF SavedInv, Restored
      <3>2. QED
        BY <2>2, <3>1 DEF ModeOf, Asked
    <2>3. CASE use[p].as = "irq"
      <3>1. /\ Settled(Io', Isr', reg', "PortDDR", p, FALSE) /\ Settled(Io', Isr', reg', "IntType", p, use'[p].edge)
            /\ Settled(Io', Isr', reg', "IntPolarity", p, use'[p].high)
        BY <1>4, <2>3 DEF SavedInv, Restored
      <3>2. QED
        BY <2>3, <3>1 DEF ModeOf, Asked
    <2>4. QED
      BY <2>1, <2>2, <2>3 DEF ModeOf
  <1>6. Holds(d, reg', "IntMask", p, use[p].as = "irq" => p \in masked)
    <2>1. p \in bankSaved["IntMask"] <=> (use[p].as = "irq" => p \in masked)
      BY DEF SavedInv
    <2>2. QED
      BY <1>3, <2>1 DEF Restored, Holds
  <1>7. QED
    BY <1>5, <1>6

LEMMA StartKept ==
  ASSUME GpioInv, G!StartController
  PROVE  GpioInv'
  <1> DEFINE restore == bankPower = "D3"
             t == G!RockchipGpioStartController(restore)
             d == G!Callback("start", {}, t)
  <1>0. /\ bankPower \in {"prepared", "D3"} /\ bankPower' = "starting" /\ Becomes("io", d)
        /\ type' = type /\ reg' = reg /\ latched' = latched /\ bankSaved' = bankSaved /\ lock' = lock
        /\ use' = use /\ driven' = driven /\ masked' = masked /\ pending' = pending
    BY DEF G!StartController, G!Call, G!hardware, G!asked, Becomes
  <1>1. Io = G!Idle /\ Isr = G!Idle /\ bankSaved \in [G!SavedRegisters -> SUBSET Pins]
    BY <1>0, BothIdle DEF GpioInv, Sound, BankTypes
  <1>2. restore \in BOOLEAN /\ Starts(t, restore) /\ t \in Seq(Accesses)
    <2>1. restore \in BOOLEAN
      OBVIOUS
    <2>2. Starts(t, restore)
      <3> DEFINE x == restore
      <3>1. x \in BOOLEAN
        OBVIOUS
      <3> HIDE DEF x
      <3>2. Starts(G!RockchipGpioStartController(x), x)
        BY <1>1, <3>1, StartIs
      <3>3. QED
        BY <3>2 DEF x
    <2>3. QED
      BY <2>1, <2>2 DEF Starts
  <1> HIDE DEF restore, t
  <1>3. d \in Calls /\ d.name = "start" /\ d.pins = {} /\ d.todo = t /\ DOMAIN d.val = {}
    <2>1. {} \in SUBSET Pins /\ "start" \in IoNames \cup IsrNames
      BY DEF IoNames
    <2>2. d \in Calls
      BY <1>2, <2>1, CallbackIn
    <2>3. QED
      BY <2>2, CallbackOf
  <1> HIDE DEF d
  <1>4. Listed(d) /\ Begun(d, d.name, d.pins)
    BY <1>1, <1>2, <1>3, StartLists
  <1>5. Sound' /\ UseInv' /\ Io' = d /\ Isr' = G!Idle
    BY <1>0, <1>1, <1>3, <1>4, PowerBegins
  <1>6. /\ \A p \in Pins : Makes(d, "IntEn", p, TRUE) /\ EoiDue(d, p)
        /\ restore => \A p \in Pins, r \in Restored : Makes(d, r, p, p \in bankSaved[r])
        /\ ~restore => \A p \in Pins : Makes(d, "IntMask", p, TRUE)
    BY <1>1, <1>2, <1>3, StartMakes
  <1>7. ~restore => pending' = {} /\ \A p \in Pins : use'[p].as = "none"
    BY <1>0 DEF GpioInv, Values, UseInv, restore
  <1>8. \A p \in Pins : ModeOf(p)' /\ Holds(d, reg', "IntMask", p, use'[p].as = "irq" => p \in masked')
    <2>1. SUFFICES ASSUME NEW p \in Pins
                   PROVE  ModeOf(p)' /\ Holds(d, reg', "IntMask", p, use'[p].as = "irq" => p \in masked')
      OBVIOUS
    <2>2. CASE restore
      <3>1. SavedInv /\ bankPower \in {"D3", "F1"} /\ \A r \in Restored : Makes(d, r, p, p \in bankSaved[r])
        BY <1>6, <2>2 DEF GpioInv, Values, restore
      <3>2. QED
        BY <1>0, <1>5, <3>1, StartMode
    <2>3. CASE ~restore
      <3>1. use'[p].as = "none" /\ Makes(d, "IntMask", p, TRUE)
        BY <1>6, <1>7, <2>3
      <3>2. QED
        BY <3>1 DEF ModeOf, Makes, Holds, Gives
    <2>4. QED
      BY <2>2, <2>3
  <1>9. ModeInv' /\ StartInv'
    BY <1>5, <1>8 DEF ModeInv, StartInv
  <1>10. DriveInv'
    <2>1. CASE restore
      BY <1>0, <2>1 DEF GpioInv, Values, DriveInv, restore
    <2>2. CASE ~restore
      BY <1>7, <2>2 DEF DriveInv
    <2>3. QED
      BY <2>1, <2>2
  <1>11. EnableInv'
    <2>1. \A p \in Pins : Holds(Io', reg', "IntEn", p, TRUE)
      BY <1>5, <1>6 DEF Makes, Holds
    <2>2. QED
      BY <2>1 DEF EnableInv
  <1>12. MaskInv' /\ SavedInv'
    BY <1>0 DEF MaskInv, SavedInv
  <1>13. EdgeInv'
    <2>1. ASSUME NEW p \in Pins PROVE EdgeOf(p)'
      <3>1. EdgeOf(p) /\ ~Dirty(p)
        BY <1>1, IdleIs DEF GpioInv, Values, EdgeInv, Dirty, Enabling
      <3>2. QED
        BY <1>0, <3>1 DEF EdgeOf
    <2>2. QED
      BY <2>1 DEF EdgeInv
  <1>14. QuietInv'
    <2>1. SUFFICES ASSUME NEW p \in Pins, use[p].as = "irq"
                   PROVE  QuietOf(p)' /\ (p \in bankSaved["IntPolarity"] <=> use[p].high)
      BY <1>0 DEF QuietInv
    <2>2. restore /\ bankPower = "D3"
      BY <1>0, <1>7, <2>1 DEF restore
    <2>3. (p \in bankSaved["IntPolarity"] <=> use[p].high) /\ QuietOf(p)
      BY <2>1, <2>2 DEF GpioInv, Values, SavedInv, QuietInv
    <2>4. FirstMask(Io', p)
      <3>1. Stores(d.todo[1], "IntMask", Pins, Pins)
        BY <1>2, <1>3 DEF Starts
      <3>2. 1 \in Places(d)
        BY <1>1, <1>2, <1>3, StartLists
      <3>3. QED
        BY <1>5, <3>1, <3>2 DEF FirstMask, Stores, Sets, IsStore, Reach
    <2>5. QED
      BY <1>0, <2>3, <2>4 DEF QuietOf
  <1>15. QED
    BY <1>5, <1>9, <1>10, <1>11, <1>12, <1>13, <1>14 DEF GpioInv, Values

LEMMA RestoreBankKept ==
  ASSUME GpioInv, G!RestoreBank
  PROVE  GpioInv'
  <1> DEFINE t == G!RockchipGpioRestoreBankHardwareContext
             d == G!Callback("start", {}, t)
  <1>0. /\ bankPower = "F1" /\ bankPower' = "starting" /\ Becomes("io", d)
        /\ type' = type /\ reg' = reg /\ latched' = latched /\ bankSaved' = bankSaved /\ lock' = lock
        /\ use' = use /\ driven' = driven /\ masked' = masked /\ pending' = pending
    BY DEF G!RestoreBank, G!Call, G!hardware, G!asked, Becomes
  <1>1. Io = G!Idle /\ Isr = G!Idle /\ bankSaved \in [G!SavedRegisters -> SUBSET Pins]
    BY <1>0, BothIdle DEF GpioInv, Sound, BankTypes
  <1>2. Restores(t) /\ t \in Seq(Accesses)
    BY <1>1, RestoreIs DEF Restores
  <1> HIDE DEF t
  <1>3. d \in Calls /\ d.name = "start" /\ d.pins = {} /\ d.todo = t /\ DOMAIN d.val = {}
    <2>1. {} \in SUBSET Pins /\ "start" \in IoNames \cup IsrNames
      BY DEF IoNames
    <2>2. d \in Calls
      BY <1>2, <2>1, CallbackIn
    <2>3. QED
      BY <2>2, CallbackOf
  <1> HIDE DEF d
  <1>4. Listed(d) /\ Begun(d, d.name, d.pins)
    BY <1>1, <1>2, <1>3, RestoreLists
  <1>5. Sound' /\ UseInv' /\ Io' = d /\ Isr' = G!Idle
    BY <1>0, <1>1, <1>3, <1>4, PowerBegins
  <1>6. \A p \in Pins : /\ \A r \in Restored : Makes(d, r, p, p \in bankSaved[r])
                        /\ ~EoiDue(d, p) /\ ~Hits(d, "IntEn", p) /\ \A v : Gives(d, "IntEn", p, v)
    BY <1>1, <1>2, <1>3, RestoreMakes
  <1>7. \A p \in Pins : ModeOf(p)' /\ Holds(d, reg', "IntMask", p, use'[p].as = "irq" => p \in masked')
    <2>1. SavedInv /\ bankPower \in {"D3", "F1"}
      BY <1>0 DEF GpioInv, Values
    <2>2. QED
      BY <1>0, <1>5, <1>6, <2>1, StartMode
  <1>8. ModeInv' /\ StartInv'
    BY <1>5, <1>7 DEF ModeInv, StartInv
  <1>9. DriveInv'
    <2>1. SUFFICES ASSUME NEW p \in Pins, use[p].as = "out", p \in reg["PortDDR"]
                   PROVE  p \in reg["PortDR"] <=> p \in driven
      BY <1>0 DEF DriveInv
    <2>2. Settled(Io, Isr, reg, "PortDR", p, p \in driven)
      BY <1>0, <2>1 DEF GpioInv, Values, ModeInv, ModeOf, Asked
    <2>3. QED
      BY <1>1, <2>2, IdleIs DEF Settled
  <1>10. EnableInv'
    <2>1. \A p \in Pins : p \in reg["IntEn"]
      BY <1>0, <1>1, IdleIs DEF GpioInv, Values, EnableInv, Holds
    <2>2. \A p \in Pins : Holds(Io', reg', "IntEn", p, TRUE)
      BY <1>0, <1>5, <1>6, <2>1 DEF Holds
    <2>3. QED
      BY <2>2 DEF EnableInv
  <1>11. MaskInv' /\ SavedInv'
    BY <1>0 DEF MaskInv, SavedInv
  <1>12. EdgeInv'
    <2>1. ASSUME NEW p \in Pins PROVE EdgeOf(p)'
      <3>1. EdgeOf(p) /\ ~Dirty(p) /\ ~(Dirty(p)')
        BY <1>1, <1>3, <1>5, IdleIs DEF GpioInv, Values, EdgeInv, Dirty, Enabling
      <3>2. QED
        BY <1>0, <3>1 DEF EdgeOf
    <2>2. QED
      BY <2>1 DEF EdgeInv
  <1>13. QuietInv'
    <2>1. SUFFICES ASSUME NEW p \in Pins, use[p].as = "irq"
                   PROVE  QuietOf(p)' /\ (p \in bankSaved["IntPolarity"] <=> use[p].high)
      BY <1>0 DEF QuietInv
    <2>2. p \in bankSaved["IntPolarity"] <=> use[p].high
      BY <1>0, <2>1 DEF GpioInv, Values, SavedInv
    <2>3. Settled(Io, Isr, reg, "IntType", p, use[p].edge)
      BY <1>0, <2>1 DEF GpioInv, Values, ModeInv, ModeOf, Asked
    <2>4. p \in reg["IntType"] <=> use[p].edge
      BY <1>1, <2>3, IdleIs DEF Settled
    <2>5. QED
      BY <1>0, <2>2, <2>4 DEF QuietOf
  <1>14. QED
    BY <1>5, <1>8, <1>9, <1>10, <1>11, <1>12, <1>13 DEF GpioInv, Values

\* The callback of a power transition is over: both sides are idle then.
LEMMA PowerEnds ==
  ASSUME GpioInv, bankPower \in {"starting", "stopping"}, Io.todo = <<>>, Becomes("io", G!Idle),
         bankPower' \in {"on", "D3", "F1"}, type' = type, lock' = lock, use' = use,
         reg' \in [G!Registers -> SUBSET Pins], bankSaved' \in [G!SavedRegisters -> SUBSET Pins]
  PROVE  /\ Sound' /\ Io' = G!Idle /\ Isr = G!Idle /\ Isr' = G!Idle
         /\ \A r, p : /\ ~Hits(Io, r, p) /\ ~EoiDue(Io, p) /\ ~Hits(Isr, r, p)
                      /\ ~Hits(Io', r, p) /\ ~EoiDue(Io', p) /\ ~Hits(Isr', r, p)
                      /\ \A v : Gives(Io', r, p, v) /\ Gives(Isr', r, p, v)
  <1>1. Sound /\ Isr.name = "none" /\ Io.name \notin Locking /\ Io.name \in {"start"} \cup Saving
    <2>1. Sound
      BY DEF GpioInv
    <2>2. Io.name \in {"start"} \cup Saving
      BY <2>1 DEF Sound, PowerInv
    <2>3. QED
      BY <2>1, <2>2 DEF Sound, LockInv, Locking, Saving
  <1>2. Isr = G!Idle
    BY <1>1, SidesAre DEF Sound, ListInv, Isr
  <1>3. /\ Io' = G!Idle /\ Isr' = G!Idle /\ Io'.name = "none" /\ Isr'.name = "none"
        /\ call' \in [G!Sides -> Calls] /\ \A s \in G!Sides : call'[s] = G!Idle
    <2>1. Io' = G!Idle /\ Isr' = Isr /\ call' \in [G!Sides -> Calls]
      BY <1>1, BecomesIs, SidesAre, IdleIs
    <2>2. \A s \in G!Sides : call'[s] = G!Idle
      BY <1>2, <2>1, SidesAre DEF Io, Isr
    <2>3. QED
      BY <1>2, <2>1, <2>2, IdleIs
  <1>4. lock = "free"
    BY <1>1 DEF Sound, LockInv, BankTypes
  <1>5. BankTypes'
    BY <1>1, <1>3, <1>4 DEF Sound, BankTypes, IoNames, IsrNames
  <1>6. LockInv' /\ PowerInv'
    BY <1>3, <1>4 DEF LockInv, PowerInv, Locking, Saving
  <1>7. Sound'
    BY <1>3, <1>5, <1>6, IdleThen DEF Sound
  <1>8. QED
    BY <1>2, <1>3, <1>7, NothingLeft, IdleIs

\* With nothing left to do, lines are what is asked for, and stay so.
LEMMA QuietMode ==
  ASSUME NEW p \in Pins, ModeOf(p), \A r \in G!Registers : ~Hits(Io, r, p) /\ ~Hits(Isr, r, p)
  PROVE  /\ use[p].as = "in"  => p \notin reg["PortDDR"]
         /\ use[p].as = "out" => p \in reg["PortDDR"] /\ (p \in reg["PortDR"] <=> p \in driven)
         /\ use[p].as = "irq" => /\ p \notin reg["PortDDR"] /\ (p \in reg["IntType"] <=> use[p].edge)
                                 /\ (p \in reg["IntPolarity"] <=> use[p].high)
  BY RegistersAre DEF ModeOf, Asked, Settled

LEMMA ModeQuiet ==
  ASSUME NEW p \in Pins, ModeOf(p), \A r : ~Hits(Io, r, p) /\ ~Hits(Isr, r, p),
         \A r, v : Gives(Io', r, p, v) /\ Gives(Isr', r, p, v),
         use' = use, driven' = driven, reg' = reg
  PROVE  ModeOf(p)'
  <1>1. /\ use[p].as = "in"  => p \notin reg["PortDDR"]
        /\ use[p].as = "out" => p \in reg["PortDDR"] /\ (p \in reg["PortDR"] <=> p \in driven)
        /\ use[p].as = "irq" => /\ p \notin reg["PortDDR"] /\ (p \in reg["IntType"] <=> use[p].edge)
                                /\ (p \in reg["IntPolarity"] <=> use[p].high)
    BY QuietMode
  <1>2. ASSUME NEW r, NEW v, p \in reg[r] <=> v
        PROVE  Settled(Io', Isr', reg', r, p, v)
    BY <1>2 DEF Settled
  <1>3. CASE use[p].as = "in"
    <2>1. Settled(Io', Isr', reg', "PortDDR", p, FALSE)
      BY <1>1, <1>2, <1>3
    <2>2. QED
      BY <1>3, <2>1 DEF ModeOf, Asked
  <1>4. CASE use[p].as = "out"
    <2>1. Settled(Io', Isr', reg', "PortDDR", p, TRUE) /\ Settled(Io', Isr', reg', "PortDR", p, p \in driven')
      BY <1>1, <1>2, <1>4
    <2>2. QED
      BY <1>4, <2>1 DEF ModeOf, Asked
  <1>5. CASE use[p].as = "irq"
    <2>1. /\ Settled(Io', Isr', reg', "PortDDR", p, FALSE) /\ Settled(Io', Isr', reg', "IntType", p, use'[p].edge)
          /\ Settled(Io', Isr', reg', "IntPolarity", p, use'[p].high)
      BY <1>1, <1>2, <1>5
    <2>2. QED
      BY <1>5, <2>1 DEF ModeOf, Asked
  <1>6. QED
    BY <1>3, <1>4, <1>5 DEF ModeOf

LEMMA StartedKept ==
  ASSUME GpioInv, G!Started
  PROVE  GpioInv'
  <1>0. /\ Io.name = "start" /\ Io.todo = <<>> /\ Becomes("io", G!Idle)
        /\ bankPower' = "on" /\ bankSaved' = G!NothingSaved
        /\ type' = type /\ reg' = reg /\ latched' = latched /\ lock' = lock
        /\ use' = use /\ driven' = driven /\ masked' = masked /\ pending' = pending
    BY DEF G!Started, G!Finished, G!Todo, G!Return, G!hardware, G!asked, Becomes, Io
  <1>1. bankPower = "starting" /\ reg \in [G!Registers -> SUBSET Pins]
    BY <1>0 DEF GpioInv, Sound, PowerInv, BankTypes
  <1>2. bankSaved' \in [G!SavedRegisters -> SUBSET Pins]
    BY <1>0 DEF G!NothingSaved
  <1>3. /\ Sound' /\ Io' = G!Idle /\ Isr = G!Idle /\ Isr' = G!Idle
        /\ \A r, p : /\ ~Hits(Io, r, p) /\ ~EoiDue(Io, p) /\ ~Hits(Isr, r, p)
                     /\ ~Hits(Io', r, p) /\ ~EoiDue(Io', p) /\ ~Hits(Isr', r, p)
                     /\ \A v : Gives(Io', r, p, v) /\ Gives(Isr', r, p, v)
    BY <1>0, <1>1, <1>2, PowerEnds
  <1>4. ModeInv'
    <2>1. \A p \in Pins : ModeOf(p)
      BY <1>1 DEF GpioInv, Values, ModeInv
    <2>2. \A p \in Pins : ModeOf(p)'
      BY <1>0, <1>3, <2>1, ModeQuiet
    <2>3. QED
      BY <2>2 DEF ModeInv
  <1>5. MaskInv'
    <2>1. ASSUME NEW p \in Pins PROVE MaskOf(p)'
      <3>1. p \in reg["IntMask"] <=> (use[p].as = "irq" => p \in masked)
        BY <1>1, <1>3 DEF GpioInv, Values, StartInv, Holds
      <3>2. CASE use[p].as # "irq"
        BY <1>0, <3>1, <3>2 DEF MaskOf
      <3>3. CASE use[p].as = "irq"
        <4>1. MaskedThen(p)' <=> p \in masked
          BY <1>0, <1>3, IdleIs DEF MaskedThen
        <4>2. Holds(Isr', reg', "IntMask", p, MaskedThen(p)')
          BY <1>0, <1>3, <3>1, <3>3, <4>1 DEF Holds
        <4>3. InUse(p)'
          BY <1>3, <4>2, IdleIs DEF InUse
        <4>4. QED
          BY <1>0, <3>3, <4>3 DEF MaskOf
      <3>4. QED
        BY <3>2, <3>3
    <2>2. QED
      BY <2>1 DEF MaskInv
  <1>6. EdgeInv'
    <2>1. ASSUME NEW p \in Pins PROVE EdgeOf(p)'
      <3>1. EdgeOf(p) /\ ~Dirty(p)
        BY <1>3 DEF GpioInv, Values, EdgeInv, Dirty
      <3>2. QED
        BY <1>0, <1>1, <1>3, <3>1 DEF EdgeOf
    <2>2. QED
      BY <2>1 DEF EdgeInv
  <1>7. EnableInv'
    <2>1. \A p \in Pins : p \in reg["IntEn"]
      BY <1>1, <1>3 DEF GpioInv, Values, EnableInv, Holds
    <2>2. \A p \in Pins : Holds(Io', reg', "IntEn", p, TRUE)
      BY <1>0, <1>3, <2>1 DEF Holds
    <2>3. QED
      BY <2>2 DEF EnableInv
  <1>8. UseInv'
    <2>1. Io'.name \notin Locking /\ Isr'.pins = {} /\ UseInv
      BY <1>3, IdleIs DEF Locking, GpioInv, Values
    <2>2. QED
      BY <1>0, <2>1 DEF UseInv
  <1>9. DriveInv' /\ StartInv' /\ SavedInv' /\ QuietInv'
    BY <1>0 DEF DriveInv, StartInv, SavedInv, QuietInv
  <1>10. QED
    BY <1>3, <1>4, <1>5, <1>6, <1>7, <1>8, <1>9 DEF GpioInv, Values

\* A line in use while the serialised side works on none.
LEMMA QuietMask ==
  ASSUME NEW p \in Pins, MaskOf(p), use[p].as = "irq", Io.name \notin Locking
  PROVE  p \notin Io.pins /\ Holds(Isr, reg, "IntMask", p, MaskedThen(p))
  BY DEF MaskOf, NotEnabled, Enabled, NotDisabled, Disabled, InUse, Enabling, Disabling, Locking

\* The interrupt side is idle, and the serialised side changes nothing.
LEMMA MaskQuiet ==
  ASSUME NEW p \in Pins, MaskOf(p), Io.name \notin Locking, Isr = G!Idle, Isr' = G!Idle, Io'.pins = {},
         use' = use, masked' = masked, reg' = reg
  PROVE  MaskOf(p)'
  <1>1. CASE use[p].as # "irq"
    BY <1>1 DEF MaskOf
  <1>2. CASE use[p].as = "irq"
    <2>1. Holds(Isr, reg, "IntMask", p, MaskedThen(p)) /\ (MaskedThen(p)' <=> MaskedThen(p))
      BY <1>2, QuietMask, IdleIs DEF MaskedThen
    <2>2. Holds(Isr', reg', "IntMask", p, MaskedThen(p)')
      BY <2>1 DEF Holds, Gives
    <2>3. InUse(p)'
      BY <2>2 DEF InUse
    <2>4. QED
      BY <1>2, <2>3 DEF MaskOf
  <1>3. QED
    BY <1>1, <1>2

LEMMA SaveContextKept ==
  ASSUME GpioInv, NEW target \in Saving, G!SaveContext(target)
  PROVE  GpioInv'
  <1> DEFINE t == G!RockchipGpioSaveBankHardwareContext
             d == G!Callback(target, {}, t)
  <1>0. /\ bankPower = "on" /\ bankPower' = "stopping" /\ Becomes("io", d) /\ Io = G!Idle /\ Isr = G!Idle
        /\ type' = type /\ reg' = reg /\ latched' = latched /\ bankSaved' = bankSaved /\ lock' = lock
        /\ use' = use /\ driven' = driven /\ masked' = masked /\ pending' = pending
    BY DEF G!SaveContext, G!Call, G!hardware, G!asked, Becomes, Io, Isr
  <1>1. Saves(t) /\ t \in Seq(Accesses)
    BY SaveIs DEF Saves
  <1> HIDE DEF t
  <1>2. d \in Calls /\ d.name = target /\ d.pins = {} /\ d.todo = t /\ DOMAIN d.val = {}
    <2>1. {} \in SUBSET Pins /\ target \in IoNames \cup IsrNames
      BY DEF IoNames
    <2>2. d \in Calls
      BY <1>1, <2>1, CallbackIn
    <2>3. QED
      BY <2>2, CallbackOf
  <1> HIDE DEF d
  <1>3. /\ Listed(d) /\ Begun(d, d.name, d.pins)
        /\ \A r, p : ~Hits(d, r, p) /\ ~EoiDue(d, p) /\ \A v : Gives(d, r, p, v)
    BY <1>1, <1>2, SaveLists
  <1>4. Sound' /\ UseInv' /\ Io' = d /\ Isr' = G!Idle
    <2>1. bankPower' = IF d.name = "start" THEN "starting" ELSE "stopping"
      BY <1>0, <1>2 DEF Saving
    <2>2. QED
      BY <1>0, <1>2, <1>3, <2>1, PowerBegins
  <1>5. /\ \A r, p : ~Hits(Io, r, p) /\ ~EoiDue(Io, p) /\ ~Hits(Isr, r, p) /\ ~Hits(Isr', r, p)
        /\ \A r, p, v : Gives(Io', r, p, v) /\ Gives(Isr', r, p, v)
        /\ Io.name \notin Locking /\ Io'.pins = {}
    BY <1>0, <1>2, <1>3, <1>4, IdleIs DEF Locking
  <1>6. \A p \in Pins : ModeOf(p) /\ MaskOf(p) /\ EdgeOf(p)
    BY <1>0, BankOn
  <1>7. ModeInv'
    <2>1. \A p \in Pins : ModeOf(p)'
      BY <1>0, <1>5, <1>6, ModeQuiet
    <2>2. QED
      BY <2>1 DEF ModeInv
  <1>8. MaskInv'
    <2>1. \A p \in Pins : MaskOf(p)'
      BY <1>0, <1>4, <1>5, <1>6, MaskQuiet
    <2>2. QED
      BY <2>1 DEF MaskInv
  <1>9. EdgeInv'
    <2>1. ASSUME NEW p \in Pins PROVE EdgeOf(p)'
      <3>1. EdgeOf(p) /\ ~Dirty(p) /\ \A r : ~Hits(Io', r, p)
        BY <1>3, <1>4, <1>5, <1>6 DEF Dirty
      <3>2. QED
        BY <1>0, <1>5, <3>1 DEF EdgeOf
    <2>2. QED
      BY <2>1 DEF EdgeInv
  <1>10. EnableInv'
    <2>1. \A p \in Pins : p \in reg["IntEn"]
      BY <1>0, <1>5 DEF GpioInv, Values, EnableInv, Holds
    <2>2. \A p \in Pins : Holds(Io', reg', "IntEn", p, TRUE)
      BY <1>0, <1>5, <2>1 DEF Holds
    <2>3. QED
      BY <2>2 DEF EnableInv
  <1>11. DriveInv' /\ StartInv' /\ SavedInv' /\ QuietInv'
    BY <1>0 DEF DriveInv, StartInv, SavedInv, QuietInv
  <1>12. QED
    BY <1>4, <1>7, <1>8, <1>9, <1>10, <1>11 DEF GpioInv, Values

\* What has been saved is what the registers hold.
LEMMA SavedIs ==
  ASSUME Sound, Io.name \in Saving, Io.todo = <<>>,
         bankSaved' = [r \in G!SavedRegisters |-> IF r \in DOMAIN Io.val THEN Io.val[r] ELSE bankSaved[r]]
  PROVE  /\ bankSaved' \in [G!SavedRegisters -> SUBSET Pins]
         /\ \A r \in G!SavedRegisters, p \in Pins : p \in bankSaved'[r] <=> p \in reg[r]
  <1>1. Io \in Calls /\ Listed(Io) /\ Agree(Io)
    BY SidesAre DEF Sound, ListInv, BankTypes, Io
  <1>2. \A i : i \notin Places(Io)
    BY DEF Places
  <1>3. \A r \in G!SavedRegisters : r \in DOMAIN Io.val /\ bankSaved'[r] = Io.val[r]
    BY <1>1, <1>2 DEF Listed, Loaded
  <1>4. \A r \in DOMAIN Io.val : Io.val[r] \in SUBSET Pins
    BY <1>1, CallsAre, ValsAre
  <1>5. \A r \in DOMAIN Io.val, p \in Pins : p \in Io.val[r] <=> p \in reg[r]
    BY <1>1, <1>2 DEF Agree, AgreeWith
  <1>6. \A r \in G!SavedRegisters : bankSaved'[r] \in SUBSET Pins
    BY <1>3, <1>4
  <1>7. bankSaved' \in [G!SavedRegisters -> SUBSET Pins]
    <2> DEFINE f == bankSaved'
    <2>1. f = [r \in G!SavedRegisters |-> f[r]]
      OBVIOUS
    <2>2. \A r \in G!SavedRegisters : f[r] \in SUBSET Pins
      BY <1>6
    <2> HIDE DEF f
    <2>3. f \in [G!SavedRegisters -> SUBSET Pins]
      BY <2>1, <2>2
    <2>4. QED
      BY <2>3 DEF f
  <1>8. QED
    BY <1>3, <1>5, <1>7

LEMMA StoppedKept ==
  ASSUME GpioInv, NEW target \in Saving, G!Stopped(target)
  PROVE  GpioInv'
  <1>0. /\ Io.name = target /\ Io.todo = <<>> /\ Becomes("io", G!Idle) /\ bankPower' = target
        /\ bankSaved' = [r \in G!SavedRegisters |-> IF r \in DOMAIN Io.val THEN Io.val[r] ELSE bankSaved[r]]
        /\ \/ reg' = reg /\ latched' = latched /\ pending' = pending
           \/ target = "D3" /\ reg' = [r \in G!Registers |-> {}] /\ latched' = {} /\ pending' = {}
        /\ target = "F1" => reg' = reg /\ latched' = latched /\ pending' = pending
        /\ type' = type /\ lock' = lock /\ use' = use /\ driven' = driven /\ masked' = masked
    BY DEF G!Stopped, G!Finished, G!Todo, G!Return, Becomes, Io
  <1>1. Sound /\ bankPower = "stopping" /\ reg \in [G!Registers -> SUBSET Pins]
    BY <1>0 DEF GpioInv, Sound, PowerInv, BankTypes
  <1>2. /\ bankSaved' \in [G!SavedRegisters -> SUBSET Pins]
        /\ \A r \in G!SavedRegisters, p \in Pins : p \in bankSaved'[r] <=> p \in reg[r]
    BY <1>0, <1>1, SavedIs
  <1>3. reg' \in [G!Registers -> SUBSET Pins] /\ bankPower' \in {"D3", "F1"}
    <2>1. [r \in G!Registers |-> {}] \in [G!Registers -> SUBSET Pins]
      OBVIOUS
    <2>2. QED
      BY <1>0, <1>1, <2>1 DEF Saving
  <1>4. /\ Sound' /\ Io' = G!Idle /\ Isr = G!Idle /\ Isr' = G!Idle
        /\ \A r, p : /\ ~Hits(Io, r, p) /\ ~EoiDue(Io, p) /\ ~Hits(Isr, r, p)
                     /\ ~Hits(Io', r, p) /\ ~EoiDue(Io', p) /\ ~Hits(Isr', r, p)
                     /\ \A v : Gives(Io', r, p, v) /\ Gives(Isr', r, p, v)
    BY <1>0, <1>1, <1>2, <1>3, PowerEnds
  <1>5. \A p \in Pins : ModeOf(p) /\ MaskOf(p) /\ EdgeOf(p)
    BY <1>1 DEF GpioInv, Values, ModeInv, MaskInv, EdgeInv
  <1>6. Io.name \notin Locking /\ Io'.name \notin Locking /\ Io'.pins = {} /\ Isr'.pins = {}
    BY <1>0, <1>4, IdleIs DEF Saving, Locking
  <1>7. ASSUME NEW p \in Pins
        PROVE  /\ use[p].as = "in"  => p \notin reg["PortDDR"]
               /\ use[p].as = "out" => p \in reg["PortDDR"] /\ (p \in reg["PortDR"] <=> p \in driven)
               /\ use[p].as = "irq" => /\ p \notin reg["PortDDR"] /\ (p \in reg["IntType"] <=> use[p].edge)
                                       /\ (p \in reg["IntPolarity"] <=> use[p].high)
    BY <1>4, <1>5, QuietMode
  <1>8. ModeInv'
    <2>1. CASE target = "F1"
      <3>1. \A p \in Pins : ModeOf(p)'
        BY <1>0, <1>4, <1>5, <2>1, ModeQuiet
      <3>2. QED
        BY <3>1 DEF ModeInv
    <2>2. CASE target # "F1"
      BY <1>0, <1>3, <2>2 DEF ModeInv
    <2>3. QED
      BY <2>1, <2>2
  <1>9. MaskInv'
    <2>1. CASE target = "F1"
      <3>1. \A p \in Pins : MaskOf(p)'
        BY <1>0, <1>4, <1>5, <1>6, <2>1, MaskQuiet
      <3>2. QED
        BY <3>1 DEF MaskInv
    <2>2. CASE target # "F1"
      BY <1>0, <1>3, <2>2 DEF MaskInv
    <2>3. QED
      BY <2>1, <2>2
  <1>10. DriveInv'
    <2>1. SUFFICES ASSUME NEW p \in Pins, use[p].as = "out", p \in reg'["PortDDR"], target # "F1"
                   PROVE  p \in reg'["PortDR"] <=> p \in driven
      BY <1>0 DEF DriveInv
    <2>2. CASE reg' = reg
      BY <1>7, <2>1, <2>2
    <2>3. CASE reg' = [r \in G!Registers |-> {}]
      BY <2>1, <2>3, RegistersAre
    <2>4. QED
      BY <1>0, <2>1, <2>2, <2>3
  <1>11. EnableInv'
    <2>1. CASE target = "F1"
      <3>1. \A p \in Pins : p \in reg["IntEn"]
        BY <1>1, <1>4 DEF GpioInv, Values, EnableInv, Holds
      <3>2. \A p \in Pins : Holds(Io', reg', "IntEn", p, TRUE)
        BY <1>0, <1>4, <2>1, <3>1 DEF Holds
      <3>3. QED
        BY <3>2 DEF EnableInv
    <2>2. CASE target # "F1"
      BY <1>0, <1>3, <2>2 DEF EnableInv
    <2>3. QED
      BY <2>1, <2>2
  <1>12. UseInv'
    <2>1. UseInv
      BY DEF GpioInv, Values
    <2>2. bankPower' \notin {"absent", "prepared"}
      BY <1>0, <1>3
    <2>3. pending' \subseteq pending
      BY <1>0
    <2>4. QED
      BY <1>0, <1>6, <2>1, <2>2, <2>3 DEF UseInv
  <1>13. SavedInv'
    <2>1. ASSUME NEW p \in Pins
          PROVE  /\ p \in bankSaved'["IntMask"] <=> p \in reg["IntMask"]
                 /\ p \in bankSaved'["PortDDR"] <=> p \in reg["PortDDR"]
                 /\ p \in bankSaved'["PortDR"] <=> p \in reg["PortDR"]
                 /\ p \in bankSaved'["IntType"] <=> p \in reg["IntType"]
                 /\ p \in bankSaved'["IntPolarity"] <=> p \in reg["IntPolarity"]
      BY <1>2 DEF G!SavedRegisters, G!Registers
    <2>2. ASSUME NEW p \in Pins PROVE p \in reg["IntMask"] <=> (use[p].as = "irq" => p \in masked)
      <3>1. CASE use[p].as # "irq"
        BY <1>5, <3>1 DEF MaskOf
      <3>2. CASE use[p].as = "irq"
        <4>1. Holds(Isr, reg, "IntMask", p, MaskedThen(p))
          BY <1>5, <1>6, <3>2, QuietMask
        <4>2. MaskedThen(p) <=> p \in masked
          BY <1>4, IdleIs DEF MaskedThen
        <4>3. QED
          BY <1>4, <3>2, <4>1, <4>2 DEF Holds
      <3>3. QED
        BY <3>1, <3>2
    <2>3. QED
      BY <1>0, <1>7, <2>1, <2>2 DEF SavedInv
  <1>14. EdgeInv'
    <2>1. ASSUME NEW p \in Pins PROVE EdgeOf(p)'
      <3>1. EdgeOf(p) /\ ~Dirty(p)
        BY <1>4, <1>5 DEF Dirty
      <3>2. CASE latched' = latched /\ pending' = pending
        BY <1>0, <1>1, <1>4, <3>1, <3>2 DEF EdgeOf
      <3>3. CASE latched' = {} /\ pending' = {}
        BY <1>0, <1>3, <1>4, <3>3 DEF EdgeOf
      <3>4. QED
        BY <1>0, <3>2, <3>3
    <2>2. QED
      BY <2>1 DEF EdgeInv
  <1>15. StartInv'
    BY <1>3 DEF StartInv
  <1>16. QuietInv'
    <2>1. SUFFICES ASSUME NEW p \in Pins, use[p].as = "irq", bankPower' = "D3" PROVE QuietOf(p)'
      BY <1>0, <1>3 DEF QuietInv
    <2>2. CASE reg' = reg
      BY <1>0, <1>7, <2>1, <2>2 DEF QuietOf
    <2>3. CASE reg' = [r \in G!Registers |-> {}]
      BY <2>1, <2>3, RegistersAre DEF QuietOf
    <2>4. QED
      BY <1>0, <2>2, <2>3
  <1>17. QED
    BY <1>4, <1>8, <1>9, <1>10, <1>11, <1>12, <1>13, <1>14, <1>15, <1>16 DEF GpioInv, Values

LEMMA InitKept ==
  ASSUME G!Init
  PROVE  GpioInv
  <1>0. /\ bankPower = "absent" /\ type = "V1" /\ reg = [r \in G!Registers |-> {}] /\ latched = {}
        /\ bankSaved = G!NothingSaved /\ lock = "free" /\ \A s \in G!Sides : call[s] = G!Idle
        /\ call = [s \in G!Sides |-> G!Idle]
        /\ use = [p \in Pins |-> G!As("none")] /\ masked = {} /\ pending = {}
    BY DEF G!Init
  <1>1. Io = G!Idle /\ Isr = G!Idle /\ Io.name = "none" /\ Isr.name = "none"
    BY <1>0, SidesAre, IdleIs DEF Io, Isr
  <1>2. \A p \in Pins : use[p].as = "none"
    BY <1>0, UsesAs
  <1>3. Sound
    <2>1. call \in [G!Sides -> Calls]
      BY <1>0, IdleIs
    <2>2. use \in [Pins -> Uses]
      BY <1>0, UsesAs
    <2>3. BankTypes
      BY <1>0, <1>1, <2>1, <2>2 DEF BankTypes, IoNames, IsrNames, G!NothingSaved
    <2>4. ListInv
      BY <1>0, IdleIs DEF ListInv, Agree
    <2>5. LockInv /\ PowerInv
      BY <1>0, <1>1 DEF LockInv, PowerInv, Locking, Saving
    <2>6. QED
      BY <2>3, <2>4, <2>5 DEF Sound
  <1>4. ModeInv /\ EdgeInv
    BY <1>0, <1>2 DEF ModeInv, ModeOf, EdgeInv, EdgeOf
  <1>5. DriveInv /\ EnableInv /\ MaskInv /\ StartInv /\ SavedInv /\ QuietInv
    BY <1>0 DEF DriveInv, EnableInv, MaskInv, StartInv, SavedInv, QuietInv
  <1>6. UseInv
    BY <1>0, <1>1, <1>2, IdleIs DEF UseInv, Locking
  <1>7. QED
    BY <1>3, <1>4, <1>5, <1>6 DEF GpioInv, Values

LEMMA NextKept ==
  ASSUME GpioInv, G!Next
  PROVE  GpioInv'
  <1>1. CASE G!Power
    <2>1. CASE \E target \in {"D3", "F1"} : G!SaveContext(target) \/ G!Stopped(target)
      <3>1. PICK target \in Saving : G!SaveContext(target) \/ G!Stopped(target)
        BY <2>1 DEF Saving
      <3>2. QED
        BY <3>1, SaveContextKept, StoppedKept
    <2>2. QED
      BY <1>1, <2>1, PrepareKept, ReleaseKept, StartKept, RestoreBankKept, StartedKept, RemoveKept DEF G!Power
  <1>2. CASE G!Io
    <2>1. CASE \E pins \in SUBSET Pins :
                 \/ \E output \in BOOLEAN : G!ConnectIoPins(pins, output)
                 \/ G!DisconnectIoPins(pins) \/ G!DisconnectPreserving(pins)
                 \/ \E clear \in SUBSET Pins : G!WriteGpioPins(pins, clear)
      <3>1. PICK pins \in SUBSET Pins :
                 \/ \E output \in BOOLEAN : G!ConnectIoPins(pins, output)
                 \/ G!DisconnectIoPins(pins) \/ G!DisconnectPreserving(pins)
                 \/ \E clear \in SUBSET Pins : G!WriteGpioPins(pins, clear)
        BY <2>1
      <3>2. QED
        BY <3>1, ConnectKept, DisconnectKept, PreserveKept, WriteKept
    <2>2. CASE \E p \in Pins : G!DisableInterrupt(p) \/ \E k \in Configs[p] : G!EnableInterrupt(p, k)
      BY <2>2, DisableKept, EnableKept
    <2>3. CASE G!IoReturns
      BY <2>3, IoReturnsKept
    <2>4. QED
      BY <1>2, <2>1, <2>2, <2>3 DEF G!Io
  <1>3. CASE G!Isr
    <2>1. CASE \E p \in Pins : G!UnmaskInterrupt(p) \/ G!ReconfigureInterrupt(p)
      BY <2>1, UnmaskKept, ReconfigureKept
    <2>2. QED
      BY <1>3, <2>1, QueryKept, IsrReturnsKept DEF G!Isr
  <1>4. CASE \E s \in G!Sides : G!Access(s)
    BY <1>4, AccessKept
  <1>5. CASE \E p \in Pins : G!LineChanges(p)
    BY <1>5, LineKept
  <1>6. QED
    BY <1>1, <1>2, <1>3, <1>4, <1>5 DEF G!Next

\* It says nothing of what a stuttering step could change.
LEMMA StutterKept ==
  ASSUME GpioInv, gpioVars' = gpioVars
  PROVE  GpioInv'
  <1>1. /\ bankPower' = bankPower /\ type' = type /\ reg' = reg /\ latched' = latched /\ bankSaved' = bankSaved
        /\ lock' = lock /\ call' = call /\ use' = use /\ driven' = driven /\ masked' = masked /\ pending' = pending
    BY DEF gpioVars
  <1>2. Io' = Io /\ Isr' = Isr
    BY <1>1 DEF Io, Isr
  <1>3. ListInv'
    BY <1>1, ListsKept DEF GpioInv, Sound
  <1>4. Sound'
    BY <1>1, <1>2, <1>3 DEF GpioInv, Sound, BankTypes, LockInv, PowerInv
  <1>5. \A p : (ModeOf(p)' <=> ModeOf(p)) /\ (MaskOf(p)' <=> MaskOf(p)) /\ (EdgeOf(p)' <=> EdgeOf(p))
    <2>1. SUFFICES ASSUME NEW p
                   PROVE  (ModeOf(p)' <=> ModeOf(p)) /\ (MaskOf(p)' <=> MaskOf(p)) /\ (EdgeOf(p)' <=> EdgeOf(p))
      OBVIOUS
    <2>2. MaskedThen(p)' <=> MaskedThen(p)
      BY <1>1, <1>2 DEF MaskedThen
    <2>3. Holds(Isr', reg', "IntMask", p, MaskedThen(p)') <=> Holds(Isr, reg, "IntMask", p, MaskedThen(p))
      BY <1>1, <1>2, <2>2 DEF Holds, Gives
    <2>4. MaskOf(p)' <=> MaskOf(p)
      BY <1>1, <1>2, <2>3 DEF MaskOf, NotEnabled, Enabled, NotDisabled, Disabled, InUse, Enabling, Disabling
    <2>5. ModeOf(p)' <=> ModeOf(p)
      BY <1>1, <1>2 DEF ModeOf, Asked
    <2>6. EdgeOf(p)' <=> EdgeOf(p)
      BY <1>1, <1>2 DEF EdgeOf, Dirty, Enabling
    <2>7. QED
      BY <2>4, <2>5, <2>6
  <1>6. ModeInv' /\ MaskInv' /\ EdgeInv'
    BY <1>1, <1>5 DEF GpioInv, Values, ModeInv, MaskInv, EdgeInv
  <1>7. DriveInv' /\ EnableInv' /\ UseInv' /\ StartInv' /\ SavedInv' /\ QuietInv'
    BY <1>1, <1>2 DEF GpioInv, Values, DriveInv, EnableInv, UseInv, StartInv, SavedInv, QuietInv, QuietOf, FirstMask
  <1>8. QED
    BY <1>4, <1>6, <1>7 DEF GpioInv, Values

\* No callback works on the line.
LEMMA NotBusy ==
  ASSUME GpioInv, NEW p \in Pins \ G!Busy
  PROVE  /\ p \notin Io.pins /\ p \notin Isr.pins /\ ~Dirty(p)
         /\ bankPower # "starting" => \A r \in G!Registers : ~Hits(Io, r, p) /\ ~Hits(Isr, r, p)
  <1>1. p \notin Io.pins /\ p \notin Isr.pins
    BY SidesAre DEF G!Busy, Io, Isr
  <1>2. ~Dirty(p)
    BY <1>1 DEF Dirty, Enabling
  <1>3. ASSUME bankPower # "starting", NEW r \in G!Registers PROVE ~Hits(Io, r, p) /\ ~Hits(Isr, r, p)
    <2>1. Mine(Io) /\ Mine(Isr) /\ Io.name # "start" /\ Isr.name # "start"
      BY <1>3, SidesAre DEF GpioInv, Sound, ListInv, Listed, PowerInv, BankTypes, IsrNames, Io, Isr
    <2>2. r # "PortEOI"
      BY <1>3 DEF G!Registers
    <2>3. QED
      BY <1>1, <2>1, <2>2, NotMine
  <1>4. QED
    BY <1>1, <1>2, <1>3

LEMMA LevelsAsAsked ==
  ASSUME GpioInv
  PROVE  G!NoGlitch
  <1> SUFFICES ASSUME NEW p \in Pins \ G!Busy, use[p].as = "out", p \in reg["PortDDR"]
               PROVE  p \in reg["PortDR"] <=> p \in driven
    BY DEF G!NoGlitch, G!Driven
  <1>1. CASE bankPower \in {"D3", "starting"}
    BY <1>1 DEF GpioInv, Values, DriveInv
  <1>2. CASE bankPower \notin {"D3", "starting"}
    <2>1. Settled(Io, Isr, reg, "PortDR", p, p \in driven)
      BY <1>2 DEF GpioInv, Values, ModeInv, ModeOf, Asked
    <2>2. QED
      BY <1>2, <2>1, NotBusy, RegistersAre DEF Settled
  <1>3. QED
    BY <1>1, <1>2

LEMMA LinesAsAsked ==
  ASSUME GpioInv
  PROVE  G!ConfiguredAsAsked
  <1> SUFFICES ASSUME bankPower = "on", NEW p \in Pins \ G!Busy
               PROVE  CASE use[p].as = "none" -> p \in reg["IntMask"]
                        [] use[p].as = "in"   -> p \notin reg["PortDDR"] /\ p \in reg["IntMask"]
                        [] use[p].as = "out"  -> p \in reg["PortDDR"] /\ p \in reg["IntMask"]
                        [] OTHER -> /\ p \notin reg["PortDDR"]
                                    /\ p \in reg["IntType"] <=> use[p].edge
                                    /\ p \in reg["IntPolarity"] <=> use[p].high
                                    /\ p \in reg["IntMask"] <=> p \in masked
    BY DEF G!ConfiguredAsAsked
  <1>1. /\ ModeOf(p) /\ MaskOf(p) /\ use[p].as \in {"none", "in", "out", "irq"}
        /\ p \notin Io.pins /\ p \notin Isr.pins
        /\ \A r \in G!Registers : ~Hits(Io, r, p) /\ ~Hits(Isr, r, p)
    BY BankOn, NotBusy DEF Uses
  <1>2. /\ use[p].as = "in" => p \notin reg["PortDDR"]
        /\ use[p].as = "out" => p \in reg["PortDDR"]
        /\ use[p].as = "irq" => /\ p \notin reg["PortDDR"] /\ (p \in reg["IntType"] <=> use[p].edge)
                                /\ (p \in reg["IntPolarity"] <=> use[p].high)
    BY <1>1, QuietMode
  <1>3. use[p].as # "irq" => p \in reg["IntMask"]
    BY <1>1 DEF MaskOf
  <1>4. ASSUME use[p].as = "irq" PROVE p \in reg["IntMask"] <=> p \in masked
    <2>1. Holds(Isr, reg, "IntMask", p, MaskedThen(p))
      BY <1>1, <1>4 DEF MaskOf, NotEnabled, Enabled, NotDisabled, Disabled, InUse, Enabling, Disabling
    <2>2. MaskedThen(p) <=> p \in masked
      BY <1>1 DEF MaskedThen
    <2>3. QED
      BY <1>1, <2>1, <2>2, RegistersAre DEF Holds
  <1>5. QED
    BY <1>1, <1>2, <1>3, <1>4

LEMMA EdgesAsAsked ==
  ASSUME GpioInv
  PROVE  G!NoEdgeLost /\ G!NoSpuriousInterrupt
  <1>1. G!NoEdgeLost
    <2>1. SUFFICES ASSUME bankPower = "on", NEW p \in pending \ G!Busy, ~use[p].both PROVE p \in latched
      BY DEF G!NoEdgeLost
    <2>2. p \in Pins
      BY <2>1 DEF GpioInv, Values, UseInv
    <2>3. EdgeOf(p) /\ ~Dirty(p)
      BY <2>1, <2>2, BankOn, NotBusy
    <2>4. QED
      BY <2>1, <2>3 DEF EdgeOf
  <1>2. G!NoSpuriousInterrupt
    <2>0. ASSUME bankPower = "starting", NEW p \in G!IntStatus, use[p].as = "irq", use[p].edge
          PROVE  p \in pending
      <3>1. p \in reg["IntEn"] /\ p \notin reg["IntMask"] /\ (p \in reg["IntType"] => p \in latched)
        BY <2>0 DEF G!IntStatus
      <3>2. p \in Pins
        BY <3>1, RegistersAre DEF GpioInv, Sound, BankTypes
      <3>3. QuietOf(p) /\ EdgeOf(p) /\ Io.name = "start"
        BY <2>0, <3>2 DEF GpioInv, Values, QuietInv, EdgeInv, Sound, PowerInv
      <3>4. p \in reg["IntType"] /\ ~Dirty(p)
        BY <2>0, <3>1, <3>3 DEF QuietOf, Dirty, Enabling
      <3>5. QED
        BY <2>0, <3>1, <3>3, <3>4 DEF EdgeOf
    <2>1. SUFFICES ASSUME bankPower = "on", lock = "free", NEW p \in G!IntStatus
                   PROVE  use[p].as = "irq" /\ (use[p].edge => p \in pending)
      BY <2>0 DEF G!NoSpuriousInterrupt, G!IsIrq
    <2>2. /\ p \in reg["IntEn"] /\ p \notin reg["IntMask"]
          /\ p \in reg["IntType"] => p \in latched
      BY <2>1 DEF G!IntStatus
    <2>3. p \in Pins
      BY <2>1, <2>2, BankOn, RegistersAre
    <2>4. ModeOf(p) /\ MaskOf(p) /\ EdgeOf(p) /\ Isr.name = "none"
      BY <2>1, <2>3, BankOn DEF Sound, LockInv
    <2>5. use[p].as = "irq"
      BY <2>2, <2>4 DEF MaskOf
    <2>6. ~Dirty(p)
      BY <2>2, <2>4, <2>5 DEF MaskOf, NotEnabled, Enabled, NotDisabled, Disabled, InUse, Enabling, Disabling, Dirty
    <2>7. ASSUME use[p].edge PROVE p \in pending
      <3>1. Isr = G!Idle
        BY <2>1, <2>4, BankOn, SidesAre DEF Sound, ListInv, Isr
      <3>2. ~Hits(Io, "IntType", p) /\ ~Hits(Isr, "IntType", p)
        BY <2>1, <2>4, <2>5, <2>6, <3>1, IdleIs DEF EdgeOf
      <3>3. p \in reg["IntType"]
        BY <2>4, <2>5, <2>7, <3>2 DEF ModeOf, Asked, Settled
      <3>4. QED
        BY <2>1, <2>2, <2>4, <2>5, <2>6, <2>7, <3>3 DEF EdgeOf
    <2>8. QED
      BY <2>5, <2>7
  <1>3. QED
    BY <1>1, <1>2

\* The inductive invariant of the bank holds as long as there is one.
THEOREM BankAlways == MCSpec => [](part = "rk3xgpio" => GpioInv)
  <1> DEFINE Inv == part = "rk3xgpio" => GpioInv
  <1>1. MCInit => Inv
    BY InitKept DEF MCInit, I2cInit
  <1>2. Inv /\ [MCNext]_<<i2cVars, gpioVars>> => Inv'
    <2> SUFFICES ASSUME Inv, [MCNext]_<<i2cVars, gpioVars>>, part' = "rk3xgpio" PROVE GpioInv'
      OBVIOUS
    <2>1. part' = part
      BY DEF MCNext, I2cNext, i2cVars
    <2>2. CASE part = "rk3xgpio" /\ G!Next
      BY <2>2, NextKept
    <2>3. CASE gpioVars' = gpioVars
      BY <2>1, <2>3, StutterKept
    <2>4. QED
      BY <2>2, <2>3 DEF MCNext
  <1>3. QED
    BY <1>1, <1>2, PTL DEF MCSpec

\* Every line that no callback works on is set up as GpioClx asked, whenever the bank is on:
\* the read-modify-write cycles of both sides, and saving and restoring, disturb no other line.
THEOREM LinesAlwaysAsAsked == MCSpec => []ConfiguredAsAsked
  <1>1. (part = "rk3xgpio" => GpioInv) => ConfiguredAsAsked
    BY LinesAsAsked DEF ConfiguredAsAsked
  <1>2. QED
    BY <1>1, BankAlways, PTL

\* No pin drives a level that was not asked for, in the middle of a restore either: levels are
\* written before directions (RockchipGpioRestoreBankHardwareContext).
THEOREM NeverGlitches == MCSpec => []NoGlitch
  <1>1. (part = "rk3xgpio" => GpioInv) => NoGlitch
    BY LevelsAsAsked DEF NoGlitch
  <1>2. QED
    BY <1>1, BankAlways, PTL

\* An edge stays latched until it is served, and no interrupt is taken for an edge of before the
\* line was asked for.
THEOREM EdgesAlwaysServedOnce == MCSpec => []EdgesServedOnce
  <1>1. (part = "rk3xgpio" => GpioInv) => EdgesServedOnce
    BY EdgesAsAsked DEF EdgesServedOnce
  <1>2. QED
    BY <1>1, BankAlways, PTL

-----------------------------------------------------------------------------
(* The codec driver: what a boot writes.                                   *)

\* The transfers of BOOTCODEC.
Boot == C!PowerUp \o C!Converters \o C!PowerOn \o C!Format \o C!Levels
Ops  == [op : {"write", "read", "back"}, reg : C!Registers, val : SUBSET (0 .. 7)]

\* What a boot that goes well reads of the three registers that it writes back.
Kept(r) ==
  IF r = \h08 THEN C!Bits(\h00) \cap C!Bits(\h80)
  ELSE IF r = \h0C THEN C!Bits(\h4C) \cap C!Bits(\hE3) ELSE C!Bits(\h18) \cap C!Bits(\hC7)

\* What a transfer puts into its register.
Value(t) == IF t.op = "back" THEN Kept(t.reg) \cup t.val ELSE t.val

\* Of the first k transfers of a boot the j-th is the last to write its register.
LastWrite(j, k) == Boot[j].op # "read" /\ \A m \in j + 1 .. k : Boot[m].reg = Boot[j].reg => Boot[m].op = "read"

\* Registers c are as k transfers of a boot leave them, as far as they write them.
SetUp(c, k)     == \A j \in 1 .. k : LastWrite(j, k) => c[Boot[j].reg] = Value(Boot[j])
Remembers(s, k) == \A j \in 1 .. k : Boot[j].op = "read" => s[Boot[j].reg] = Kept(Boot[j].reg)

\* The transfers done, if no one has failed.
Done == 61 - Len(todo)

\* A boot in which nothing has failed.
BootInv ==
  power = "boot" /\ failed = 0 =>
    /\ todo \in Seq(Ops) /\ Len(todo) <= 61
    /\ \A i \in 1 .. Len(todo) : todo[i] = Boot[Done + i]
    /\ SetUp(codec, Done) /\ Remembers(saved, Done)

BootedInv ==
  /\ booted # C!NotBooted => SetUp(booted, 61)
  /\ power = "D0" /\ failed = 0 => SetUp(codec, 61) /\ SetUp(booted, 61)

\* The objects that are there are those the context points to, or none.
ObjectInv ==
  /\ pointers \subseteq C!NewObjects(3)
  /\ power \in {"prepared", "boot", "D0", "exit"} => live = pointers
  /\ power \in {"released", "unprepared"} => live = {}
  /\ ~prepareFailed => ~deletedTwice /\ power # "unprepared"

CodecInv ==
  /\ DOMAIN codec = C!Registers /\ DOMAIN saved = C!Registers /\ failed \in Nat
  /\ BootInv /\ BootedInv /\ ObjectInv

-----------------------------------------------------------------------------
\* There are 61.
LEMMA BootIs == Boot \in Seq(Ops) /\ Len(Boot) = 61
  <1>1. Len(Boot) = 61
    BY DEF C!PowerUp, C!Converters, C!PowerOn, C!Format, C!Levels, C!Writes, Boot
  <1>2. Boot \in Seq(Ops)
    <2>1. C!PowerUp \in Seq(Ops)
      BY DEF C!PowerUp, C!Writes, C!Write, C!Registers, C!Bits, Ops
    <2>2. C!Converters \in Seq(Ops)
      BY DEF C!Converters, C!Writes, C!Write, C!Registers, C!Bits, Ops
    <2>3. C!PowerOn \in Seq(Ops)
      BY DEF C!PowerOn, C!Writes, C!Write, C!Registers, C!Bits, Ops
    <2>4. C!Format \in Seq(Ops)
      BY DEF C!Format, C!Writes, C!Write, C!Read, C!WriteBack, C!Registers, C!Bits, Ops
    <2>5. C!Levels \in Seq(Ops)
      BY DEF C!Levels, C!Writes, C!Write, C!Registers, C!Bits, Ops
    <2>6. QED
      BY <2>1, <2>2, <2>3, <2>4, <2>5 DEF Boot
  <1>3. QED
    BY <1>1, <1>2

\* Three registers are read, and only then written back.
LEMMA BootReads ==
  /\ Boot[43].op = "read" /\ Boot[43].reg = 8 /\ Boot[43].val = C!Bits(\h80)
  /\ Boot[44].op = "read" /\ Boot[44].reg = 12 /\ Boot[44].val = C!Bits(\hE3)
  /\ Boot[45].op = "read" /\ Boot[45].reg = 23 /\ Boot[45].val = C!Bits(\hC7)
  /\ Boot[46].op = "back" /\ Boot[46].reg = 23
  /\ Boot[47].op = "back" /\ Boot[47].reg = 12
  /\ Boot[48].op = "back" /\ Boot[48].reg = 8
  /\ \A i \in 1 .. 61 \ 43 .. 48 : Boot[i].op = "write"
  <1>1. \A i \in 1 .. 61 \ 43 .. 48 : Boot[i].op = "write"
    BY DEF C!PowerUp, C!Converters, C!PowerOn, C!Format, C!Levels, C!Writes, C!Write, C!Read, C!WriteBack, Boot
  <1>2. /\ Boot[43] = C!Read(\h08, \h80) /\ Boot[44] = C!Read(\h0C, \hE3) /\ Boot[45] = C!Read(\h17, \hC7)
        /\ Boot[46] = C!WriteBack(\h17, \h18) /\ Boot[47] = C!WriteBack(\h0C, \h0C)
        /\ Boot[48] = C!WriteBack(\h08, \h00)
    BY DEF C!PowerUp, C!Converters, C!PowerOn, C!Format, C!Levels, C!Writes, Boot
  <1>3. QED
    BY <1>1, <1>2 DEF C!Read, C!WriteBack

\* What was written to them before.
LEMMA BootWrites ==
  /\ Boot[8].op = "write" /\ Boot[8].reg = 8 /\ Boot[8].val = C!Bits(\h00) /\ \A m \in 9 .. 42 : Boot[m].reg # 8
  /\ Boot[15].op = "write" /\ Boot[15].reg = 12 /\ Boot[15].val = C!Bits(\h4C) /\ \A m \in 16 .. 43 : Boot[m].reg # 12
  /\ Boot[24].op = "write" /\ Boot[24].reg = 23 /\ Boot[24].val = C!Bits(\h18) /\ \A m \in 25 .. 44 : Boot[m].reg # 23
  <1>1. Boot[8] = C!Write(\h08, \h00) /\ Boot[15] = C!Write(\h0C, \h4C) /\ Boot[24] = C!Write(\h17, \h18)
    BY DEF C!PowerUp, C!Converters, C!PowerOn, C!Format, C!Levels, C!Writes, Boot
  <1>2. \A m \in 9 .. 42 : Boot[m].reg # 8
    BY DEF C!PowerUp, C!Converters, C!PowerOn, C!Format, C!Levels, C!Writes, C!Write, C!Read, C!WriteBack, Boot
  <1>3. \A m \in 16 .. 43 : Boot[m].reg # 12
    BY DEF C!PowerUp, C!Converters, C!PowerOn, C!Format, C!Levels, C!Writes, C!Write, C!Read, C!WriteBack, Boot
  <1>4. \A m \in 25 .. 44 : Boot[m].reg # 23
    BY DEF C!PowerUp, C!Converters, C!PowerOn, C!Format, C!Levels, C!Writes, C!Write, C!Read, C!WriteBack, Boot
  <1>5. QED
    BY <1>1, <1>2, <1>3, <1>4 DEF C!Write

\* Only the first transfer resets the codec.
LEMMA ResetOnce == \A i \in 2 .. 61 : Boot[i] # C!Write(\h00, \h80)
  <1>1. 7 \in C!Bits(\h80)
    <2>1. (128 \div 2^7) % 2 = 1
      OBVIOUS
    <2>2. QED
      BY <2>1 DEF C!Bits
  <1>2. 7 \notin C!Bits(\h36) /\ 7 \notin C!Bits(\h00)
    <2>1. (54 \div 2^7) % 2 = 0 /\ (0 \div 2^7) % 2 = 0
      OBVIOUS
    <2>2. QED
      BY <2>1 DEF C!Bits
  <1>3. Boot[2] = C!Write(\h00, \h00) /\ Boot[7] = C!Write(\h00, \h36)
    BY DEF C!PowerUp, C!Converters, C!PowerOn, C!Format, C!Levels, C!Writes, Boot
  <1>4. \A i \in 3 .. 61 \ {7} : Boot[i].reg # 0
    BY DEF C!PowerUp, C!Converters, C!PowerOn, C!Format, C!Levels, C!Writes, C!Write, C!Read, C!WriteBack, Boot
  <1>5. \A v : C!Write(\h00, v).reg = 0 /\ C!Write(\h00, v).val = C!Bits(v)
    BY DEF C!Write
  <1>6. Boot[2].val # C!Bits(\h80) /\ Boot[7].val # C!Bits(\h80)
    BY <1>1, <1>2, <1>3, <1>5
  <1>7. \A i \in 2 .. 61 : i \in 3 .. 61 \ {7} \/ i = 2 \/ i = 7
    OBVIOUS
  <1>8. QED
    BY <1>4, <1>5, <1>6, <1>7, Zenon

\* Every register of which BootIsReproducible speaks is written.
LEMMA TouchedWritten == \A r \in C!Touched : \E j \in 1 .. 61 : Boot[j].op # "read" /\ Boot[j].reg = r
  <1>1. /\ DOMAIN C!ExitWrites = 1 .. 9 /\ \A i \in 1 .. 9 : C!ExitWrites[i].reg \in {25, 48, 49, 3, 4, 2, 0, 1, 43}
    BY DEF C!ExitWrites, C!Writes, C!Write
  <1>2. DOMAIN C!Levels = 1 .. 11
    BY DEF C!Levels, C!Writes
  <1>3. \A r \in C!Touched : r \in {25, 48, 49, 3, 4, 2, 0, 1, 43, 8, 12, 23} \/ \E i \in 1 .. 11 : C!Levels[i].reg = r
    BY <1>1, <1>2 DEF C!Touched
  <1>4. \A i \in 1 .. 11 : C!Levels[i] = Boot[i + 50]
    BY DEF C!PowerUp, C!Converters, C!PowerOn, C!Format, C!Levels, C!Writes, Boot
  <1>5. /\ Boot[1].reg = 0 /\ Boot[3].reg = 1 /\ Boot[4].reg = 2 /\ Boot[6].reg = 43 /\ Boot[9].reg = 4
        /\ Boot[11].reg = 25 /\ Boot[33].reg = 48 /\ Boot[34].reg = 49 /\ Boot[35].reg = 3
    BY DEF C!PowerUp, C!Converters, C!PowerOn, C!Format, C!Levels, C!Writes, C!Write, C!Read, C!WriteBack, Boot
  <1>6. \A j \in 1 .. 61 \ 43 .. 48 : Boot[j].op # "read"
    BY BootReads
  <1>7. ASSUME NEW i \in 1 .. 11 PROVE i + 50 \in 1 .. 61 \ 43 .. 48
    OBVIOUS
  <1>8. QED
    BY <1>3, <1>4, <1>5, <1>6, <1>7, BootWrites

\* Their registers are registers of the codec.
LEMMA BootRegisters == \A i \in 1 .. 61 : Boot[i].reg \in C!Registers
  <1>1. \A i \in 1 .. 61 : Boot[i] \in Ops
    BY BootIs, ElementOfSeq
  <1>2. QED
    BY <1>1 DEF Ops

-----------------------------------------------------------------------------
(* One transfer more.                                                      *)

\* What is read is what this boot has written.
LEMMA ReadStep ==
  ASSUME NEW k \in 0 .. 60, NEW c, NEW s, DOMAIN s = C!Registers, SetUp(c, k), Remembers(s, k),
         Boot[k + 1].op = "read"
  PROVE  /\ SetUp(c, k + 1)
         /\ Remembers([s EXCEPT ![Boot[k + 1].reg] = c[Boot[k + 1].reg] \cap Boot[k + 1].val], k + 1)
  <1> DEFINE t == Boot[k + 1]
             x == [s EXCEPT ![t.reg] = c[t.reg] \cap t.val]
  <1>1. k + 1 \in 43 .. 45
    BY BootReads
  <1>2. c[t.reg] \cap t.val = Kept(t.reg)
    <2>1. CASE k + 1 = 43
      <3>1. LastWrite(8, k) /\ 8 \in 1 .. k
        <4>1. k = 42
          BY <2>1
        <4>2. LastWrite(8, 42)
          BY BootWrites DEF LastWrite
        <4>3. QED
          BY <4>1, <4>2
      <3>2. c[8] = C!Bits(\h00)
        <4>1. c[Boot[8].reg] = Value(Boot[8])
          BY <3>1 DEF SetUp
        <4>2. Boot[8].op # "back" /\ Boot[8].reg = 8 /\ Boot[8].val = C!Bits(\h00)
          BY BootWrites
        <4>3. Value(Boot[8]) = C!Bits(\h00)
          BY <4>2 DEF Value
        <4>4. QED
          BY <4>1, <4>2, <4>3
      <3>3. QED
        BY <2>1, <3>2, BootReads DEF Kept
    <2>2. CASE k + 1 = 44
      <3>1. LastWrite(15, k) /\ 15 \in 1 .. k
        <4>1. k = 43
          BY <2>2
        <4>2. LastWrite(15, 43)
          BY BootWrites DEF LastWrite
        <4>3. QED
          BY <4>1, <4>2
      <3>2. c[12] = C!Bits(\h4C)
        <4>1. c[Boot[15].reg] = Value(Boot[15])
          BY <3>1 DEF SetUp
        <4>2. Boot[15].op # "back" /\ Boot[15].reg = 12 /\ Boot[15].val = C!Bits(\h4C)
          BY BootWrites
        <4>3. Value(Boot[15]) = C!Bits(\h4C)
          BY <4>2 DEF Value
        <4>4. QED
          BY <4>1, <4>2, <4>3
      <3>3. QED
        BY <2>2, <3>2, BootReads DEF Kept
    <2>3. CASE k + 1 = 45
      <3>1. LastWrite(24, k) /\ 24 \in 1 .. k
        <4>1. k = 44
          BY <2>3
        <4>2. LastWrite(24, 44)
          BY BootWrites DEF LastWrite
        <4>3. QED
          BY <4>1, <4>2
      <3>2. c[23] = C!Bits(\h18)
        <4>1. c[Boot[24].reg] = Value(Boot[24])
          BY <3>1 DEF SetUp
        <4>2. Boot[24].op # "back" /\ Boot[24].reg = 23 /\ Boot[24].val = C!Bits(\h18)
          BY BootWrites
        <4>3. Value(Boot[24]) = C!Bits(\h18)
          BY <4>2 DEF Value
        <4>4. QED
          BY <4>1, <4>2, <4>3
      <3>3. QED
        BY <2>3, <3>2, BootReads DEF Kept
    <2>4. QED
      BY <1>1, <2>1, <2>2, <2>3
  <1>3. \A j \in 1 .. k + 1 : j \in 1 .. k \/ j = k + 1
    OBVIOUS
  <1>4. t.reg \in C!Registers
    BY BootRegisters
  <1>5. x[t.reg] = Kept(t.reg) /\ \A r \in C!Registers : r # t.reg => x[r] = s[r]
    BY <1>2, <1>4
  <1>6. Remembers(x, k + 1)
    <2> SUFFICES ASSUME NEW j \in 1 .. k + 1, Boot[j].op = "read" PROVE x[Boot[j].reg] = Kept(Boot[j].reg)
      BY DEF Remembers
    <2>1. CASE Boot[j].reg = t.reg
      BY <2>1, <1>5
    <2>2. CASE Boot[j].reg # t.reg
      <3>1. j \in 1 .. k /\ Boot[j].reg \in C!Registers
        <4>1. j \in 1 .. k /\ j \in 1 .. 61
          BY <2>2, <1>3
        <4>2. QED
          BY <4>1, BootRegisters
      <3> HIDE DEF x
      <3>2. QED
        BY <2>2, <3>1, <1>5 DEF Remembers
    <2>3. QED
      BY <2>1, <2>2
  <1>7. SetUp(c, k + 1)
    <2> SUFFICES ASSUME NEW j \in 1 .. k + 1, LastWrite(j, k + 1) PROVE c[Boot[j].reg] = Value(Boot[j])
      BY DEF SetUp
    <2>1. j \in 1 .. k
      BY <1>3 DEF LastWrite
    <2>2. LastWrite(j, k)
      <3>1. \A m \in j + 1 .. k : m \in j + 1 .. k + 1
        OBVIOUS
      <3>2. QED
        BY <3>1 DEF LastWrite
    <2>3. QED
      BY <2>1, <2>2 DEF SetUp
  <1>8. QED
    BY <1>6, <1>7

\* A write sets its register, and the first may reset the others.
LEMMA WriteStep ==
  ASSUME NEW k \in 0 .. 60, NEW c, NEW s, NEW d, SetUp(c, k), Remembers(s, k), Boot[k + 1].op # "read",
         d[Boot[k + 1].reg] = IF Boot[k + 1].op = "back" THEN s[Boot[k + 1].reg] \cup Boot[k + 1].val
                                                         ELSE Boot[k + 1].val,
         k = 0 \/ \A r \in C!Registers : r # Boot[k + 1].reg => d[r] = c[r]
  PROVE  SetUp(d, k + 1) /\ Remembers(s, k + 1)
  <1> DEFINE t == Boot[k + 1]
  <1>1. d[t.reg] = Value(t)
    <2>1. CASE t.op = "back"
      <3>1. k + 1 \in 46 .. 48
        BY <2>1, BootReads
      <3>2. PICK j \in 43 .. 45 : Boot[j].op = "read" /\ Boot[j].reg = t.reg
        <4>1. CASE k + 1 = 46
          BY <4>1, BootReads
        <4>2. CASE k + 1 = 47
          BY <4>2, BootReads
        <4>3. CASE k + 1 = 48
          BY <4>3, BootReads
        <4>4. QED
          BY <3>1, <4>1, <4>2, <4>3
      <3>3. j \in 1 .. k
        BY <3>1
      <3>4. s[t.reg] = Kept(t.reg)
        BY <3>2, <3>3 DEF Remembers
      <3>5. QED
        BY <2>1, <3>4 DEF Value
    <2>2. CASE t.op # "back"
      BY <2>2 DEF Value
    <2>3. QED
      BY <2>1, <2>2
  <1>2. \A j \in 1 .. k + 1 : j = k + 1 \/ (j \in 1 .. k /\ k # 0 /\ k + 1 \in j + 1 .. k + 1)
    OBVIOUS
  <1>3. Remembers(s, k + 1)
    BY <1>2 DEF Remembers
  <1>4. SetUp(d, k + 1)
    <2> SUFFICES ASSUME NEW j \in 1 .. k + 1, LastWrite(j, k + 1) PROVE d[Boot[j].reg] = Value(Boot[j])
      BY DEF SetUp
    <2>1. CASE j = k + 1
      BY <2>1, <1>1
    <2>2. CASE j # k + 1
      <3>1. j \in 1 .. k /\ k # 0 /\ Boot[j].reg # t.reg
        BY <2>2, <1>2 DEF LastWrite
      <3>2. LastWrite(j, k)
        <4>1. \A m \in j + 1 .. k : m \in j + 1 .. k + 1
          OBVIOUS
        <4>2. QED
          BY <4>1 DEF LastWrite
      <3>3. c[Boot[j].reg] = Value(Boot[j])
        BY <3>1, <3>2 DEF SetUp
      <3>4. Boot[j].reg \in C!Registers
        <4>1. j \in 1 .. 61
          BY <3>1
        <4>2. QED
          BY <4>1, BootRegisters
      <3>5. QED
        BY <3>1, <3>3, <3>4
    <2>3. QED
      BY <2>1, <2>2
  <1>5. QED
    BY <1>3, <1>4

\* Every register of a complete boot has a last write.
LEMMA WrittenLast ==
  ASSUME NEW r \in C!Touched
  PROVE  \E j \in 1 .. 61 : LastWrite(j, 61) /\ Boot[j].reg = r
  <1> DEFINE E == {i \in Nat : i < 61 /\ Boot[61 - i].op # "read" /\ Boot[61 - i].reg = r}
  <1>1. PICK a \in 1 .. 61 : Boot[a].op # "read" /\ Boot[a].reg = r
    BY TouchedWritten
  <1>2. 61 - a \in E
    <2>1. 61 - a \in Nat /\ 61 - a < 61 /\ 61 - (61 - a) = a
      OBVIOUS
    <2>2. QED
      BY <1>1, <2>1
  <1>3. PICK i \in E : \A y \in E : i <= y
    <2>1. E \subseteq Nat /\ E # {}
      BY <1>2
    <2> HIDE DEF E
    <2>2. QED
      BY <2>1, LeastOf
  <1>4. 61 - i \in 1 .. 61 /\ Boot[61 - i].op # "read" /\ Boot[61 - i].reg = r
    OBVIOUS
  <1>5. ASSUME NEW m \in 61 - i + 1 .. 61, Boot[m].reg = r PROVE Boot[m].op = "read"
    <2>1. 61 - m \in Nat /\ 61 - m < 61 /\ 61 - (61 - m) = m /\ ~ (i <= 61 - m)
      OBVIOUS
    <2>2. 61 - m \notin E
      BY <1>3, <2>1
    <2>3. QED
      BY <1>5, <2>1, <2>2
  <1>6. LastWrite(61 - i, 61)
    BY <1>4, <1>5 DEF LastWrite
  <1>7. QED
    BY <1>4, <1>6

-----------------------------------------------------------------------------
(* The steps.                                                              *)

\* The objects of a complete initialisation, and of one that ends early.
LEMMA ObjectsAre == \A n \in 0 .. 3 : C!NewObjects(n) \subseteq C!NewObjects(3)
  BY DEF C!NewObjects

LEMMA CodecBegins ==
  ASSUME C!Init
  PROVE  CodecInv
  <1>1. DOMAIN codec = C!Registers /\ DOMAIN saved = C!Registers
    BY DEF C!Init, C!NotBooted
  <1>2. BootInv /\ BootedInv /\ ObjectInv
    BY DEF C!Init, BootInv, BootedInv, ObjectInv
  <1>3. QED
    BY <1>1, <1>2 DEF CodecInv, C!Init

LEMMA CodecPrepares ==
  ASSUME CodecInv, C!PrepareHardware \/ C!ReleaseHardware
  PROVE  CodecInv'
  <1>1. UNCHANGED <<todo, saved, failed, codec, booted>> /\ power' \notin {"boot", "D0"}
    BY DEF C!PrepareHardware, C!ReleaseHardware, C!NoConnection, C!InitializeFails, C!Initialized,
           C!PrepareFails
  <1>2. BootInv' /\ BootedInv'
    BY <1>1 DEF CodecInv, BootInv, BootedInv, SetUp
  <1>3. CASE C!PrepareHardware
    <2>1. power = "released" /\ live = {} /\ pointers \subseteq C!NewObjects(3)
      BY <1>3 DEF CodecInv, ObjectInv, C!PrepareHardware
    <2>2. CASE C!NoConnection
      BY <1>2, <1>1, <2>1, <2>2 DEF CodecInv, ObjectInv, C!NoConnection, C!PrepareFails
    <2>3. CASE C!InitializeFails
      <3>1. PICK n \in 0 .. 2 : /\ pointers' = pointers \cup C!NewObjects(n)
                               /\ live' = (live \cup C!NewObjects(n)) \ pointers'
        BY <2>3 DEF C!InitializeFails, C!Objects, C!Deinitialize
      <3>2. pointers' \subseteq C!NewObjects(3) /\ live' = {}
        BY <2>1, <3>1, ObjectsAre
      <3>3. power' = "unprepared" /\ prepareFailed' = TRUE
        BY <2>3 DEF C!InitializeFails, C!PrepareFails
      <3>4. QED
        BY <1>1, <1>2, <3>2, <3>3 DEF CodecInv, ObjectInv
    <2>4. CASE C!Initialized
      BY <1>1, <1>2, <2>1, <2>4 DEF CodecInv, ObjectInv, C!Initialized, C!Objects
    <2>5. QED
      BY <1>3, <2>2, <2>3, <2>4 DEF C!PrepareHardware
  <1>4. CASE C!ReleaseHardware
    <2>1. /\ power \in {"prepared", "unprepared"} /\ power' = "released" /\ UNCHANGED <<pointers, prepareFailed>>
          /\ deletedTwice' = (deletedTwice \/ ~(pointers \subseteq live)) /\ live' = live \ pointers
      BY <1>4 DEF C!ReleaseHardware, C!Deinitialize
    <2>2. ObjectInv'
      BY <2>1 DEF CodecInv, ObjectInv
    <2>3. QED
      BY <1>1, <1>2, <2>2 DEF CodecInv
  <1>5. QED
    BY <1>3, <1>4

LEMMA CodecEnters ==
  ASSUME CodecInv, C!D0Entry \/ C!D0Exit \/ C!Exited
  PROVE  CodecInv'
  <1>1. UNCHANGED <<saved, codec, pointers, live, prepareFailed, deletedTwice, booted>>
    BY DEF C!D0Entry, C!D0Exit, C!Exited
  <1>2. power' \in {"prepared", "boot", "exit"} /\ power \in {"prepared", "D0", "exit"} /\ failed' \in Nat
    BY DEF C!D0Entry, C!D0Exit, C!Exited, CodecInv
  <1>3. ObjectInv'
    BY <1>1, <1>2 DEF CodecInv, ObjectInv
  <1>4. BootedInv'
    BY <1>1, <1>2 DEF CodecInv, BootedInv, SetUp
  <1>5. BootInv'
    <2> SUFFICES ASSUME power' = "boot" PROVE BootInv'
      BY DEF BootInv
    <2>1. todo' = Boot
      BY DEF C!D0Entry, C!D0Exit, C!Exited, Boot
    <2>2. Done' = 0
      BY <2>1, BootIs DEF Done
    <2>3. SetUp(codec, 0) /\ Remembers(saved, 0)
      BY DEF SetUp, Remembers
    <2>4. SetUp(codec, Done)' /\ Remembers(saved, Done)'
      BY <1>1, <2>2, <2>3 DEF SetUp, Remembers
    <2>5. QED
      BY <2>1, <2>2, <2>4, BootIs DEF BootInv
  <1>6. QED
    BY <1>1, <1>2, <1>3, <1>4, <1>5 DEF CodecInv

LEMMA CodecTransfers ==
  ASSUME CodecInv, C!TransferDone
  PROVE  CodecInv'
  <1> DEFINE t == Head(todo)
             v == IF t.op = "back" THEN saved[t.reg] \cup t.val ELSE t.val
  <1>1. /\ power \in {"boot", "exit"} /\ todo # <<>> /\ todo' = Tail(todo)
        /\ UNCHANGED <<power, failed, pointers, live, prepareFailed, deletedTwice, booted>>
    BY DEF C!TransferDone
  <1>2. IF t.op = "read"
        THEN saved' = [saved EXCEPT ![t.reg] = codec[t.reg] \cap t.val] /\ codec' = codec
        ELSE /\ \/ codec' = [codec EXCEPT ![t.reg] = v]
                \/ t = C!Write(\h00, \h80) /\ codec' = [C!NotBooted EXCEPT ![t.reg] = v]
             /\ saved' = saved
    BY DEF C!TransferDone
  <1>3. DOMAIN codec' = C!Registers /\ DOMAIN saved' = C!Registers
    <2>1. DOMAIN C!NotBooted = C!Registers
      BY DEF C!NotBooted
    <2> HIDE DEF t, v
    <2>2. QED
      BY <1>2, <2>1 DEF CodecInv
  <1>4. ObjectInv'
    BY <1>1 DEF CodecInv, ObjectInv
  <1>5. BootedInv'
    BY <1>1 DEF CodecInv, BootedInv, SetUp
  <1>6. BootInv'
    <2> SUFFICES ASSUME power' = "boot", failed' = 0 PROVE BootInv'
      BY DEF BootInv
    <2> DEFINE k == Done
    <2>1. /\ todo \in Seq(Ops) /\ Len(todo) <= 61 /\ \A i \in 1 .. Len(todo) : todo[i] = Boot[k + i]
          /\ SetUp(codec, k) /\ Remembers(saved, k)
      BY <1>1 DEF CodecInv, BootInv
    <2>2. /\ Tail(todo) \in Seq(Ops) /\ Len(Tail(todo)) = Len(todo) - 1 /\ Len(todo) > 0 /\ Len(todo) \in Nat
          /\ t = todo[1] /\ \A i \in 1 .. Len(Tail(todo)) : Tail(todo)[i] = todo[i + 1]
      BY <1>1, <2>1, TakeHead
    <2>3. k \in 0 .. 60 /\ Done' = k + 1
      <3>1. k = 61 - Len(todo) /\ Done' = 61 - Len(Tail(todo))
        BY <1>1 DEF Done
      <3>2. Done' = k + 1
        BY <2>2, <3>1
      <3>3. k \in 0 .. 60
        <4>1. \A n \in Nat : n > 0 /\ n <= 61 => 61 - n \in 0 .. 60
          OBVIOUS
        <4>2. 61 - Len(todo) \in 0 .. 60
          BY <2>1, <2>2, <4>1
        <4> HIDE DEF k
        <4>3. QED
          BY <3>1, <4>2
      <3>4. QED
        BY <3>2, <3>3
    <2> HIDE DEF k
    <2>4. t = Boot[k + 1]
      BY <2>1, <2>2
    <2>5. \A i \in 1 .. Len(todo') : todo'[i] = Boot[Done' + i]
      <3> TAKE i \in 1 .. Len(todo')
      <3>1. i \in 1 .. Len(Tail(todo)) /\ i + 1 \in 1 .. Len(todo) /\ k + 1 + i = k + (i + 1)
        BY <1>1, <2>2, <2>3
      <3>2. todo'[i] = Boot[k + (i + 1)]
        BY <1>1, <2>1, <2>2, <3>1
      <3>3. QED
        BY <2>3, <3>1, <3>2
    <2>6. SetUp(codec', k + 1) /\ Remembers(saved', k + 1)
      <3>1. CASE t.op = "read"
        <4>1. /\ SetUp(codec, k + 1)
              /\ Remembers([saved EXCEPT ![Boot[k + 1].reg] = codec[Boot[k + 1].reg] \cap Boot[k + 1].val], k + 1)
          BY <2>1, <2>3, <2>4, <3>1, ReadStep DEF CodecInv
        <4> HIDE DEF t
        <4>2. QED
          BY <1>2, <2>4, <3>1, <4>1
      <3>2. CASE t.op # "read"
        <4>1. t.reg \in C!Registers
          BY <2>3, <2>4, BootRegisters
        <4>2. t = C!Write(\h00, \h80) => k = 0
          <5>1. k # 0 => k + 1 \in 2 .. 61
            BY <2>3
          <5>2. QED
            BY <5>1, <2>4, ResetOnce
        <4> HIDE DEF t
        <4>3. codec'[t.reg] = v /\ saved' = saved
          BY <1>2, <3>2, <4>1 DEF CodecInv, C!NotBooted
        <4>4. k = 0 \/ \A r \in C!Registers : r # t.reg => codec'[r] = codec[r]
          BY <1>2, <3>2, <4>1, <4>2 DEF CodecInv
        <4>5. SetUp(codec', k + 1) /\ Remembers(saved, k + 1)
          BY <2>1, <2>3, <2>4, <3>2, <4>3, <4>4, WriteStep
        <4>6. QED
          BY <4>3, <4>5
      <3>3. QED
        BY <3>1, <3>2
    <2>7. SetUp(codec, Done)' /\ Remembers(saved, Done)'
      BY <2>3, <2>6 DEF SetUp, Remembers, LastWrite
    <2>8. todo' \in Seq(Ops) /\ Len(todo') <= 61
      BY <1>1, <2>1, <2>2
    <2>9. QED
      BY <2>5, <2>7, <2>8 DEF BootInv
  <1>7. QED
    BY <1>1, <1>3, <1>4, <1>5, <1>6 DEF CodecInv

LEMMA CodecFails ==
  ASSUME CodecInv, C!TransferFails
  PROVE  CodecInv'
  <1>1. /\ failed' = failed + 1 /\ failed \in Nat
        /\ UNCHANGED <<power, saved, codec, pointers, live, prepareFailed, deletedTwice, booted>>
    BY DEF C!TransferFails, CodecInv
  <1>2. failed' \in Nat /\ failed' # 0
    BY <1>1
  <1>3. BootInv' /\ BootedInv' /\ ObjectInv'
    BY <1>1, <1>2 DEF CodecInv, BootInv, BootedInv, ObjectInv, SetUp
  <1>4. QED
    BY <1>1, <1>2, <1>3 DEF CodecInv

LEMMA CodecBoots ==
  ASSUME CodecInv, C!Booted
  PROVE  CodecInv'
  <1>1. /\ power = "boot" /\ todo = <<>> /\ power' = "D0"
        /\ booted' = IF booted = C!NotBooted /\ failed = 0 THEN codec ELSE booted
        /\ UNCHANGED <<todo, saved, failed, codec, pointers, live, prepareFailed, deletedTwice>>
    BY DEF C!Booted
  <1>2. BootInv' /\ ObjectInv'
    BY <1>1 DEF CodecInv, BootInv, ObjectInv
  <1>3. failed = 0 => SetUp(codec, 61)
    <2>1. Done = 61
      BY <1>1, EmptyOnce DEF Done
    <2>2. QED
      BY <1>1, <2>1 DEF CodecInv, BootInv
  <1>4. BootedInv'
    BY <1>1, <1>3 DEF CodecInv, BootedInv, SetUp
  <1>5. QED
    BY <1>1, <1>2, <1>4 DEF CodecInv

LEMMA CodecStutters ==
  ASSUME CodecInv, codecVars' = codecVars
  PROVE  CodecInv'
  <1>1. BootInv'
    BY DEF codecVars, CodecInv, BootInv, Done
  <1>2. BootedInv'
    BY DEF codecVars, CodecInv, BootedInv
  <1>3. ObjectInv'
    BY DEF codecVars, CodecInv, ObjectInv
  <1>4. QED
    BY <1>1, <1>2, <1>3 DEF codecVars, CodecInv

LEMMA CodecNext ==
  ASSUME CodecInv, C!Next
  PROVE  CodecInv'
  BY CodecPrepares, CodecEnters, CodecTransfers, CodecFails, CodecBoots DEF C!Next

LEMMA ComesBack ==
  ASSUME CodecInv
  PROVE  C!BootIsReproducible /\ C!ObjectsInTime
  <1>1. C!BootIsReproducible
    <2> SUFFICES ASSUME power = "D0", failed = 0, NEW r \in C!Touched PROVE codec[r] = booted[r]
      BY DEF C!BootIsReproducible
    <2>1. PICK j \in 1 .. 61 : LastWrite(j, 61) /\ Boot[j].reg = r
      BY WrittenLast
    <2>2. codec[r] = Value(Boot[j]) /\ booted[r] = Value(Boot[j])
      BY <2>1 DEF CodecInv, BootedInv, SetUp
    <2>3. QED
      BY <2>2
  <1>2. C!ObjectsInTime
    BY DEF CodecInv, ObjectInv, C!ObjectsInTime
  <1>3. QED
    BY <1>1, <1>2

\* Every boot whose transfers succeed leaves the same registers in the codec, whatever earlier
\* failures and the reset have left there; no transfer uses an object of SPB_CONTEXT that is
\* gone and no release leaves one behind, whichever preparations have failed; and as long as
\* none has, SpbTargetDeinitialize deletes nothing twice.
THEOREM CodecAlwaysComesBack == MCSpec => []CodecComesBack
  <1> DEFINE Inv == part = "es8323" => CodecInv
  <1>1. MCInit => Inv
    BY CodecBegins DEF MCInit, I2cInit
  <1>2. Inv /\ [MCNext]_<<i2cVars, gpioVars>> => Inv'
    <2> SUFFICES ASSUME Inv, [MCNext]_<<i2cVars, gpioVars>>, part' = "es8323" PROVE CodecInv'
      OBVIOUS
    <2>1. part' = part
      BY DEF MCNext, I2cNext, i2cVars
    <2>2. CASE part = "es8323" /\ C!Next
      BY <2>2, CodecNext
    <2>3. CASE codecVars' = codecVars
      BY <2>1, <2>3, CodecStutters
    <2>4. QED
      BY <2>1, <2>2, <2>3 DEF MCNext, I2cNext, i2cVars
  <1>3. Inv => CodecComesBack
    BY ComesBack DEF CodecComesBack, BootIsReproducible, ObjectsInTime
  <1>4. QED
    BY <1>1, <1>2, <1>3, PTL DEF MCSpec
=============================================================================
