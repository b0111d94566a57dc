---------------------------- MODULE VmStackProofs ---------------------------
(***************************************************************************)
(* For a vm stack and frames of any sizes: no frame of the main script is  *)
(* overwritten, when event_loop is called by a call that was on the stack  *)
(* at the first co::create.                                                *)
(***************************************************************************)
EXTENDS VmStack, SequenceTheorems, TLAPS

FrameRecord == [at : Place, size : Nat \ {0}]

(* Where a frame ends: the next one begins there.                          *)
End(f) == f.at + f.size

(* The frames s lie one after the other from the bottom of the stack and   *)
(* hold what was written.                                                  *)
Stacked(s, m) ==
  /\ s \in Seq(FrameRecord)
  /\ s # << >> => s[1].at = 1
  /\ \A i \in 1 .. Len(s) : i + 1 \in 1 .. Len(s) => s[i + 1].at = End(s[i])
  /\ \A i, j \in 1 .. Len(s) : i < j => End(s[i]) <= s[j].at
  /\ \A i \in 1 .. Len(s) : \A p \in s[i].at .. (End(s[i]) - 1) : m[p] = i

(* The place above the frames.                                             *)
Above(s) == IF s = << >> THEN 1 ELSE End(s[Len(s)])

(* The top is just above the frames, or, in event_loop, at the origin,     *)
(* which is above every frame that event_loop can have below it: the       *)
(* frames that were there at the first co::create end below its own, which *)
(* is as large as event_loop's.                                            *)
VInv ==
  /\ mem \in [Place -> Nat]
  /\ top \in Place
  /\ Stacked(frames, mem)
  /\ loop \in {"off", "wait", "resumed"}
  /\ Above(frames) <= top
  /\ loop = "off" => top = Above(frames)
  /\ origin \in Place \cup {NULL}
  /\ origin = NULL <=> first = NULL
  /\ origin # NULL =>
       /\ first \in 0 .. Len(frames)
       /\ 1 + CreateSize <= origin
       /\ \A i \in 1 .. first : End(frames[i]) + CreateSize <= origin
  /\ loop # "off" =>
       /\ origin # NULL /\ Len(frames) = first + 1 /\ Above(frames) <= origin

LEMMA VInvInit == Init => VInv
BY VmStackAssumption DEF Init, VInv, Place, Stacked, Above

(* Frames end where the last one ends, or below.                           *)
LEMMA EndsBelow ==
  ASSUME NEW m, NEW s, Stacked(s, m)
  PROVE  /\ Len(s) \in Nat /\ (s = << >> <=> Len(s) = 0)
         /\ \A i \in 1 .. Len(s) :
              /\ s[i].at \in Place /\ s[i].size \in Nat \ {0}
              /\ End(s[i]) \in Nat /\ End(s[i]) <= Above(s)
         /\ Above(s) \in Nat
<1>1. s \in Seq(FrameRecord) /\ Len(s) \in Nat  BY DEF Stacked
<1>2. s = << >> <=> Len(s) = 0  BY <1>1, EmptySeq
<1>3. \A i \in 1 .. Len(s) : s[i] \in FrameRecord  BY <1>1, ElementOfSeq
<1>4. \A i \in 1 .. Len(s) : /\ s[i].at \in Place /\ s[i].size \in Nat \ {0}
                             /\ End(s[i]) \in Nat /\ s[i].at < End(s[i])
  BY <1>3, VmStackAssumption DEF FrameRecord, End, Place
<1>5. ASSUME NEW i \in 1 .. Len(s) PROVE End(s[i]) <= Above(s)
  <2>1. Len(s) \in 1 .. Len(s) /\ s # << >>  BY <1>1, <1>2
  <2>2. Above(s) = End(s[Len(s)])  BY <2>1 DEF Above
  <2>3. CASE i = Len(s)  BY <2>2, <2>3, <1>4
  <2>4. CASE i # Len(s)
    <3>1. i < Len(s)  BY <1>1, <2>4
    <3>2. End(s[i]) <= s[Len(s)].at  BY <2>1, <3>1 DEF Stacked
    <3> QED BY <2>1, <2>2, <3>2, <1>4, VmStackAssumption DEF Place
  <2> QED BY <2>3, <2>4
<1>6. Above(s) \in Nat
  <2>1. CASE s = << >>  BY <2>1 DEF Above
  <2>2. CASE s # << >>
    <3>1. Len(s) \in 1 .. Len(s)  BY <1>1, <1>2, <2>2
    <3> QED BY <2>2, <3>1, <1>4 DEF Above
  <2> QED BY <2>1, <2>2
<1> QED BY <1>1, <1>2, <1>4, <1>5, <1>6

(* A frame written at the top touches no frame of the script.              *)
LEMMA Written ==
  ASSUME VInv, NEW n \in Nat \ {0}, NEW who \in Nat, Write(n, who)
  PROVE  /\ mem' \in [Place -> Nat]
         /\ Stacked(frames, mem')
<1>1. mem' = [p \in Place |-> IF top <= p /\ p < top + n THEN who ELSE mem[p]]  BY DEF Write
<1>2. mem' \in [Place -> Nat]  BY <1>1 DEF VInv
<1>0. Stacked(frames, mem) /\ top \in Place /\ Above(frames) <= top  BY DEF VInv
<1>3. Stacked(frames, mem) /\ top \in Nat /\ top <= Size  BY <1>0, VmStackAssumption DEF Place
<1>4. ASSUME NEW i \in 1 .. Len(frames), NEW p \in frames[i].at .. (End(frames[i]) - 1)
      PROVE  mem'[p] = i
  <2>1. /\ frames[i].at \in Place /\ frames[i].size \in Nat
        /\ End(frames[i]) \in Nat /\ End(frames[i]) <= Above(frames) /\ Above(frames) \in Nat
    BY <1>3, EndsBelow
  <2>2. Above(frames) <= top  BY <1>0
  <2>3. frames[i].at \in Nat /\ 1 <= frames[i].at /\ top <= Size
    BY <1>3, <2>1, VmStackAssumption DEF Place
  <2>a. p \in Int /\ frames[i].at <= p /\ p < End(frames[i])  BY <2>1, <2>3
  <2>4. p \in Place /\ ~(top <= p)
    BY <1>3, <2>1, <2>2, <2>3, <2>a, VmStackAssumption DEF Place
  <2>5. mem'[p] = mem[p]  BY <1>1, <2>4
  <2>6. mem[p] = i  BY <1>3 DEF Stacked
  <2> QED BY <2>5, <2>6
<1>5. Stacked(frames, mem')  BY <1>3, <1>4 DEF Stacked
<1> QED BY <1>2, <1>5

(* The stack of frames after a call.                                       *)
LEMMA Pushed ==
  ASSUME VInv, NEW n \in Nat \ {0}, Push(n), loop = "off"
  PROVE  /\ mem' \in [Place -> Nat]
         /\ top' \in Place
         /\ Stacked(frames', mem')
         /\ Len(frames') = Len(frames) + 1
         /\ top' = Above(frames') /\ top' = top + n
         /\ \A i \in 1 .. Len(frames) : frames'[i] = frames[i]
<1> DEFINE f == [at |-> top, size |-> n]
<1>1. /\ Stacked(frames, mem) /\ frames \in Seq(FrameRecord) /\ Len(frames) \in Nat
      /\ top \in Place /\ top = Above(frames)
  BY DEF VInv, Stacked
<1>2. f \in FrameRecord /\ f.at = top /\ End(f) = top + n  BY <1>1 DEF FrameRecord, End
<1>3. frames' = Append(frames, f) /\ top' = top + n /\ top + n <= Size /\ Write(n, Len(frames) + 1)
  BY DEF Push, Fits
<1> HIDE DEF f
<1>4. /\ frames' \in Seq(FrameRecord) /\ Len(frames') = Len(frames) + 1
      /\ \A i \in 1 .. Len(frames) : frames'[i] = frames[i]
      /\ frames'[Len(frames) + 1] = f
  BY <1>1, <1>2, <1>3, AppendProperties
<1>5. mem' \in [Place -> Nat] /\ Stacked(frames, mem')  BY <1>1, <1>3, Written
<1>6. top' \in Place  BY <1>1, <1>3, VmStackAssumption DEF Place
<1>7. frames' # << >>  BY <1>1, <1>4, EmptySeq
<1>8. top' = Above(frames')  BY <1>2, <1>3, <1>4, <1>7 DEF Above
<1>9. /\ frames = << >> <=> Len(frames) = 0
      /\ \A i \in 1 .. Len(frames) : End(frames[i]) <= top
  BY <1>1, EndsBelow
<1>10. frames'[1].at = 1
  <2>1. CASE frames = << >>
    BY <1>1, <1>2, <1>4, <1>9, <2>1 DEF Above
  <2>2. CASE frames # << >>
    <3>1. 1 \in 1 .. Len(frames)  BY <1>1, <1>9, <2>2
    <3> QED BY <1>1, <1>4, <2>2, <3>1 DEF Stacked
  <2> QED BY <2>1, <2>2
<1>11. ASSUME NEW i \in 1 .. Len(frames'), i + 1 \in 1 .. Len(frames')
       PROVE  frames'[i + 1].at = End(frames'[i])
  <2>1. i \in 1 .. Len(frames)  BY <1>1, <1>4, <1>11
  <2>2. CASE i = Len(frames)
    <3>1. frames # << >> /\ End(frames[i]) = top  BY <1>1, <1>9, <2>1, <2>2 DEF Above
    <3> QED BY <1>2, <1>4, <2>1, <2>2, <3>1
  <2>3. CASE i # Len(frames)
    <3>1. i + 1 \in 1 .. Len(frames)  BY <1>1, <2>1, <2>3
    <3> QED BY <1>1, <1>4, <2>1, <3>1 DEF Stacked
  <2> QED BY <2>2, <2>3
<1>12. ASSUME NEW i \in 1 .. Len(frames'), NEW j \in 1 .. Len(frames'), i < j
       PROVE  End(frames'[i]) <= frames'[j].at
  <2>1. i \in 1 .. Len(frames)  BY <1>1, <1>4, <1>12
  <2>2. CASE j = Len(frames) + 1  BY <1>2, <1>4, <1>9, <2>1, <2>2
  <2>3. CASE j # Len(frames) + 1
    <3>1. j \in 1 .. Len(frames)  BY <1>1, <1>4, <2>3
    <3> QED BY <1>1, <1>4, <1>12, <2>1, <3>1 DEF Stacked
  <2> QED BY <2>2, <2>3
<1>13. ASSUME NEW i \in 1 .. Len(frames'), NEW p \in frames'[i].at .. (End(frames'[i]) - 1)
       PROVE  mem'[p] = i
  <2>1. CASE i = Len(frames) + 1
    <3>0. frames'[i].at = top /\ End(frames'[i]) = top + n  BY <1>2, <1>4, <2>1
    <3>1. top \in Nat /\ 1 <= top  BY <1>1, VmStackAssumption DEF Place
    <3>2. p \in Int /\ top <= p /\ p <= (top + n) - 1  BY <3>0, <3>1
    <3>3. p \in Place /\ top <= p /\ p < top + n
      BY <1>3, <3>1, <3>2, VmStackAssumption DEF Place
    <3> QED BY <1>3, <2>1, <3>3 DEF Write
  <2>2. CASE i # Len(frames) + 1
    <3>1. i \in 1 .. Len(frames)  BY <1>1, <1>4, <2>2
    <3> QED BY <1>4, <1>5, <3>1 DEF Stacked
  <2> QED BY <2>1, <2>2
<1>14. Stacked(frames', mem')  BY <1>4, <1>10, <1>11, <1>12, <1>13 DEF Stacked
<1> QED BY <1>3, <1>4, <1>5, <1>6, <1>8, <1>14

(* ... and after a return.                                                 *)
LEMMA Popped ==
  ASSUME VInv, frames # << >>, Pop
  PROVE  /\ mem' = mem
         /\ top' \in Place
         /\ Stacked(frames', mem')
         /\ Len(frames') = Len(frames) - 1
         /\ top' = Above(frames')
         /\ \A i \in 1 .. Len(frames') : frames'[i] = frames[i]
<1>0. Stacked(frames, mem)  BY DEF VInv
<1>1. Len(frames) \in Nat \ {0} /\ frames \in Seq(FrameRecord)
  BY <1>0, EmptySeq DEF Stacked
<1>2. /\ frames' \in Seq(FrameRecord) /\ Len(frames') = Len(frames) - 1
      /\ \A i \in 1 .. Len(frames') : frames'[i] = frames[i]
  <2>1. \A i \in 1 .. (Len(frames) - 1) : frames[i] \in FrameRecord  BY <1>1, ElementOfSeq
  <2>2. frames' = SubSeq(frames, 1, Len(frames) - 1)  BY DEF Pop
  <2>3. /\ SubSeq(frames, 1, Len(frames) - 1) \in Seq(FrameRecord)
        /\ Len(SubSeq(frames, 1, Len(frames) - 1)) = Len(frames) - 1
        /\ \A i \in 1 .. (Len(frames) - 1) : SubSeq(frames, 1, Len(frames) - 1)[i] = frames[i]
    <3>1. Len(frames) - 1 \in Int /\ 1 \in Int  BY <1>1
    <3>2. /\ SubSeq(frames, 1, Len(frames) - 1) \in Seq(FrameRecord)
          /\ Len(SubSeq(frames, 1, Len(frames) - 1)) =
               IF 1 <= Len(frames) - 1 THEN (Len(frames) - 1) - 1 + 1 ELSE 0
          /\ \A i \in 1 .. ((Len(frames) - 1) - 1 + 1) :
               SubSeq(frames, 1, Len(frames) - 1)[i] = frames[1 + i - 1]
      BY <2>1, <3>1, SubSeqProperties
    <3>3. ASSUME NEW n \in Nat \ {0}
          PROVE  (n - 1) - 1 + 1 = n - 1 /\ (~(1 <= n - 1) => n - 1 = 0)
      OBVIOUS
    <3>4. ASSUME NEW i \in 1 .. (Len(frames) - 1)
          PROVE  SubSeq(frames, 1, Len(frames) - 1)[i] = frames[i]
      <4>1. i \in 1 .. ((Len(frames) - 1) - 1 + 1)  BY <1>1
      <4>2. SubSeq(frames, 1, Len(frames) - 1)[i] = frames[1 + i - 1]  BY <4>1, <3>2
      <4>3. 1 + i - 1 = i  BY <1>1
      <4> QED BY <4>2, <4>3
    <3> QED BY <1>1, <3>2, <3>3, <3>4
  <2> QED BY <2>2, <2>3
<1>3. top' = frames[Len(frames)].at /\ mem' = mem  BY DEF Pop
<1>4. Len(frames) \in 1 .. Len(frames)  BY <1>1
<1>5. top' \in Place  BY <1>0, <1>3, <1>4, EndsBelow
<1>6. \A i \in 1 .. Len(frames') : i \in 1 .. Len(frames)  BY <1>1, <1>2
<1>7. Stacked(frames', mem')
  <2>1. frames' # << >> => frames'[1].at = 1
    <3>1. ASSUME frames' # << >> PROVE 1 \in 1 .. Len(frames')  BY <1>1, <1>2, <3>1, EmptySeq
    <3> QED BY <1>0, <1>2, <3>1 DEF Stacked
  <2>2. \A i \in 1 .. Len(frames') : i + 1 \in 1 .. Len(frames') => frames'[i + 1].at = End(frames'[i])
    BY <1>0, <1>2, <1>6 DEF Stacked
  <2>3. \A i, j \in 1 .. Len(frames') : i < j => End(frames'[i]) <= frames'[j].at
    BY <1>0, <1>2, <1>6 DEF Stacked
  <2>4. \A i \in 1 .. Len(frames') : \A p \in frames'[i].at .. (End(frames'[i]) - 1) : mem'[p] = i
    BY <1>0, <1>2, <1>3, <1>6 DEF Stacked
  <2> QED BY <1>2, <2>1, <2>2, <2>3, <2>4 DEF Stacked
<1>8. top' = Above(frames')
  <2>1. CASE Len(frames') = 0
    <3>1. frames' = << >> /\ Len(frames) = 1  BY <1>1, <1>2, <2>1, EmptySeq
    <3> QED BY <1>0, <1>3, <3>1 DEF Stacked, Above
  <2>2. CASE Len(frames') # 0
    <3>1. Len(frames') \in 1 .. Len(frames') /\ Len(frames') + 1 = Len(frames) /\ frames' # << >>
      BY <1>1, <1>2, <2>2, EmptySeq
    <3>2. frames[Len(frames') + 1].at = End(frames[Len(frames')])
      BY <1>0, <1>4, <1>6, <3>1 DEF Stacked
    <3> QED BY <1>2, <1>3, <3>1, <3>2 DEF Above
  <2> QED BY <2>1, <2>2
<1> QED BY <1>2, <1>3, <1>5, <1>7, <1>8

LEMMA VInvStep == VInv /\ [Next]_vars => VInv'
<1> SUFFICES ASSUME VInv, [Next]_vars PROVE VInv'  OBVIOUS
<1> USE VmStackAssumption
<1>0. /\ Len(frames) \in Nat /\ Above(frames) \in Nat /\ top \in Nat
      /\ \A i \in 1 .. Len(frames) : End(frames[i]) \in Nat /\ End(frames[i]) <= Above(frames)
      /\ frames = << >> <=> Len(frames) = 0
  BY EndsBelow DEF VInv, Place
<1>1. CASE Call
  <2>1. PICK n \in FrameSizes : Push(n)  BY <1>1 DEF Call
  <2>2. loop = "off" /\ UNCHANGED <<origin, loop, first>> /\ n \in Nat \ {0}  BY <1>1 DEF Call
  <2>3. /\ mem' \in [Place -> Nat] /\ top' \in Place /\ Stacked(frames', mem')
        /\ Len(frames') = Len(frames) + 1 /\ top' = Above(frames')
        /\ \A i \in 1 .. Len(frames) : frames'[i] = frames[i]
    BY <2>1, <2>2, Pushed
  <2>4. ASSUME origin # NULL
        PROVE  /\ first \in 0 .. Len(frames')
               /\ \A i \in 1 .. first : End(frames'[i]) + CreateSize <= origin
    <3>1. first \in 0 .. Len(frames)  BY <2>4 DEF VInv
    <3>2. \A i \in 1 .. first : frames'[i] = frames[i]  BY <1>0, <2>3, <3>1
    <3> QED BY <1>0, <2>3, <2>4, <3>1, <3>2 DEF VInv
  <2>5. Above(frames') <= top'  BY <2>3 DEF Place
  <2> QED BY <2>2, <2>3, <2>4, <2>5 DEF VInv
<1>2. CASE Return
  <2>1. /\ Pop /\ frames # << >> /\ loop = "off" /\ UNCHANGED <<origin, loop>>
        /\ first' = IF first = Len(frames) THEN Len(frames) - 1 ELSE first
    BY <1>2 DEF Return
  <2>2. /\ mem' = mem /\ top' \in Place /\ Stacked(frames', mem')
        /\ Len(frames') = Len(frames) - 1 /\ top' = Above(frames')
        /\ \A i \in 1 .. Len(frames') : frames'[i] = frames[i]
    BY <2>1, Popped
  <2>3. origin = NULL => first' = NULL  BY <1>0, <2>1 DEF VInv
  <2>4. origin # NULL => first' # NULL /\ first' \in 0 .. Len(frames') /\ first' <= first
    BY <1>0, <2>1, <2>2 DEF VInv
  <2>5. origin # NULL => \A i \in 1 .. first' : End(frames'[i]) + CreateSize <= origin
    <3> SUFFICES ASSUME origin # NULL, NEW i \in 1 .. first'
                 PROVE  End(frames'[i]) + CreateSize <= origin
      OBVIOUS
    <3>1. i \in 1 .. first /\ i \in 1 .. Len(frames')  BY <1>0, <2>2, <2>4 DEF VInv
    <3> QED BY <2>2, <3>1 DEF VInv
  <2> QED BY <2>1, <2>2, <2>3, <2>4, <2>5, <1>0 DEF VInv, Place
<1>3. CASE Create
  <2>1. Write(CreateSize, 0) /\ UNCHANGED <<top, frames, loop>> /\ loop = "off" /\ top + CreateSize <= Size
    BY <1>3 DEF Create, Fits
  <2>2. mem' \in [Place -> Nat] /\ Stacked(frames', mem')  BY <2>1, Written
  <2>3. CASE origin = NULL
    <3>1. origin' = top + CreateSize /\ first' = Len(frames)
      BY <1>3, <2>3 DEF Create, top_at_create, VInv
    <3>2. origin' \in Place /\ 1 + CreateSize <= origin' /\ first' # NULL /\ origin' # NULL
      BY <1>0, <2>1, <3>1 DEF VInv, Place
    <3>3. \A i \in 1 .. first' : End(frames'[i]) + CreateSize <= origin'
      BY <1>0, <2>1, <3>1 DEF VInv
    <3> QED BY <1>0, <2>1, <2>2, <3>1, <3>2, <3>3 DEF VInv
  <2>4. CASE origin # NULL
    <3>1. origin' = origin /\ first' = first  BY <1>3, <2>4 DEF Create, VInv
    <3> QED BY <2>1, <2>2, <3>1 DEF VInv
  <2> QED BY <2>3, <2>4
<1>4. CASE Resume
  <2>1. PICK n \in FrameSizes : Write(n, 0)  BY <1>4 DEF Resume
  <2>2. UNCHANGED <<top, origin, frames, loop, first>>  BY <1>4 DEF Resume
  <2>3. mem' \in [Place -> Nat] /\ Stacked(frames', mem')  BY <2>1, <2>2, Written
  <2> QED BY <2>2, <2>3 DEF VInv
<1>5. CASE Transfer
  <2>1. PICK n \in FrameSizes : Write(n, 0)  BY <1>5 DEF Transfer
  <2>2. UNCHANGED <<top, origin, frames, first>> /\ loop = "wait" /\ loop' = "resumed"
    BY <1>5 DEF Transfer
  <2>3. mem' \in [Place -> Nat] /\ Stacked(frames', mem')  BY <2>1, <2>2, Written
  <2> QED BY <2>2, <2>3 DEF VInv
<1>6. CASE EnterLoop
  <2>1. /\ Push(LoopSize) /\ loop = "off" /\ loop' = "wait" /\ UNCHANGED <<origin, first>>
        /\ origin # NULL /\ Len(frames) = first
    BY <1>6 DEF EnterLoop
  <2>2. /\ mem' \in [Place -> Nat] /\ top' \in Place /\ Stacked(frames', mem')
        /\ Len(frames') = Len(frames) + 1 /\ top' = Above(frames') /\ top' = top + LoopSize
        /\ \A i \in 1 .. Len(frames) : frames'[i] = frames[i]
    BY <2>1, Pushed
  <2>3. top + CreateSize <= origin
    <3>1. top = Above(frames) /\ origin \in Nat  BY <2>1 DEF VInv, Place
    <3>2. CASE frames = << >>  BY <2>1, <3>1, <3>2 DEF VInv, Above
    <3>3. CASE frames # << >>
      <4>1. Len(frames) \in 1 .. first /\ Above(frames) = End(frames[Len(frames)])
        BY <1>0, <2>1, <3>3 DEF Above
      <4> QED BY <2>1, <3>1, <4>1 DEF VInv
    <3> QED BY <3>2, <3>3
  <2>4. top' <= origin  BY <1>0, <2>1, <2>2, <2>3 DEF VInv, Place
  <2>5. first \in 0 .. Len(frames') /\ \A i \in 1 .. first : End(frames'[i]) + CreateSize <= origin
    <3>1. first \in 0 .. Len(frames) /\ \A i \in 1 .. first : End(frames[i]) + CreateSize <= origin
      BY <2>1 DEF VInv
    <3>2. \A i \in 1 .. first : frames'[i] = frames[i]  BY <2>1, <2>2
    <3>3. Len(frames) \in Nat  BY <1>0
    <3> QED BY <2>2, <3>1, <3>2, <3>3
  <2>b. top' \in Nat  BY <2>2, VmStackAssumption DEF Place
  <2>6. Above(frames') <= top' /\ Above(frames') <= origin  BY <2>2, <2>4, <2>b
  <2>7. Len(frames') = first + 1  BY <2>1, <2>2
  <2> QED BY <2>1, <2>2, <2>5, <2>6, <2>7 DEF VInv
<1>7. CASE Suspend
  <2>1. top' = origin /\ loop' = "wait" /\ loop = "resumed" /\ UNCHANGED <<mem, origin, frames, first>>
    BY <1>7 DEF Suspend
  <2> QED BY <2>1 DEF VInv
<1>8. CASE LeaveLoop
  <2>1. /\ Pop /\ loop = "wait" /\ loop' = "off" /\ UNCHANGED <<origin, first>>
    BY <1>8 DEF LeaveLoop
  <2>2. origin # NULL /\ Len(frames) = first + 1 /\ first \in Nat /\ frames # << >>
    BY <1>0, <2>1 DEF VInv
  <2>3. /\ mem' = mem /\ top' \in Place /\ Stacked(frames', mem')
        /\ Len(frames') = Len(frames) - 1 /\ top' = Above(frames')
        /\ \A i \in 1 .. Len(frames') : frames'[i] = frames[i]
    BY <2>1, <2>2, Popped
  <2>4. first \in 0 .. Len(frames') /\ \A i \in 1 .. first : End(frames'[i]) + CreateSize <= origin
    BY <1>0, <2>2, <2>3 DEF VInv
  <2> QED BY <2>1, <2>2, <2>3, <2>4 DEF VInv, Place
<1>9. CASE UNCHANGED vars
  BY <1>9 DEF vars, VInv
<1> QED BY <1>1, <1>2, <1>3, <1>4, <1>5, <1>6, <1>7, <1>8, <1>9 DEF Next

(* The frames of the main script's calls, event_loop's among them, are     *)
(* never overwritten although aio_invoke does not put its caller's top     *)
(* back, whatever the sizes of the frames.                                 *)
THEOREM StackNeverOverwritten == Spec => []FramesIntact
<1>1. VInv => FramesIntact
  <2> SUFFICES ASSUME VInv, NEW i \in DOMAIN frames
               PROVE  /\ frames[i].at + frames[i].size <= top
                      /\ \A p \in frames[i].at .. ((frames[i].at + frames[i].size) - 1) : mem[p] = i
    BY DEF FramesIntact
  <2>1. i \in 1 .. Len(frames) /\ Stacked(frames, mem) /\ Above(frames) <= top /\ top \in Nat
    BY VmStackAssumption DEF VInv, Stacked, Place
  <2>2. End(frames[i]) \in Nat /\ End(frames[i]) <= Above(frames) /\ Above(frames) \in Nat
    BY <2>1, EndsBelow
  <2>3. End(frames[i]) <= top  BY <2>1, <2>2
  <2>4. \A p \in frames[i].at .. (End(frames[i]) - 1) : mem[p] = i  BY <2>1 DEF Stacked
  <2> QED BY <2>3, <2>4 DEF End
<1> QED BY <1>1, VInvInit, VInvStep, PTL DEF Spec
=============================================================================
