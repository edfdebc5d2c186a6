--------------------------- MODULE NameCellProofs ---------------------------
(***************************************************************************)
(* The agent gets the kernel's names, for cells of every size.             *)
(***************************************************************************)
EXTENDS NameCell, TLAPS

\* What a cell holds once the probe is done with it.
Filled ==
  /\ nm = NULL => \A k \in 1..Size : cell[k] = 0
  /\ nm # NULL => /\ \A k \in 1..Copied(nm) : cell[k] = nm[k]
                  /\ cell[Copied(nm) + 1] = 0

(***************************************************************************)
(* NameArrives made inductive: it needs to know what the cell holds when   *)
(* it is converted, and that in turn that it was cleared before.           *)
(***************************************************************************)
IInv ==
  /\ stage \in {"clear", "read", "convert", "done"}
  /\ nm \in Names \cup {NULL}
  /\ cell \in [1..Size -> Byte]
  /\ stage = "read" => \A k \in 1..Size : cell[k] = 0
  /\ stage = "convert" => Filled
  /\ NameArrives

\* A byte survives int8 and back (oomtracer.go:230, 241).
LEMMA ByteRoundTrip == \A b \in Byte : ToByte(ToInt8(b)) = b
BY DEF Byte, ToByte, ToInt8

\* Part of a name fits the cell beside a NUL (bpf_probe_read_kernel_str).
LEMMA CopiedFits ==
  ASSUME NEW s \in Names
  PROVE  /\ Copied(s) \in 0..(Size - 1) /\ Copied(s) \in 0..Len(s)
         /\ \A k \in 1..Copied(s) : s[k] \in Byte \ {0}
<1>1. s \in Seq(Byte \ {0}) /\ Len(s) \in Nat
  BY NamesAssumption
<1>2. Copied(s) \in 0..(Size - 1) /\ Copied(s) \in 0..Len(s)
  BY <1>1, SizeAssumption DEF Copied
<1>3. ASSUME NEW k \in 1..Copied(s) PROVE s[k] \in Byte \ {0}
  <2>1. k \in 1..Len(s)
    BY <1>1, <1>2
  <2> QED BY <1>1, <2>1
<1> QED BY <1>2, <1>3

\* unix.ByteSliceToString cuts at the first NUL.
LEMMA FirstNul ==
  ASSUME NEW b, NEW c \in 0..(Size - 1),
         \A k \in 1..c : b[k] # 0, b[c + 1] = 0
  PROVE  ByteSliceToString(b) = [k \in 1..c |-> b[k]]
<1> DEFINE IsEnd(n) == (\A k \in 1..n : b[k] # 0) /\ (n = Size \/ b[n + 1] = 0)
<1>1. c \in 0..Size /\ IsEnd(c)
  BY SizeAssumption
<1>2. ASSUME NEW n \in 0..Size, IsEnd(n) PROVE n = c
  <2>1. CASE n < c
    <3>1. n + 1 \in 1..c /\ n # Size
      BY <2>1, SizeAssumption
    <3> QED BY <1>2, <3>1
  <2>2. CASE n > c
    <3>1. c + 1 \in 1..n
      BY <2>2, SizeAssumption
    <3> QED BY <1>2, <3>1
  <2> QED BY <2>1, <2>2, SizeAssumption
<1>3. (CHOOSE n \in 0..Size : IsEnd(n)) = c
  <2> HIDE DEF IsEnd
  <2> QED BY <1>1, <1>2
<1> QED BY <1>3 DEF ByteSliceToString

\* The initial state: no name is read yet.
LEMMA InitOK == Init => IInv
BY SizeAssumption DEF Init, IInv, NameArrives

\* The memset.
LEMMA ClearOK == IInv /\ Clear => IInv'
BY SizeAssumption DEF IInv, Clear, NameArrives, Byte

\* bpf_core_read_str, or nothing if there is no name.
LEMMA ReadOK == IInv /\ ReadStr => IInv'
<1> SUFFICES ASSUME IInv, ReadStr PROVE IInv'
  OBVIOUS
<1>1. CASE nm = NULL
  <2>1. UNCHANGED <<nm, cell>> /\ stage' = "convert" /\ Filled
    BY <1>1 DEF IInv, ReadStr, Filled
  <2>2. Filled'
    BY <1>1, <2>1 DEF Filled
  <2> QED BY <2>1, <2>2 DEF IInv, NameArrives
<1>2. CASE nm # NULL
  <2>1. nm \in Names /\ nm' = nm /\ stage' = "convert"
    BY <1>2 DEF IInv, ReadStr
  <2>2. /\ Copied(nm) \in 0..(Size - 1)
        /\ \A k \in 1..Copied(nm) : nm[k] \in Byte \ {0}
    BY <2>1, CopiedFits
  <2>3. cell' = [k \in 1..Size |->
                   IF k <= Copied(nm) THEN nm[k]
                   ELSE IF k = Copied(nm) + 1 THEN 0 ELSE cell[k]]
    BY <1>2 DEF ReadStr
  <2>4. \A k \in 1..Copied(nm) : cell'[k] = nm[k]
    BY <2>2, <2>3, SizeAssumption
  <2>5. cell'[Copied(nm) + 1] = 0
    BY <2>2, <2>3, SizeAssumption
  <2>6. cell' \in [1..Size -> Byte]
    BY <2>2, <2>3, SizeAssumption DEF IInv, Byte
  <2>7. Copied(nm)' = Copied(nm)
    BY <2>1 DEF Copied
  <2>8. Filled'
    BY <1>2, <2>1, <2>4, <2>5, <2>7 DEF Filled
  <2> QED BY <2>1, <2>6, <2>8 DEF IInv, NameArrives
<1> QED BY <1>1, <1>2

\* binary.Read and the conversion of the agent.
LEMMA ConvertOK == IInv /\ Int8SliceToString => IInv'
<1> SUFFICES ASSUME IInv, Int8SliceToString PROVE IInv'
  OBVIOUS
<1> DEFINE b == [k \in 1..Size |-> ToByte(ToInt8(cell[k]))]
<1>1. \A k \in 1..Size : b[k] = cell[k]
  BY ByteRoundTrip DEF IInv
<1>2. stage' = "done" /\ nm' = nm /\ cell' = cell /\ Filled /\ str' = ByteSliceToString(b)
  BY DEF IInv, Int8SliceToString
<1> HIDE DEF b
<1>3. CASE nm = NULL
  <2>1. b[0 + 1] = 0 /\ 0 \in 0..(Size - 1)
    BY <1>1, <1>2, <1>3, SizeAssumption DEF Filled
  <2>2. str' = [k \in 1..0 |-> b[k]]
    BY <1>2, <2>1, FirstNul
  <2>3. str' = <<>>
    BY <2>2
  <2> QED BY <1>2, <1>3, <2>3 DEF IInv, NameArrives
<1>4. CASE nm # NULL
  <2>1. nm \in Names /\ nm \in Seq(Byte \ {0})
    BY <1>4, NamesAssumption DEF IInv
  <2>2. /\ Copied(nm) \in 0..(Size - 1)
        /\ \A k \in 1..Copied(nm) : nm[k] \in Byte \ {0}
    BY <2>1, CopiedFits
  <2>3. \A k \in 1..Copied(nm) : b[k] = nm[k] /\ b[k] # 0
    BY <1>1, <1>2, <1>4, <2>2, SizeAssumption DEF Filled
  <2>4. b[Copied(nm) + 1] = 0
    BY <1>1, <1>2, <1>4, <2>2, SizeAssumption DEF Filled
  <2>5. str' = [k \in 1..Copied(nm) |-> b[k]]
    BY <1>2, <2>2, <2>3, <2>4, FirstNul
  <2>6. str' = [k \in 1..Copied(nm) |-> nm[k]]
    BY <2>3, <2>5
  <2>7. CASE Len(nm) < Size
    <3>1. str' = nm
      BY <2>1, <2>6, <2>7 DEF Copied
    <3>2. NameArrives'
      BY <1>2, <1>4, <2>1, <2>7, <3>1, SizeAssumption DEF NameArrives
    <3> QED BY <1>2, <3>2 DEF IInv
  <2>8. CASE Len(nm) >= Size
    <3>1. Copied(nm) = Size - 1
      BY <2>1, <2>8, SizeAssumption DEF Copied
    <3>2. str' = SubSeq(nm, 1, Size - 1)
      BY <2>1, <2>6, <2>8, <3>1, SizeAssumption
    <3>3. NameArrives'
      BY <1>2, <1>4, <2>1, <2>8, <3>2, SizeAssumption DEF NameArrives
    <3> QED BY <1>2, <3>3 DEF IInv
  <2> QED BY <2>1, <2>7, <2>8, SizeAssumption
<1> QED BY <1>3, <1>4

(***************************************************************************)
(* The agent's string is the kernel's, cut to what fits, for every size of *)
(* cell, every name and whatever the memory held before.                   *)
(***************************************************************************)
THEOREM NamesArrive == Spec => []NameArrives
<1>1. IInv /\ [Next]_vars => IInv'
  <2> SUFFICES ASSUME IInv, [Next]_vars PROVE IInv'
    OBVIOUS
  <2>1. CASE Clear
    BY <2>1, ClearOK
  <2>2. CASE ReadStr
    BY <2>2, ReadOK
  <2>3. CASE Int8SliceToString
    BY <2>3, ConvertOK
  <2>4. CASE UNCHANGED vars
    BY <2>4 DEF vars, IInv, Filled, NameArrives, Copied
  <2> QED BY <2>1, <2>2, <2>3, <2>4 DEF Next
<1>2. IInv => NameArrives
  BY DEF IInv
<1> QED BY InitOK, <1>1, <1>2, PTL DEF Spec
=============================================================================
