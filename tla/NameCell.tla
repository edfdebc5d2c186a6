------------------------------ MODULE NameCell ------------------------------
(***************************************************************************)
(* The way of one cgroup name from the kernel to the agent, byte by byte:  *)
(* a cell of event.names that the probe clears and fills with              *)
(* bpf_core_read_str (pkg/ebpf/bpf/oomkill.c), and that binary.Read turns  *)
(* into int8 and Int8SliceToStringSlice into a string                      *)
(* (pkg/oomtracer/oomtracer.go).  victim_comm and trigger_comm go the same *)
(* way, through Int8SliceToString.                                         *)
(***************************************************************************)
EXTENDS Integers, Sequences

CONSTANTS
  Size,     \* bytes of a cell: 128, and 16 for comm
  Memory,   \* bytes that a reserved record may hold from before
  Names,    \* strings of the kernel, without their NUL
  NULL      \* a name pointer that is NULL

Byte == 0..255

ASSUME SizeAssumption == Size \in Nat \ {0} /\ Memory \subseteq Byte
ASSUME NamesAssumption == Names \subseteq Seq(Byte \ {0}) /\ NULL \notin Names

VARIABLES
  stage,    \* "clear", "read", "convert", "done"
  nm,       \* the kernel's string
  cell,     \* the bytes of the cell
  str       \* the agent's string

vars == <<stage, nm, cell, str>>
-----------------------------------------------------------------------------
Init ==
  /\ stage = "clear" /\ nm \in Names \cup {NULL}
  /\ cell \in [1..Size -> Memory] /\ str = <<>>

\* __builtin_memset
Clear ==
  /\ stage = "clear" /\ stage' = "read"
  /\ cell' = [k \in 1..Size |-> 0]
  /\ UNCHANGED <<nm, str>>

\* Bytes of a string that fit beside its NUL.
CopiedUnterminated(s) == IF Len(s) <= Size THEN Len(s) ELSE Size    \* Mutant: strncpy.

Copied(s) == IF Len(s) < Size THEN Len(s) ELSE Size - 1

\* if (nm) bpf_core_read_str(names[i], sizeof(names[i]), nm): the bytes that
\* fit and a NUL; the rest of the cell is left as it is.
ReadStr ==
  /\ stage = "read" /\ stage' = "convert"
  /\ \/ /\ nm = NULL /\ UNCHANGED cell
     \/ /\ nm # NULL
        /\ cell' = [k \in 1..Size |->
             IF k <= Copied(nm) THEN nm[k]
             ELSE IF k = Copied(nm) + 1 THEN 0 ELSE cell[k]]
  /\ UNCHANGED <<nm, str>>

ToInt8(b) == IF b < 128 THEN b ELSE b - 256     \* binary.Read into [128]int8
ToByte(v) == v % 256                            \* byte(v)

\* unix.ByteSliceToString: the bytes before the first NUL, or all of them.
ByteSliceToString(b) ==
  LET n == CHOOSE n \in 0..Size :
             /\ \A k \in 1..n : b[k] # 0
             /\ n = Size \/ b[n + 1] = 0
  IN  [k \in 1..n |-> b[k]]

Int8SliceToString ==
  /\ stage = "convert" /\ stage' = "done"
  /\ str' = ByteSliceToString([k \in 1..Size |-> ToByte(ToInt8(cell[k]))])
  /\ UNCHANGED <<nm, cell>>

Next == Clear \/ ReadStr \/ Int8SliceToString

Spec == Init /\ [][Next]_vars
-----------------------------------------------------------------------------
(***************************************************************************)
(* The agent gets the kernel's name: all of it if it fits a cell with its  *)
(* NUL, else as much as does, whatever the bytes above 127 become on the   *)
(* way; and the empty string if there is none, whatever an earlier record  *)
(* left in the cell (oomkill.c:37, 74-75, oomtracer.go:227-247).           *)
(***************************************************************************)
NameArrives ==
  stage = "done" =>
    /\ nm = NULL => str = <<>>
    /\ nm # NULL /\ Len(nm) < Size => str = nm
    /\ nm # NULL /\ Len(nm) >= Size => str = SubSeq(nm, 1, Size - 1)
=============================================================================
