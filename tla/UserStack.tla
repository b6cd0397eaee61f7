------------------------------ MODULE UserStack ------------------------------
(***************************************************************************)
(* UserStack of src/user_stack/user_stack/src/lib.rs: the stack of a new   *)
(* process is written through a kernel pointer `ptr` while `sp` tracks the *)
(* user address of the same byte.  push<T> moves sp down by the size of    *)
(* the data and then down to T's alignment, moves ptr by the same distance *)
(* and copies the data there; push_str pushes a NUL byte, then the string. *)
(* Addresses are usize, modelled with Width bits and wrapping arithmetic.  *)
(***************************************************************************)
EXTENDS Integers, SequencesExt

CONSTANTS
  Width,      \* bits of usize in the model
  Base,       \* user address the stack starts at (UserStack::new base)
  Ptr0,       \* kernel address of the same byte (UserStack::new ptr)
  StackSize,  \* bytes the caller set aside below Ptr0
  Types,      \* element types pushed: [size |-> size_of, align |-> align_of]
  Vals,       \* non-zero element values
  Strs,       \* strings pushed by push_str, as non-empty byte sequences
  MaxOps,     \* bound: pushes in one stack layout
  Unset       \* a byte nothing has written

M == 2^Width
ASSUME Base \in 0..M - 1 /\ Ptr0 \in 0..M - 1 /\ StackSize \in 0..Ptr0

VARIABLES
  sp,      \* UserStack.sp
  ptr,     \* UserStack.ptr
  mem,     \* kernel memory: address -> byte
  layout,  \* what has been pushed: user address, bytes, alignment
  ops      \* pushes so far

vars == <<sp, ptr, mem, layout, ops>>

U8 == [size |-> 1, align |-> 1]

\* The bytes of an element of type T with value v (value byte first).
ElemBytes(T, v) == [j \in 1..T.size |-> IF j = 1 THEN v ELSE 0]

\* The bytes copy_from_slice writes for data: &[T].
DataBytes(T, data) == FlattenSeq([i \in 1..Len(data) |-> ElemBytes(T, data[i])])

\* slice::copy_from_slice of bytes to kernel address at.
CopyFromSlice(m, at, bytes) ==
  [a \in 0..M - 1 |->
     LET off == (a - at) % M
     IN  IF off < Len(bytes) THEN bytes[off + 1] ELSE m[a]]

\* UserStack::push on the state st = [sp, ptr, mem]:
\*   origin = sp; sp -= size_of_val(data); sp -= sp % align_of::<T>();
\*   ptr -= origin - sp; copy data to ptr.
PushStep(st, T, data) ==
  LET origin == st.sp
      sp1    == (origin - Len(data) * T.size) % M
      sp2    == (sp1 - (sp1 % T.align)) % M
      ptr2   == (st.ptr - ((origin - sp2) % M)) % M
  IN  [sp |-> sp2, ptr |-> ptr2,
       mem |-> CopyFromSlice(st.mem, ptr2, DataBytes(T, data))]

Now == [sp |-> sp, ptr |-> ptr, mem |-> mem]

\* Arrays of one or two elements of type T.
Arrays(T) == {<<v>> : v \in Vals} \cup {<<v, w>> : v, w \in Vals}

Init ==
  /\ sp = Base
  /\ ptr = Ptr0
  /\ mem = [a \in 0..M - 1 |-> Unset]
  /\ layout = <<>>
  /\ ops = 0

\* UserStack::push::<T>(data).
Push(T, data) ==
  LET st == PushStep(Now, T, data)
  IN  /\ ops < MaxOps
      /\ sp' = st.sp
      /\ ptr' = st.ptr
      /\ mem' = st.mem
      /\ layout' = Append(layout, [uaddr |-> st.sp, bytes |-> DataBytes(T, data),
                                   align |-> T.align])
      /\ ops' = ops + 1

\* Mutant: the terminator written as the character '0' (b'0') instead of b'\0'.
PushStrAsciiZero(s) ==
  LET st == PushStep(PushStep(Now, U8, <<48>>), U8, s)
  IN  /\ ops < MaxOps
      /\ sp' = st.sp
      /\ ptr' = st.ptr
      /\ mem' = st.mem
      /\ layout' = Append(layout, [uaddr |-> st.sp, bytes |-> s \o <<0>>, align |-> 1])
      /\ ops' = ops + 1

\* Mutant: the string is pushed before its NUL terminator.
PushStrNulFirst(s) ==
  LET st == PushStep(PushStep(Now, U8, s), U8, <<0>>)
  IN  /\ ops < MaxOps
      /\ sp' = st.sp
      /\ ptr' = st.ptr
      /\ mem' = st.mem
      /\ layout' = Append(layout, [uaddr |-> st.sp, bytes |-> s \o <<0>>, align |-> 1])
      /\ ops' = ops + 1

\* UserStack::push_str(s): push(&[b'\0']), push(s.as_bytes()), return sp.
\* The string with its terminator is what the returned address names.
PushStr(s) ==
  LET st == PushStep(PushStep(Now, U8, <<0>>), U8, s)
  IN  /\ ops < MaxOps
      /\ sp' = st.sp
      /\ ptr' = st.ptr
      /\ mem' = st.mem
      /\ layout' = Append(layout, [uaddr |-> st.sp, bytes |-> s \o <<0>>, align |-> 1])
      /\ ops' = ops + 1

Next ==
  \/ \E T \in Types : \E data \in Arrays(T) : Push(T, data)
  \/ \E s \in Strs : PushStr(s)

Spec == Init /\ [][Next]_vars

-----------------------------------------------------------------------------
(* Properties.                                                             *)

\* The bytes the model can write: element values, zero padding of elements,
\* NUL terminators and string bytes.
TypeOK ==
  /\ sp \in 0..M - 1
  /\ ptr \in 0..M - 1
  /\ mem \in [0..M - 1 -> Vals \cup {0, Unset} \cup UNION {ToSet(s) : s \in Strs}]
  /\ ops \in 0..MaxOps

\* Kernel address of the byte at user address u, if ptr tracks sp.
KAddr(u) == (u - (Base - Ptr0)) % M

\* Every value pushed so far (each argv/envp string with its NUL, each
\* array) is still there, at its aligned user address: later pushes and
\* their padding never overwrite earlier data.
LayoutIntact ==
  \A i \in 1..Len(layout) :
    LET it == layout[i]
    IN  /\ it.uaddr % it.align = 0
        /\ \A k \in 1..Len(it.bytes) : mem[KAddr(it.uaddr + k - 1)] = it.bytes[k]

\* The crate documents "safe data pushing operations": no push writes below
\* the StackSize bytes the caller set aside under Ptr0.
PushStaysInStack == ptr >= Ptr0 - StackSize

=============================================================================
