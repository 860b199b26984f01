----------------------------- MODULE GuestOutput ----------------------------
(***************************************************************************)
(* What a program writes: the write system call on stdout, stderr and the  *)
(* hint descriptor (sysCall of rvgo/fast/vm.go), which copies a range of   *)
(* memory through memReader, and cuts the bytes written so far into hints. *)
(*                                                                         *)
(* A system call is one step of the VM but many calls of Read and of Hint; *)
(* a step here is one of these.  Memory holds what the program has stored  *)
(* and is not written meanwhile.  The slow VM writes nothing: it only      *)
(* returns the count.                                                      *)
(***************************************************************************)
EXTENDS Integers, SequencesExt

CONSTANTS
    AddrSpace,    \* 2^64: addresses and counts wrap around here
    PageSize,     \* 4096
    Ram,          \* the bytes of memory
    ByteCount,    \* 256: values of a byte
    PrefixBytes,  \* 4: bytes of the length in front of a hint
    Addrs,        \* where the program's buffers are
    Counts,       \* how many bytes a call writes
    DestSizes,    \* how many bytes the buffer of io.Copy or io.ReadAll has room for
    MaxCalls      \* bound on the system calls of a run

Byte == 0..(ByteCount - 1)

Addr == 0..(AddrSpace - 1)

\* 2^32: the lengths of hints wrap around here.
LenCount == ByteCount ^ PrefixBytes

ASSUME OutputAssumption ==
    /\ AddrSpace \in Nat \ {0} /\ PageSize \in Nat \ {0} /\ AddrSpace % PageSize = 0
    /\ ByteCount \in Nat \ {0} /\ PrefixBytes \in Nat \ {0}
    /\ Ram \in [Addr -> Byte]
    /\ Addrs \subseteq Addr /\ Counts \subseteq Addr
    /\ DestSizes \subseteq Nat \ {0}
    /\ MaxCalls \in Nat

\* Powers, of which the provers know nothing.
ASSUME PowersAssumption ==
    /\ ByteCount ^ 0 = 1
    /\ \A n \in 0..PrefixBytes :
          ByteCount ^ n \in Nat \ {0} /\ ByteCount ^ (n + 1) = ByteCount * ByteCount ^ n

Stdout == 1
Stderr == 2
HintWrite == 4
FD == {Stdout, Stderr, HintWrite}

VARIABLES
    at,        \* where the VM is: between instructions, copying, or in the hint loop
    fd,        \* the descriptor of the system call
    reader,    \* memReader: the address and the count of what is left
    copied,    \* by descriptor: the bytes that have been read for it
    LastHint,  \* of the VM state
    hints,     \* the hints given to the oracle
    failed,    \* what a step has panicked on: a slice of a range or of a hint, the output
    \* History.
    range,     \* the address and the count of the system call
    wrote,     \* by descriptor: the bytes the program has written
    calls

outputVars == <<at, fd, reader, copied, LastHint, hints, failed, range, wrote, calls>>

NoRange == [addr |-> 0, count |-> 0]

OutputInit ==
    /\ at = "program"
    /\ fd = Stdout
    /\ reader = NoRange
    /\ copied = [f \in FD |-> << >>]
    /\ LastHint = << >>
    /\ hints = << >>
    /\ failed = "no"
    /\ range = NoRange
    /\ wrote = [f \in FD |-> << >>]
    /\ calls = 0

\* The bytes of a range of memory, which may wrap around.
RangeBytes(addr, count) == [i \in 1..count |-> Ram[(addr + i - 1) % AddrSpace]]

\* The write system call: ReadMemoryRange makes the reader.
SysWrite(f, addr, count) ==
    /\ at = "program"
    /\ failed = "no"
    /\ calls < MaxCalls
    /\ calls' = calls + 1
    /\ at' = "copy"
    /\ fd' = f
    /\ reader' = [addr |-> addr, count |-> count]
    /\ range' = [addr |-> addr, count |-> count]
    /\ wrote' = [wrote EXCEPT ![f] = @ \o RangeBytes(addr, count)]
    /\ UNCHANGED <<copied, LastHint, hints, failed>>

-----------------------------------------------------------------------------
(* memReader.Read                                                          *)

Page(addr) == addr \div PageSize

EndAddr == (reader.addr + reader.count) % AddrSpace

PageStart == reader.addr % PageSize

\* Mutant: a range that ends with its page is taken to end at the page's start.
PageEndClosed ==
    IF Page(reader.addr) = Page((EndAddr - 1) % AddrSpace) THEN EndAddr % PageSize ELSE PageSize

\* How far Read goes in the page of the address: to the end of the page, unless
\* the range ends in this page.
PageEnd == IF Page(reader.addr) = Page(EndAddr) THEN EndAddr % PageSize ELSE PageSize

\* No page that is missing or present has a slice that ends before it starts.
OutOfBounds == PageEnd < PageStart

Consume(n) == [addr |-> (reader.addr + n) % AddrSpace, count |-> reader.count - n]

\* A Read of io.Copy or io.ReadAll, which gives no more than the buffer holds.
Read(size) ==
    /\ at = "copy"
    /\ reader.count # 0
    /\ \/ /\ OutOfBounds
          /\ failed' = "range"
          /\ at' = "program"
          /\ UNCHANGED <<reader, copied>>
       \/ LET n == IF size <= PageEnd - PageStart THEN size ELSE PageEnd - PageStart
          IN  /\ ~OutOfBounds
              /\ copied' = [copied EXCEPT ![fd] = @ \o RangeBytes(reader.addr, n)]
              /\ reader' = Consume(n)
              /\ UNCHANGED <<at, failed>>
    /\ UNCHANGED <<fd, LastHint, hints, range, wrote, calls>>

\* The end of the range: the call returns the count it was given, after the loop
\* over the hints where the descriptor is theirs.
ReadEOF ==
    /\ at = "copy"
    /\ reader.count = 0
    /\ IF fd = HintWrite
       THEN /\ LastHint' = LastHint \o SubSeq(copied[fd], Len(copied[fd]) - range.count + 1,
                                              Len(copied[fd]))
            /\ at' = "hints"
       ELSE /\ at' = "program"
            /\ UNCHANGED LastHint
    /\ UNCHANGED <<fd, reader, copied, hints, failed, range, wrote, calls>>

\* The file behind stdout or stderr takes no more: the step panics.
CopyFails ==
    /\ at = "copy"
    /\ fd # HintWrite
    /\ failed' = "output"
    /\ at' = "program"
    /\ UNCHANGED <<fd, reader, copied, LastHint, hints, range, wrote, calls>>

-----------------------------------------------------------------------------
(* The hints.                                                              *)

\* The length in front of the buffered bytes, in big-endian order.
hintLen ==
    LET value[i \in 0..PrefixBytes] ==
            IF i = 0 THEN 0 ELSE value[i - 1] * ByteCount + LastHint[i]
    IN  value[PrefixBytes]

\* There are enough bytes to hold the length, and the hint.
Complete ==
    /\ Len(LastHint) >= PrefixBytes
    /\ hintLen <= (Len(LastHint) - PrefixBytes) % LenCount

HintEnd == (PrefixBytes + hintLen) % LenCount

\* A complete hint leaves LastHint and goes to the oracle; a hint so long that its
\* end wraps around has no slice.
GiveHint ==
    /\ at = "hints"
    /\ Complete
    /\ \/ /\ HintEnd >= PrefixBytes
          /\ hints' = Append(hints, SubSeq(LastHint, PrefixBytes + 1, HintEnd))
          /\ LastHint' = SubSeq(LastHint, HintEnd + 1, Len(LastHint))
          /\ UNCHANGED <<at, failed>>
       \/ /\ HintEnd < PrefixBytes
          /\ failed' = "hint"
          /\ at' = "program"
          /\ UNCHANGED <<LastHint, hints>>
    /\ UNCHANGED <<fd, reader, copied, range, wrote, calls>>

\* Mutant: what is incomplete is dropped.
StopHintsDropped ==
    /\ at = "hints"
    /\ ~Complete
    /\ at' = "program"
    /\ LastHint' = << >>
    /\ UNCHANGED <<fd, reader, copied, hints, failed, range, wrote, calls>>

\* What is incomplete waits for the next call.
StopHints ==
    /\ at = "hints"
    /\ ~Complete
    /\ at' = "program"
    /\ UNCHANGED <<fd, reader, copied, LastHint, hints, failed, range, wrote, calls>>

OutputNext ==
    \/ \E f \in FD, addr \in Addrs, count \in Counts : SysWrite(f, addr, count)
    \/ \E size \in DestSizes : Read(size)
    \/ ReadEOF
    \/ CopyFails
    \/ GiveHint
    \/ StopHints

OutputSpec == OutputInit /\ [][OutputNext]_outputVars

\* The instruction goes on until it is done.
FairOutputSpec ==
    /\ OutputSpec
    /\ WF_outputVars((\E size \in DestSizes : Read(size)) \/ ReadEOF \/ GiveHint \/ StopHints)

-----------------------------------------------------------------------------
(* Properties.                                                             *)

\* The range comes back, around the whole address space, to the page it starts in.
Laps == range.count > AddrSpace - PageSize

\* The bytes that come out are the ones of memory, in order: each stream is what
\* the program has written, but for the rest of a call under way, however pages,
\* buffers and the end of the address space cut the range; and unless the file
\* behind it fails, no write does, except of a range that laps the address space
\* or of a hint of 4 GiB.
OutputExact ==
    /\ \A f \in FD :
          IF at = "copy" /\ f = fd
          THEN copied[f] \o RangeBytes(reader.addr, reader.count) = wrote[f]
          ELSE failed \in {"range", "output"} \/ copied[f] = wrote[f]
    /\ failed = "range" => Laps
    /\ failed = "hint" => Len(LastHint) >= LenCount

\* The bytes of a length, and those of a hint with its length in front.
Prefix(n) == [i \in 1..PrefixBytes |-> (n \div ByteCount ^ (PrefixBytes - i)) % ByteCount]

Framed == [i \in DOMAIN hints |-> Prefix(Len(hints[i])) \o hints[i]]

\* Hints that the program writes in pieces, or several at once, reach the oracle
\* whole and in order: put back together with what is left in LastHint, they are
\* the bytes that were written, and between two instructions no complete hint is
\* left waiting while less than 4 GiB are buffered.
HintsWhole ==
    at = "program" /\ failed = "no" =>
        /\ FlattenSeq(Framed) \o LastHint = wrote[HintWrite]
        /\ Len(LastHint) \in PrefixBytes..(LenCount - 1) =>
              hintLen > Len(LastHint) - PrefixBytes

\* A write returns, or fails: neither the copying nor the loop over the hints, of
\* which some are empty, goes on for ever.
WriteReturns == at # "program" ~> at = "program"

=============================================================================
