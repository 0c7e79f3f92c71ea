------------------------------ MODULE AesdChar ------------------------------
(***************************************************************************)
(* The /dev/aesdchar driver (aesd-char-driver/main.c) used by concurrent   *)
(* processes.  A system call is split where another process can run: when  *)
(* it is entered, at the mutex, and at each call that may sleep (krealloc, *)
(* copy_from_user, copy_to_user).  The read and write system calls of the  *)
(* kernel hand the driver a copy of the file's position and store it back  *)
(* after the handler has returned; a character device has no lock for it.  *)
(***************************************************************************)
EXTENDS AesdCircularBuffer, SequencesExt

CONSTANTS
  Proc,        \* threads that make system calls
  File,        \* open files (struct file)
  FileOf,      \* FileOf[p]: the file p calls through
  Ops,         \* Ops[p]: the system calls p makes
  NewLine,     \* the byte that ends a command
  Chunk,       \* what one write is given
  Count,       \* how many bytes one read asks for
  Offset,      \* the offset argument of an llseek
  SeekTo,      \* the struct aesd_seekto arguments of an ioctl
  NoOne,       \* the holder of a free mutex
  NoRead,      \* no read since the file was opened or repositioned
  MaxAccepted, \* bound: bytes accepted by all the writes of a behaviour
  MaxLive      \* bound: memory blocks there may be when a write is called

ASSUME CharAssumption ==
  /\ FileOf \in [Proc -> File]
  /\ Ops \in [Proc -> SUBSET {"write", "read", "llseek", "ioctl"}]
  /\ NewLine \in Byte
  /\ Chunk \subseteq Seq(Byte)
  /\ Count \subseteq Nat
  /\ Offset \subseteq Int
  /\ SeekTo \subseteq [write_cmd : Nat, write_cmd_offset : Nat]
  /\ NoOne \notin Proc
  /\ MaxAccepted \in Nat /\ MaxLive \in Nat

VARIABLES
  loaded,   \* the module is in the kernel and its device registered
  opened,   \* the files that are open
  fpos,     \* filp->f_pos of each file
  buffer,   \* aesd_device.buffer
  entry,    \* aesd_device.entry: the bytes of the command being written
  room,     \* the bytes allocated at entry.buffptr, 0 if there are none
  live,     \* memory blocks allocated and not freed
  lock,     \* who holds aesd_device.lock
  pc,       \* where each process is
  call,     \* the call it makes, with its arguments
  pos,      \* the kernel's copy of the position, *f_pos in the handler
  found,    \* buffer_entry and entry_offset_byte_rtn of a read
  ret,      \* what the handler returns
  accepted, \* history: every byte a write took, in the order taken
  last      \* history: the last read through each file

device == <<buffer, entry, room, live>>
kernel == <<loaded, opened>>
vars   == <<kernel, fpos, device, lock, pc, call, pos, found, ret, accepted, last>>

EINVAL == 22
ENOTTY == 25
EFAULT == 14
ERESTARTSYS == 512

(* AESDCHAR_IOCSEEKTO with its struct aesd_seekto. *)
SeekToCalls == [op : {"ioctl"}, cmd : {"AESDCHAR_IOCSEEKTO"}, arg : SeekTo]

Calls ==
       [op : {"write"}, data : Chunk]
  \cup [op : {"read"}, count : Count]
  \cup [op : {"llseek"}, whence : {"SEEK_SET", "SEEK_CUR", "SEEK_END"}, offset : Offset]
  \cup SeekToCalls
  \cup [op : {"ioctl"}, cmd : {"another"}]

NoCall == [op |-> "none"]

InCall(f) == \E p \in Proc : FileOf[p] = f /\ pc[p] # "idle"

At(p, place, op) == pc[p] = place /\ call[p].op = op

Goto(p, place) == pc' = [pc EXCEPT ![p] = place]

Result(p, r) == ret' = [ret EXCEPT ![p] = r]

(* Whether n bytes of room are a block of memory: krealloc to 0 frees it. *)
Blocks(n) == IF n > 0 THEN 1 ELSE 0

(* History: how many bytes were accepted and are held no more. *)
Evicted == Len(accepted) - Len(entry) - Len(FlattenSeq(Window(buffer)))

(* The blocks the ring's entries point to. *)
RingBlocks(b) == Cardinality({i \in Slots : b.entry[i] # NoEntry})

Init ==
  /\ loaded = FALSE
  /\ opened = {}
  /\ fpos = [f \in File |-> 0]
  /\ buffer = EmptyBuffer
  /\ entry = NoEntry
  /\ room = 0
  /\ live = 0
  /\ lock = NoOne
  /\ pc = [p \in Proc |-> "idle"]
  /\ call = [p \in Proc |-> NoCall]
  /\ pos = [p \in Proc |-> 0]
  /\ found = [p \in Proc |-> NoSlot]
  /\ ret = [p \in Proc |-> 0]
  /\ accepted = << >>
  /\ last = [f \in File |-> NoRead]

-----------------------------------------------------------------------------
(* aesd_setup_cdev: the device is registered, unless cdev_add fails. *)
SetupCdev == loaded' \in BOOLEAN

(* aesd_init_module: the device structure is zeroed, then registered. *)
Load ==
  /\ ~loaded
  /\ SetupCdev
  /\ buffer' = EmptyBuffer
  /\ entry' = NoEntry
  /\ room' = 0
  /\ UNCHANGED <<opened, fpos, live, lock, pc, call, pos, found, ret, accepted, last>>

(* aesd_cleanup_module: only the entries of the ring are freed.  The       *)
(* kernel refuses to unload a module while one of its files is open.       *)
Unload ==
  /\ loaded /\ opened = {}
  /\ loaded' = FALSE
  /\ live' = live - RingBlocks(buffer)
  /\ UNCHANGED <<opened, fpos, buffer, entry, room, lock,
                 pc, call, pos, found, ret, accepted, last>>

(* aesd_open, on a new struct file whose position is 0. *)
Open(f) ==
  /\ loaded /\ f \notin opened
  /\ opened' = opened \cup {f}
  /\ UNCHANGED <<loaded, fpos, device, lock, pc, call, pos, found, ret, accepted, last>>

(* aesd_release, when the last reference to the struct file is gone. *)
Release(f) ==
  /\ f \in opened /\ ~InCall(f)
  /\ opened' = opened \ {f}
  /\ fpos' = [fpos EXCEPT ![f] = 0]
  /\ last' = [last EXCEPT ![f] = NoRead]
  /\ UNCHANGED <<loaded, device, lock, pc, call, pos, found, ret, accepted>>

-----------------------------------------------------------------------------
(* A system call enters the kernel.  read and write take a copy of the     *)
(* position and are refused there if it is negative (EINVAL, nothing done).*)
Call(p, c) ==
  /\ pc[p] = "idle" /\ FileOf[p] \in opened
  /\ c.op \in {"read", "write"} => fpos[FileOf[p]] >= 0
  /\ c.op = "write" => /\ Len(accepted) + Len(c.data) <= MaxAccepted
                       /\ live <= MaxLive
  /\ call' = [call EXCEPT ![p] = c]
  /\ pos' = [pos EXCEPT ![p] = fpos[FileOf[p]]]
  /\ Goto(p, "lock")
  /\ UNCHANGED <<kernel, fpos, device, lock, found, ret, accepted, last>>

(* Variation of Lock. *)
LockIgnored(p) ==
  /\ pc[p] = "lock"
  /\ lock' = p
  /\ Goto(p, "enter")
  /\ UNCHANGED <<kernel, fpos, device, call, pos, found, ret, accepted, last>>

(* mutex_lock_interruptible succeeds ... *)
Lock(p) ==
  /\ pc[p] = "lock" /\ lock = NoOne
  /\ lock' = p
  /\ Goto(p, "enter")
  /\ UNCHANGED <<kernel, fpos, device, call, pos, found, ret, accepted, last>>

(* ... or a signal ends the wait for a mutex that is taken. *)
Interrupted(p) ==
  /\ pc[p] = "lock" /\ lock # NoOne
  /\ Result(p, -ERESTARTSYS)
  /\ Goto(p, "return")
  /\ UNCHANGED <<kernel, fpos, device, lock, call, pos, found, accepted, last>>

(* Variation of NewRoom. *)
NewRoomOfChunk(p) == Len(call[p].data)

(* The size aesd_write asks krealloc for. *)
NewRoom(p) == Len(entry) + Len(call[p].data)

(* aesd_write grows the pending command's memory for all of the new bytes. *)
WriteRealloc(p) ==
  /\ At(p, "enter", "write")
  /\ room' = NewRoom(p)
  /\ live' = live - Blocks(room) + Blocks(room')
  /\ Goto(p, "copy")
  /\ UNCHANGED <<kernel, fpos, buffer, entry, lock, call, pos, found, ret, accepted, last>>

(* Variation of Pending. *)
PendingReplaced(p, n) == SubSeq(call[p].data, 1, n) \o SubSeq(entry, n + 1, Len(entry))

(* The bytes pending after n more bytes were copied from the user. *)
Pending(p, n) == entry \o SubSeq(call[p].data, 1, n)

(* Variation of Completes. *)
CompletesAtEnd(bytes) == bytes # << >> /\ Last(bytes) = NewLine

(* One newline anywhere completes the command. *)
Completes(bytes) == Contains(bytes, NewLine)

(* Variation of HandOver. *)
HandOverKeepsPointer(bytes) ==
  /\ buffer' = AddEntry(buffer, bytes)
  /\ entry' = NoEntry
  /\ UNCHANGED room

(* The whole pending entry goes to the ring, with its memory. *)
HandOver(bytes) ==
  /\ buffer' = AddEntry(buffer, bytes)
  /\ entry' = NoEntry
  /\ room' = 0

(* aesd_write appends what copy_from_user copied, which may be a part. *)
WriteCopy(p) ==
  /\ At(p, "copy", "write")
  /\ \E n \in 0 .. Len(call[p].data) :
       /\ accepted' = accepted \o SubSeq(call[p].data, 1, n)
       /\ Result(p, n)
       /\ \/ /\ Completes(Pending(p, n))
             /\ HandOver(Pending(p, n))
          \/ /\ ~Completes(Pending(p, n))
             /\ entry' = Pending(p, n)
             /\ UNCHANGED <<buffer, room>>
  /\ Goto(p, "exit")
  /\ UNCHANGED <<kernel, fpos, live, lock, call, pos, found, last>>

(* aesd_read looks its position up ... *)
ReadFind(p) ==
  /\ At(p, "enter", "read")
  /\ FindEntry(buffer, pos[p]) # NoSlot
  /\ found' = [found EXCEPT ![p] = FindEntry(buffer, pos[p])]
  /\ Goto(p, "copy")
  /\ UNCHANGED <<kernel, fpos, device, lock, call, pos, ret, accepted, last>>

(* Variation of ReadEnd. *)
ReadEndKeepsLock(p) ==
  /\ At(p, "enter", "read")
  /\ FindEntry(buffer, pos[p]) = NoSlot
  /\ pos' = [pos EXCEPT ![p] = 0]
  /\ last' = [last EXCEPT ![FileOf[p]] = NoRead]
  /\ Result(p, 0)
  /\ Goto(p, "return")
  /\ UNCHANGED <<kernel, fpos, device, lock, call, found, accepted>>

(* ... and starts again from 0 if there is nothing there. *)
ReadEnd(p) ==
  /\ At(p, "enter", "read")
  /\ FindEntry(buffer, pos[p]) = NoSlot
  /\ pos' = [pos EXCEPT ![p] = 0]
  /\ last' = [last EXCEPT ![FileOf[p]] = NoRead]
  /\ Result(p, 0)
  /\ Goto(p, "exit")
  /\ UNCHANGED <<kernel, fpos, device, lock, call, found, accepted>>

(* num_of_writes: never past the end of the entry, never more than asked. *)
NumOfWrites(p) ==
  Min({call[p].count, Len(buffer.entry[found[p].slot]) - found[p].offset})

(* Variation of Advance. *)
AdvanceInEntry(p, n) == pos' = [pos EXCEPT ![p] = found[p].offset + n]

(* *f_pos moves by what was copied. *)
Advance(p, n) == pos' = [pos EXCEPT ![p] = @ + n]

(* copy_to_user copies all of it or a part. *)
ReadCopy(p) ==
  /\ At(p, "copy", "read")
  /\ \E n \in 0 .. NumOfWrites(p) :
       /\ last' = [last EXCEPT ![FileOf[p]] =
                     [base  |-> Evicted,
                      from  |-> pos[p],
                      bytes |-> SubSeq(buffer.entry[found[p].slot],
                                       found[p].offset + 1, found[p].offset + n)]]
       /\ Advance(p, n)
       /\ Result(p, n)
  /\ Goto(p, "exit")
  /\ UNCHANGED <<kernel, fpos, device, lock, call, found, accepted>>

(* fixed_size_llseek: a target outside 0 .. size is refused, except that   *)
(* SEEK_CUR with offset 0 just reports the position.                       *)
FixedSizeLlseek(current, c, size) ==
  LET target == CASE c.whence = "SEEK_SET" -> c.offset
                  [] c.whence = "SEEK_CUR" -> current + c.offset
                  [] c.whence = "SEEK_END" -> size + c.offset
  IN  IF target \in 0 .. size \/ (c.whence = "SEEK_CUR" /\ c.offset = 0)
      THEN target
      ELSE -EINVAL

(* aesd_llseek stores the result in f_pos, the error code included. *)
Llseek(p) ==
  /\ At(p, "enter", "llseek")
  /\ LET file_pos == FixedSizeLlseek(fpos[FileOf[p]], call[p], buffer.total_size)
     IN  /\ fpos' = [fpos EXCEPT ![FileOf[p]] = file_pos]
         /\ Result(p, file_pos)
  /\ last' = [last EXCEPT ![FileOf[p]] = NoRead]
  /\ Goto(p, "exit")
  /\ UNCHANGED <<kernel, device, lock, call, pos, found, accepted>>

(* Variation of Seekable. *)
SeekableAtEnd(arg) ==
  arg.write_cmd \in Slots /\ arg.write_cmd_offset <= Len(buffer.entry[arg.write_cmd])

(* The checks of aesd_adjust_file_offset on the table slot write_cmd. *)
Seekable(arg) ==
  arg.write_cmd \in Slots /\ arg.write_cmd_offset < Len(buffer.entry[arg.write_cmd])

(* The position aesd_adjust_file_offset computes, in table order. *)
SeekPos(arg) == SizeBefore(buffer)[arg.write_cmd] + arg.write_cmd_offset

(* aesd_ioctl with AESDCHAR_IOCSEEKTO, its argument copied and valid. *)
IoctlSeek(p) ==
  /\ At(p, "enter", "ioctl")
  /\ call[p].cmd = "AESDCHAR_IOCSEEKTO"
  /\ Seekable(call[p].arg)
  /\ fpos' = [fpos EXCEPT ![FileOf[p]] = SeekPos(call[p].arg)]
  /\ last' = [last EXCEPT ![FileOf[p]] = NoRead]
  /\ Result(p, 0)
  /\ Goto(p, "exit")
  /\ UNCHANGED <<kernel, device, lock, call, pos, found, accepted>>

(* aesd_ioctl's other ways out; EFAULT is returned without its minus sign. *)
IoctlFail(p) ==
  /\ At(p, "enter", "ioctl")
  /\ \/ call[p].cmd = "another" /\ Result(p, -ENOTTY)
     \/ call[p].cmd = "AESDCHAR_IOCSEEKTO" /\ Result(p, EFAULT)
     \/ /\ call[p].cmd = "AESDCHAR_IOCSEEKTO"
        /\ ~Seekable(call[p].arg)
        /\ Result(p, -EINVAL)
  /\ Goto(p, "exit")
  /\ UNCHANGED <<kernel, fpos, device, lock, call, pos, found, accepted, last>>

(* mutex_unlock, at the one exit of every handler. *)
Unlock(p) ==
  /\ pc[p] = "exit"
  /\ lock' = NoOne
  /\ Goto(p, "return")
  /\ UNCHANGED <<kernel, fpos, device, call, pos, found, ret, accepted, last>>

(* Back in the kernel: read and write store the position unless they      *)
(* failed.  The locals of the call are gone.                               *)
Return(p) ==
  /\ pc[p] = "return"
  /\ fpos' = IF call[p].op \in {"read", "write"} /\ ret[p] >= 0
             THEN [fpos EXCEPT ![FileOf[p]] = pos[p]] ELSE fpos
  /\ call' = [call EXCEPT ![p] = NoCall]
  /\ pos' = [pos EXCEPT ![p] = 0]
  /\ found' = [found EXCEPT ![p] = NoSlot]
  /\ ret' = [ret EXCEPT ![p] = 0]
  /\ Goto(p, "idle")
  /\ UNCHANGED <<kernel, device, lock, accepted, last>>

-----------------------------------------------------------------------------
(* A handler between taking the mutex and giving it back. *)
Body(p) ==
  \/ WriteRealloc(p) \/ WriteCopy(p)
  \/ ReadFind(p) \/ ReadEnd(p) \/ ReadCopy(p)
  \/ Llseek(p)
  \/ IoctlSeek(p) \/ IoctlFail(p)

Next ==
  \/ Load \/ Unload
  \/ \E f \in File : Open(f) \/ Release(f)
  \/ \E p \in Proc :
       \/ \E c \in Calls : c.op \in Ops[p] /\ Call(p, c)
       \/ Lock(p) \/ Interrupted(p)
       \/ Body(p)
       \/ Unlock(p) \/ Return(p)

Spec == Init /\ [][Next]_vars

(* A process in a call is scheduled, and a kernel mutex is handed to a     *)
(* waiter that keeps losing it, so that taking it is strongly fair.        *)
FairSpec ==
  /\ Spec
  /\ \A p \in Proc : /\ WF_vars(Body(p) \/ Unlock(p) \/ Return(p))
                     /\ SF_vars(Lock(p))

-----------------------------------------------------------------------------
TypeOK ==
  /\ loaded \in BOOLEAN
  /\ opened \subseteq File
  /\ fpos \in [File -> Int]
  /\ buffer \in Buffer
  /\ entry \in Seq(Byte)
  /\ room \in Nat
  /\ live \in Int
  /\ lock \in Proc \cup {NoOne}
  /\ pc \in [Proc -> {"idle", "lock", "enter", "copy", "exit", "return"}]
  /\ call \in [Proc -> Calls \cup {NoCall}]
  /\ pos \in [Proc -> Int]
  /\ found \in [Proc -> [slot : Int, offset : Int]]
  /\ ret \in [Proc -> Int]
  /\ accepted \in Seq(Byte)

(***************************************************************************)
(* copy_from_user (main.c:387-391) writes count bytes behind the pending   *)
(* ones: they fit the block krealloc returned, although both calls may     *)
(* sleep and every writer shares dev->entry.                               *)
(***************************************************************************)
WriteFits ==
  \A p \in Proc : At(p, "copy", "write") => Len(entry) + Len(call[p].data) <= room

(***************************************************************************)
(* The entry aesd_read found (main.c:334-338) is still the one its         *)
(* position falls on while copy_to_user sleeps, so that the bytes it       *)
(* copies were neither freed nor moved by a writer.                        *)
(***************************************************************************)
FoundStays ==
  \A p \in Proc : At(p, "copy", "read") => found[p] = FindEntry(buffer, pos[p])

(***************************************************************************)
(* The ring holds complete commands only and the pending entry is never    *)
(* complete, however writes are cut, mixed and partly copied               *)
(* (main.c:396-403), and the ring's offsets agree with what it holds.      *)
(***************************************************************************)
CommandsComplete ==
  /\ ~Contains(entry, NewLine)
  /\ \A i \in Slots :
       buffer.entry[i] # NoEntry => Contains(buffer.entry[i], NewLine)
  /\ OffsetsAgree(buffer)

(***************************************************************************)
(* What the device holds is the tail of what the writers gave it: no byte  *)
(* is lost, doubled or out of order but those of the evicted commands.     *)
(***************************************************************************)
HoldsNewest == IsSuffix(FlattenSeq(Window(buffer)) \o entry, accepted)

(***************************************************************************)
(* Every pointer the driver still has, in the ring or in dev->entry, has a *)
(* block of memory of its own (main.c:380-384, 399-401, 479-481).          *)
(***************************************************************************)
PointersLive == loaded => RingBlocks(buffer) + Blocks(room) <= live

(***************************************************************************)
(* A file that one process uses is read forward: between two repositionings*)
(* no read gives a byte again that an earlier one gave, although positions *)
(* count from the oldest command held and writers evict commands.          *)
(***************************************************************************)
ReadsMoveForward ==
  [][\A p \in Proc :
       LET before == last[FileOf[p]]
           now    == last'[FileOf[p]]
       IN  At(p, "copy", "read") /\ pc'[p] = "exit" /\ before # NoRead
             => before.base + before.from + Len(before.bytes) <= now.base + now.from]_vars

SeekSucceeds(p) == At(p, "enter", "ioctl") /\ pc'[p] = "exit" /\ ret'[p] = 0

(* The byte the file's new position falls on. *)
SeekTarget(p) == FindEntry(buffer, fpos'[FileOf[p]])

(* The byte that was asked for. *)
SeekRequest(p) == [slot   |-> call[p].arg.write_cmd,
                   offset |-> call[p].arg.write_cmd_offset]

(***************************************************************************)
(* A successful AESDCHAR_IOCSEEKTO leaves the file at a byte that can be   *)
(* read, and at the one asked for as long as no command was evicted.       *)
(***************************************************************************)
SeekLands ==
  [][\A p \in Proc :
       SeekSucceeds(p) => /\ SeekTarget(p) # NoSlot
                          /\ buffer.out_offs = 0 => SeekTarget(p) = SeekRequest(p)]_vars

(***************************************************************************)
(* The driver implements the device whose writes and reads are atomic.     *)
(***************************************************************************)
Seen(f) == IF last[f] = NoRead THEN NoRead
           ELSE [from |-> last[f].from, bytes |-> last[f].bytes]

Device == INSTANCE CharDevice WITH
  window  <- Window(buffer),
  partial <- entry,
  last    <- [f \in File |-> Seen(f)],
  Data    <- UNION {Prefixes(c) : c \in Chunk}

ImplementsCharDevice == Device!Spec

(***************************************************************************)
(* Every system call on the device returns: no path out of a handler keeps *)
(* the mutex, and no process waits for it forever.                         *)
(***************************************************************************)
CallsReturn == \A p \in Proc : pc[p] # "idle" ~> pc[p] = "idle"

-----------------------------------------------------------------------------
(* main.c:144-146: "calculate the start offset to write_cmd / add length   *)
(* of each write between the output pointer and write_cmd / add            *)
(* write_cmd_offset".  Violated whether write_cmd counts table slots, as   *)
(* the checks of aesd_adjust_file_offset have it, or commands from the     *)
(* output pointer on.                                                      *)
SeekFromOutput ==
  [][\A p \in Proc :
       SeekSucceeds(p) =>
         LET arg == call[p].arg
         IN  SeekTarget(p) \in
               {SeekRequest(p), [slot   |-> SlotOf(buffer, arg.write_cmd + 1),
                                 offset |-> arg.write_cmd_offset]}]_vars
=============================================================================
