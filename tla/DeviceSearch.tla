---------------------------- MODULE DeviceSearch ----------------------------
(***************************************************************************)
(* How the drivers look for the F1 among /dev/hidraw0, /dev/hidraw1, ...:  *)
(* discover_device() in driver/src/main.cpp with HidDevice and             *)
(* FileDescriptor, and the loop at the start of main() in                  *)
(* driver-osc/src/exe/osc_driver.cpp, with a bare descriptor.              *)
(*                                                                         *)
(* What each path is, is up to the system.  So is whether a close works: a *)
(* failed one throws out of a destructor.                                  *)
(***************************************************************************)
EXTENDS Integers, FiniteSets, FiniteSetsExt

CONSTANTS Paths,                  \* how many hidraw paths the system can have
          MAX_HIDRAW_DEVICE_IDX   \* paths driver tries (100)

ASSUME PathsAssumption == Paths \in Nat /\ MAX_HIDRAW_DEVICE_IDX \in Nat

VARIABLES
  program,   \* which of the two searches
  kind,      \* what each path is
  i,         \* the index of the path being tried
  table,     \* the open descriptors of the process, and the path of each
  fd,        \* the descriptor in hid_dev, or in driver-osc's local variable
  dev,       \* the one in the F1Device, or the F1HidDev
  pc         \* where the search is, and how it ended

vars == <<program, kind, i, table, fd, dev, pc>>

(* A path can be the F1, another device of its maker, one that fails to    *)
(* answer the ioctl, one that open() refuses, or nothing at all.           *)
Kind == {"f1", "sibling", "mute", "EACCES", "EPERM", "ENOENT"}
KindOf(p) == IF p < Paths THEN kind[p] ELSE "ENOENT"
Opens(p) == KindOf(p) \in {"f1", "sibling", "mute"}

(* open() returns the lowest number that is free.                          *)
None == -1
FreeFd == Min((3 .. 3 + Cardinality(DOMAIN table)) \ DOMAIN table)
Opened(f, p) == [g \in DOMAIN table \cup {f} |-> IF g = f THEN p ELSE table[g]]
Closed(f) == [g \in DOMAIN table \ {f} |-> table[g]]

Init == /\ program \in {"driver", "driver-osc"}
        /\ kind \in [0 .. Paths - 1 -> Kind]
        /\ i = 0
        /\ table = [f \in {} |-> None]
        /\ fd = None /\ dev = None
        /\ pc = "try"

In(p, label) == program = p /\ pc = label

(* A variant that tries one path too many.                                 *)
HasNextInclusive == i <= MAX_HIDRAW_DEVICE_IDX

HasNext == i < MAX_HIDRAW_DEVICE_IDX

-----------------------------------------------------------------------------
(* A variant that looks at the maker only.                                 *)
IsF1Vendor(p) == KindOf(p) \in {"f1", "sibling"}

(* F1Device::is_f1_device(), and the same comparison in driver-osc.        *)
IsF1(p) == KindOf(p) = "f1"

(* A variant that knows one of the two refusals.                           *)
IsDeniedAccess(p) == KindOf(p) = "EACCES"

(* HidDevice::HidDevice(): what is PermissionDenied, and what an error.    *)
IsDenied(p) == KindOf(p) \in {"EPERM", "EACCES"}

(* A variant that tries the same path again.                               *)
PathDeniedAgain == /\ In("driver", "try") /\ HasNext
                   /\ IsDenied(i)
                   /\ UNCHANGED vars

PathDenied == /\ In("driver", "try") /\ HasNext
              /\ IsDenied(i)
              /\ i' = i + 1
              /\ UNCHANGED <<program, kind, table, fd, dev, pc>>

(* Any other HidDeviceError of the constructor ends the loop.              *)
PathFails == /\ In("driver", "try") /\ HasNext
             /\ ~Opens(i) /\ ~IsDenied(i)
             /\ pc' = "none"
             /\ UNCHANGED <<program, kind, i, table, fd, dev>>

PathsExhausted == /\ In("driver", "try") /\ ~HasNext
                  /\ pc' = "none"
                  /\ UNCHANGED <<program, kind, i, table, fd, dev>>

PathOpens == /\ In("driver", "try") /\ HasNext
             /\ Opens(i)
             /\ fd' = FreeFd
             /\ table' = Opened(FreeFd, i)
             /\ pc' = "opened"
             /\ UNCHANGED <<program, kind, i, dev>>

(* A variant whose move constructor leaves the descriptor behind.          *)
MatchKept == /\ In("driver", "opened") /\ IsF1(i)
             /\ dev' = fd
             /\ pc' = "leave found"
             /\ UNCHANGED <<program, kind, i, table, fd>>

(* devinfo() names the F1: make_unique<F1Device>(std::move(hid_dev)).      *)
Match == /\ In("driver", "opened") /\ IsF1(i)
         /\ dev' = fd
         /\ fd' = None
         /\ pc' = "leave found"
         /\ UNCHANGED <<program, kind, i, table>>

(* Another device; or devinfo() throws, which is a HidDeviceError too.     *)
NoMatch == /\ In("driver", "opened") /\ ~IsF1(i)
           /\ pc' = IF KindOf(i) = "mute" THEN "leave none" ELSE "leave try"
           /\ UNCHANGED <<program, kind, i, table, fd, dev>>

Leaving == program = "driver" /\ pc \in {"leave found", "leave none", "leave try"}

(* The scope of hid_dev ends, and ~FileDescriptor() closes what it holds.  *)
Leave == /\ Leaving
         /\ fd' = None
         /\ table' = IF fd = None THEN table ELSE Closed(fd)
         /\ pc' = CASE pc = "leave found" -> "found"
                    [] pc = "leave none" -> "none"
                    [] pc = "leave try" -> "try"
         /\ i' = IF pc = "leave try" THEN i + 1 ELSE i
         /\ UNCHANGED <<program, kind, dev>>

(* The close fails, and nobody catches a std::system_error.                *)
CloseFails == /\ Leaving /\ fd # None
              /\ pc' = "terminated"
              /\ UNCHANGED <<program, kind, i, table, fd, dev>>

Driver == PathDenied \/ PathFails \/ PathsExhausted \/ PathOpens
          \/ Match \/ NoMatch \/ Leave \/ CloseFails

-----------------------------------------------------------------------------
(* driver-osc: EACCES goes on, any other failure returns.                  *)
OscPathRefused == /\ In("driver-osc", "try") /\ ~Opens(i)
                  /\ IF KindOf(i) = "EACCES" THEN i' = i + 1 /\ UNCHANGED pc
                                             ELSE pc' = "none" /\ UNCHANGED i
                  /\ UNCHANGED <<program, kind, table, fd, dev>>

OscPathOpens == /\ In("driver-osc", "try") /\ Opens(i)
                /\ fd' = FreeFd
                /\ table' = Opened(FreeFd, i)
                /\ pc' = "opened"
                /\ UNCHANGED <<program, kind, i, dev>>

(* The ioctl fails: main() returns.                                        *)
OscMute == /\ In("driver-osc", "opened") /\ KindOf(i) = "mute"
           /\ pc' = "none"
           /\ UNCHANGED <<program, kind, i, table, fd, dev>>

(* exec_driver(fd, ...) makes the F1HidDev, which does not own it.         *)
OscMatch == /\ In("driver-osc", "opened") /\ IsF1(i)
            /\ dev' = fd
            /\ fd' = None
            /\ pc' = "found"
            /\ UNCHANGED <<program, kind, i, table>>

(* Whether close() works is not looked at; Linux frees the number anyway.  *)
OscMismatch == /\ In("driver-osc", "opened") /\ KindOf(i) # "mute" /\ ~IsF1(i)
               /\ table' = Closed(fd)
               /\ fd' = None
               /\ i' = i + 1
               /\ pc' = "try"
               /\ UNCHANGED <<program, kind, dev>>

Osc == OscPathRefused \/ OscPathOpens \/ OscMute \/ OscMatch \/ OscMismatch

Next == Driver \/ Osc

Spec == Init /\ [][Next]_vars /\ WF_vars(Next)

-----------------------------------------------------------------------------
Ended == {"found", "none", "terminated"}

(* Types; two descriptors are enough, and the driver keeps to its limit.   *)
TypeOK == /\ i \in 0 .. IF program = "driver" THEN MAX_HIDRAW_DEVICE_IDX ELSE Paths
          /\ DOMAIN table \subseteq 3 .. 4
          /\ fd \in {None, 3, 4} /\ dev \in {None, 3, 4}
          /\ pc \in Ended \cup {"try", "opened", "leave found", "leave none", "leave try"}

(* Each open descriptor has one owner, and each owner's descriptor is      *)
(* open, through every move, early exit and exception: nothing leaks from  *)
(* one path to the next, and what the F1Device holds is not closed behind  *)
(* its back.                                                               *)
OneOwner == /\ DOMAIN table = {fd, dev} \ {None}
            /\ fd = dev => fd = None
            /\ pc = "try" => fd = None

(* The search ends on the first F1 that is not hidden from it, and holds   *)
(* that device open and no other.                                          *)
FindsTheFirst ==
  pc = "found" => /\ dev # None
                  /\ table = [f \in {dev} |-> i]
                  /\ KindOf(i) = "f1" /\ \A p \in 0 .. i - 1 : KindOf(p) # "f1"

(* The paths that end each search: a refusal is no reason to stop, but     *)
(* driver-osc takes EPERM for a failure.                                   *)
Obstacle(p) == \/ KindOf(p) \in {"mute", "ENOENT"}
               \/ program = "driver-osc" /\ KindOf(p) = "EPERM"

(* A search that finds nothing has missed an F1 behind an obstacle only,   *)
(* or past the last path it tries.                                         *)
MissesBehindObstacles ==
  pc = "none" => \A p \in 0 .. Paths - 1 :
    KindOf(p) = "f1" => \/ \E q \in 0 .. p - 1 : Obstacle(q)
                        \/ (program = "driver" /\ p >= MAX_HIDRAW_DEVICE_IDX)

(* Every search ends, the unbounded one of driver-osc too.                 *)
SearchEnds == <>(pc \in Ended)
=============================================================================
