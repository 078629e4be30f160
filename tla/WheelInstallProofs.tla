------------------------- MODULE WheelInstallProofs -------------------------
(***************************************************************************)
(* WheelInstall, for any selectors, digests and size of a wheel: a         *)
(* selector that never shared the directory with a running one installs    *)
(* nothing but the wheel it selected, whatever its predecessors left and   *)
(* whatever the source sent.                                               *)
(*                                                                         *)
(* The argument is about inodes: such a selector fills an inode of its own,*)
(* which is not the final file before it was verified, and nobody else     *)
(* ever holds it: an inode is written to by the selector that made it, or  *)
(* it was made by a selector that overlapped with another.                 *)
(***************************************************************************)
EXTENDS WheelInstall, TLAPS

Unfinished == {"start", "verify", "clean", "open", "write", "hash", "replace"}
Filling == {"write", "hash", "replace"}
PastClean == {"open"} \cup Filling

Typed ==
    /\ digest \in [Selectors -> Digests \cup {None}]
    /\ \A s \in Selectors : pc[s] # "start" => digest[s] \in Digests
    /\ pc \in [Selectors -> Ended \cup Unfinished \cup {"install"}]
    /\ fd \in [Selectors -> Inodes \cup {None}]
    /\ pos \in [Selectors -> 1 .. Blocks + 1]
    /\ part \in Inodes \cup {None} /\ final \in Inodes \cup {None}
    /\ bytes \in [Inodes -> Bytes]
    /\ installed \in [Selectors -> Bytes]
    /\ overlapped \subseteq Selectors

(* Two selectors are live at once only if both are known to overlap.       *)
Turns == \A s, t \in Selectors : Live(s) /\ Live(t) /\ s # t => s \in overlapped

(* Whose inodes a selector that cleaned up can meet.                       *)
Strays ==
    \A s \in Selectors :
        /\ pc[s] \in PastClean => part \in {None, s} \cup overlapped
        /\ pc[s] = "write" => fd[s] \in {s} \cup overlapped
        /\ pc[s] # "write" => fd[s] = None
        /\ pc[s] = "install" => final # None

(* The inode a selector fills is its own, and is not the final file.       *)
OwnInode ==
    \A s \in Selectors \ overlapped :
        /\ pc[s] = "open" => part = None
        /\ pc[s] \in Filling => part = s
        /\ pc[s] = "write" => fd[s] = s
        /\ pc[s] \in Unfinished => final # s

Verified ==
    \A s \in Selectors \ overlapped :
        /\ pc[s] = "replace" => bytes[s] = Wheel(digest[s])
        /\ pc[s] = "install" => bytes[final] = Wheel(digest[s])

IInv == Typed /\ Turns /\ Strays /\ OwnInode /\ Verified /\ OnlyVerifiedWheels

-----------------------------------------------------------------------------
LEMMA WheelBytes ==
  ASSUME NEW content \in Digests \cup {Corrupt, Hole}
  PROVE  Wheel(content) \in Bytes
  BY DEF Wheel, Bytes

LEMMA InitIInv == Init => IInv
<1> SUFFICES ASSUME Init PROVE IInv
  OBVIOUS
<1> USE InstallAssumption
<1>1. Typed
  <2>1. bytes \in [Inodes -> Bytes]
    <3>1. PICK content \in Digests \cup {Corrupt} :
             bytes = [i \in Inodes |-> IF i = Old THEN Wheel(content) ELSE Wheel(Hole)]
      BY DEF Init
    <3>2. Wheel(content) \in Bytes /\ Wheel(Hole) \in Bytes
      BY WheelBytes
    <3>3. QED
      BY <3>1, <3>2
  <2>2. installed \in [Selectors -> Bytes]
    BY WheelBytes DEF Init
  <2>3. QED
    BY <2>1, <2>2 DEF Init, Typed, Ended, Unfinished, Inodes
<1>2. Turns /\ Strays /\ OwnInode /\ Verified
  BY DEF Init, Turns, Live, Strays, OwnInode, Verified, PastClean, Filling
<1>3. OnlyVerifiedWheels
  BY DEF Init, OnlyVerifiedWheels, InstalledIsSelected, FinalIsVerified
<1>4. QED
  BY <1>1, <1>2, <1>3 DEF IInv

(* What the step of one selector says of pc.                               *)
LEMMA GotoPc ==
  ASSUME Typed, NEW s \in Selectors, NEW from, NEW to, Goto(s, from, to)
  PROVE  /\ pc[s] = from /\ pc'[s] = to
         /\ \A t \in Selectors \ {s} : pc'[t] = pc[t]
  BY DEF Goto, Typed

(* A step of selector s after its start, which leaves alone what belongs   *)
(* to the others.                                                          *)
StepOf(s) ==
    /\ Live(s)
    /\ UNCHANGED <<digest, overlapped>>
    /\ \A t \in Selectors \ {s} :
          pc'[t] = pc[t] /\ fd'[t] = fd[t] /\ installed'[t] = installed[t]
    /\ part' \in {part, None, s}
    /\ final' \in {final, s} \cup overlapped

(* What s itself has to show after it ...                                  *)
StraysOf(s) ==
    /\ pc'[s] \in PastClean => part' \in {None, s} \cup overlapped
    /\ pc'[s] = "write" => fd'[s] \in {s} \cup overlapped
    /\ pc'[s] # "write" => fd'[s] = None
    /\ pc'[s] = "install" => final' # None

(* ... and what if it has never overlapped.                                *)
AloneOf(s) ==
    s \notin overlapped =>
        /\ pc'[s] = "open" => part' = None
        /\ pc'[s] \in Filling => part' = s
        /\ pc'[s] = "write" => fd'[s] = s
        /\ pc'[s] \in Unfinished => final' # s
        /\ pc'[s] = "replace" => bytes'[s] = Wheel(digest[s])
        /\ pc'[s] = "install" => bytes'[final'] = Wheel(digest[s])
        /\ pc'[s] = "done" => installed'[s] = Wheel(digest[s])

(* The invariant is then kept: another selector that never overlapped is   *)
(* not live, and owns nothing that s touches.                              *)
LEMMA Rebuild ==
  ASSUME IInv, NEW s \in Selectors, StepOf(s), Typed', StraysOf(s), AloneOf(s), FinalIsVerified'
  PROVE  IInv'
<1> USE InstallAssumption
<1>1. ASSUME NEW t \in Selectors \ {s}, t \notin overlapped
      PROVE  /\ pc'[t] = pc[t] /\ pc[t] \in Ended \cup {"start"}
             /\ pc[t] = "start" => final' # t
             /\ pc[t] = "done" => installed'[t] = Wheel(digest[t])
  <2>1. ~Live(t)
    BY <1>1 DEF IInv, Turns, StepOf
  <2>2. pc[t] \in Ended \cup {"start"}
    BY <2>1 DEF Live
  <2>3. pc[t] = "start" => final # t
    BY <1>1 DEF IInv, OwnInode, Unfinished
  <2>4. pc[t] = "done" => installed[t] = Wheel(digest[t])
    BY <1>1 DEF IInv, OnlyVerifiedWheels, InstalledIsSelected
  <2>5. QED
    BY <1>1, <2>2, <2>3, <2>4 DEF StepOf
<1>2. Turns'
  BY DEF IInv, Turns, Live, StepOf
<1>3. Strays'
  <2>1. ASSUME NEW t \in Selectors \ {s}
        PROVE  /\ pc'[t] \in PastClean => part' \in {None, t} \cup overlapped'
               /\ pc'[t] = "write" => fd'[t] \in {t} \cup overlapped'
               /\ pc'[t] # "write" => fd'[t] = None
               /\ pc'[t] = "install" => final' # None
    <3>1. pc'[t] = pc[t] /\ fd'[t] = fd[t] /\ overlapped' = overlapped
      BY <2>1 DEF StepOf
    <3>2. ASSUME pc[t] \in PastClean PROVE part' \in {None, t} \cup overlapped
      <4>1. Live(t)
        BY <3>2 DEF Live, PastClean, Filling, Ended
      <4>2. s \in overlapped
        BY <2>1, <4>1 DEF IInv, Turns, StepOf
      <4>3. part \in {None, t} \cup overlapped
        BY <2>1, <3>2 DEF IInv, Strays
      <4>4. QED
        BY <4>2, <4>3 DEF StepOf
    <3>3. pc[t] = "install" => final' # None
      BY <2>1 DEF IInv, Typed, Strays, StepOf
    <3>4. /\ pc[t] = "write" => fd[t] \in {t} \cup overlapped
          /\ pc[t] # "write" => fd[t] = None
      BY <2>1 DEF IInv, Strays
    <3>5. QED
      BY <3>1, <3>2, <3>3, <3>4
  <2>2. overlapped' = overlapped
    BY DEF StepOf
  <2>3. QED
    BY <2>1, <2>2 DEF Strays, StraysOf
<1>4. overlapped' = overlapped /\ digest' = digest
  BY DEF StepOf
<1>5. OwnInode'
  <2>1. ASSUME NEW t \in Selectors \ {s}, t \notin overlapped
        PROVE  /\ pc'[t] # "open" /\ pc'[t] \notin Filling
               /\ pc'[t] # "write"
               /\ pc'[t] \in Unfinished => final' # t
    BY <1>1, <2>1 DEF Ended, Filling, Unfinished
  <2>2. ASSUME s \notin overlapped
        PROVE  /\ pc'[s] = "open" => part' = None
               /\ pc'[s] \in Filling => part' = s
               /\ pc'[s] = "write" => fd'[s] = s
               /\ pc'[s] \in Unfinished => final' # s
    BY <2>2 DEF AloneOf
  <2>3. QED
    BY <1>4, <2>1, <2>2 DEF OwnInode
<1>6. Verified'
  BY <1>1, <1>4 DEF Verified, AloneOf, Ended
<1>7. InstalledIsSelected'
  BY <1>1, <1>4 DEF InstalledIsSelected, AloneOf
<1>8. QED
  BY <1>2, <1>3, <1>5, <1>6, <1>7 DEF IInv, OnlyVerifiedWheels

(* A final file that is left alone stays verified.                         *)
LEMMA FinalKept ==
  ASSUME FinalIsVerified, UNCHANGED <<digest, overlapped, final>>,
         final \in Selectors \ overlapped => bytes'[final] = bytes[final]
  PROVE  FinalIsVerified'
  BY DEF FinalIsVerified

(* What a selector in the middle of its download writes to is not the      *)
(* final file of one that never overlapped.                                *)
LEMMA NotFinal ==
  ASSUME IInv, NEW s \in Selectors, pc[s] \in Unfinished, NEW i \in {s} \cup overlapped,
         final \in Selectors \ overlapped
  PROVE  i # final
  BY DEF IInv, OwnInode

-----------------------------------------------------------------------------
(* A selector that starts while another is live overlaps with it.          *)
LEMMA StepResolve ==
  ASSUME NEW s \in Selectors
  PROVE  IInv /\ Resolve(s) => IInv'
<1> SUFFICES ASSUME IInv, Resolve(s) PROVE IInv'
  OBVIOUS
<1>1. PICK sha256 \in Digests, to \in {"verify", "clean", "refused"} :
         /\ Goto(s, "start", to)
         /\ digest' = [digest EXCEPT ![s] = sha256]
         /\ overlapped' \in {overlapped, overlapped \cup Overlap(s)}
         /\ to # "refused" => overlapped' = overlapped \cup Overlap(s)
         /\ UNCHANGED <<fd, pos, part, final, bytes, installed>>
  <2>1. PICK sha256 \in Digests, arguments \in Arguments :
         LET source == Source(arguments)
         IN  /\ Goto(s, "start", CASE source = "final" -> "verify"
                                   [] source = "copy" -> "clean"
                                   [] OTHER -> "refused")
             /\ digest' = [digest EXCEPT ![s] = sha256]
             /\ overlapped' = IF source = "refused" THEN overlapped
                              ELSE overlapped \cup Overlap(s)
             /\ UNCHANGED <<fd, pos, part, final, bytes, installed>>
    BY DEF Resolve
  <2>2. Source(arguments) \in {"final", "copy", "refused"}
    BY DEF Source
  <2>3. QED
    BY <2>1, <2>2
<1>2. /\ pc[s] = "start" /\ pc'[s] = to
      /\ \A t \in Selectors \ {s} : pc'[t] = pc[t]
  BY <1>1, GotoPc DEF IInv
<1>3. /\ overlapped \subseteq overlapped'
      /\ digest'[s] \in Digests
      /\ \A t \in Selectors \ {s} : digest'[t] = digest[t]
  BY <1>1 DEF IInv, Typed
<1>4. Typed'
  <2>1. overlapped' \subseteq Selectors
    BY <1>1 DEF IInv, Typed, Overlap
  <2>2. pc' \in [Selectors -> Ended \cup Unfinished \cup {"install"}]
    BY <1>1 DEF IInv, Typed, Goto, Ended, Unfinished
  <2>3. digest' \in [Selectors -> Digests \cup {None}]
    BY <1>1 DEF IInv, Typed
  <2>4. \A t \in Selectors : pc'[t] # "start" => digest'[t] \in Digests
    BY <1>2, <1>3 DEF IInv, Typed
  <2>5. QED
    BY <1>1, <2>1, <2>2, <2>3, <2>4 DEF IInv, Typed
<1>5. Turns'
  <2>1. SUFFICES ASSUME NEW u \in Selectors, NEW v \in Selectors, Live(u)', Live(v)', u # v
                 PROVE  u \in overlapped'
    BY DEF Turns
  <2>2. CASE u # s /\ v # s
    BY <1>2, <1>3, <2>1, <2>2 DEF IInv, Turns, Live
  <2>3. CASE u = s \/ v = s
    <3>1. to # "refused"
      BY <1>2, <2>1, <2>3 DEF Live, Ended
    <3>2. \E w \in {u, v} : w # s /\ Live(w)
      BY <1>2, <2>1, <2>3 DEF Live
    <3>3. {u, v} \subseteq Overlap(s)
      <4>1. PICK w \in {u, v} : w # s /\ Live(w)
        BY <3>2
      <4>2. {u, v} = {s, w}
        BY <2>1, <2>3, <4>1
      <4>3. w \in {t \in Selectors : Live(t)}
        BY <2>1, <4>1
      <4>4. QED
        BY <4>2, <4>3 DEF Overlap
    <3>4. QED
      BY <1>1, <3>1, <3>3
  <2>4. QED
    BY <2>2, <2>3
<1>6. Strays'
  BY <1>1, <1>2, <1>3 DEF IInv, Strays, PastClean, Filling
<1>7. OwnInode'
  BY <1>1, <1>2, <1>3 DEF IInv, OwnInode, Filling, Unfinished
<1>8. Verified'
  BY <1>1, <1>2, <1>3 DEF IInv, Verified
<1>9. InstalledIsSelected'
  BY <1>1, <1>2, <1>3 DEF IInv, OnlyVerifiedWheels, InstalledIsSelected
<1>10. FinalIsVerified'
  <2>1. s \notin overlapped => final # s
    BY <1>2 DEF IInv, OwnInode, Unfinished
  <2>2. QED
    BY <1>1, <1>3, <2>1 DEF IInv, OnlyVerifiedWheels, FinalIsVerified
<1>11. QED
  BY <1>4, <1>5, <1>6, <1>7, <1>8, <1>9, <1>10 DEF IInv, OnlyVerifiedWheels

LEMMA StepVerifyFinal ==
  ASSUME NEW s \in Selectors
  PROVE  IInv /\ VerifyFinal(s) => IInv'
<1> SUFFICES ASSUME IInv, VerifyFinal(s) PROVE IInv'
  OBVIOUS
<1> DEFINE ok == final # None /\ bytes[final] = Wheel(digest[s])
           to == IF ok THEN "install" ELSE "refused"
<1>1. /\ Goto(s, "verify", to)
      /\ UNCHANGED <<digest, overlapped, fd, pos, part, final, bytes, installed>>
  BY DEF VerifyFinal
<1>2. to \in {"install", "refused"} /\ (to = "install" => ok)
  OBVIOUS
<1> HIDE DEF to
<1>3. /\ pc[s] = "verify" /\ pc'[s] = to
      /\ \A t \in Selectors \ {s} : pc'[t] = pc[t]
  BY <1>1, GotoPc DEF IInv
<1>4. StepOf(s)
  BY <1>1, <1>3 DEF StepOf, Live, Ended
<1>5. Typed'
  BY <1>1, <1>2, <1>3 DEF IInv, Typed, Goto, Ended, Unfinished
<1>6. FinalIsVerified'
  BY <1>1, FinalKept DEF IInv, OnlyVerifiedWheels
<1>7. StraysOf(s)
  BY <1>1, <1>2, <1>3 DEF IInv, Strays, StraysOf, PastClean, Filling
<1>8. AloneOf(s)
  BY <1>1, <1>2, <1>3 DEF AloneOf, Filling, Unfinished
<1>9. QED
  BY <1>4, <1>5, <1>6, <1>7, <1>8, Rebuild

LEMMA StepClean ==
  ASSUME NEW s \in Selectors
  PROVE  IInv /\ Clean(s) => IInv'
<1> SUFFICES ASSUME IInv, Clean(s) PROVE IInv'
  OBVIOUS
<1>1. /\ Goto(s, "clean", "open") /\ part' = None
      /\ UNCHANGED <<digest, overlapped, fd, pos, final, bytes, installed>>
  BY DEF Clean
<1>2. /\ pc[s] = "clean" /\ pc'[s] = "open"
      /\ \A t \in Selectors \ {s} : pc'[t] = pc[t]
  BY <1>1, GotoPc DEF IInv
<1>3. StepOf(s)
  BY <1>1, <1>2 DEF StepOf, Live, Ended
<1>4. Typed'
  BY <1>1, <1>2 DEF IInv, Typed, Goto, Unfinished
<1>5. FinalIsVerified'
  BY <1>1, FinalKept DEF IInv, OnlyVerifiedWheels
<1>6. StraysOf(s)
  BY <1>1, <1>2 DEF IInv, Strays, StraysOf
<1>7. AloneOf(s)
  BY <1>1, <1>2 DEF IInv, OwnInode, AloneOf, Filling, Unfinished
<1>8. QED
  BY <1>3, <1>4, <1>5, <1>6, <1>7, Rebuild

LEMMA StepOpen ==
  ASSUME NEW s \in Selectors
  PROVE  IInv /\ Open(s) => IInv'
<1> SUFFICES ASSUME IInv, Open(s) PROVE IInv'
  OBVIOUS
<1> DEFINE inode == IF part = None THEN s ELSE part
<1>1. pc[s] = "open" /\ Goto(s, "open", "write")
  BY DEF Open, Goto
<1>2. inode \in {s} \cup overlapped /\ inode \in Selectors /\ inode \in {s, part}
  BY <1>1 DEF IInv, Typed, Strays, PastClean
<1>3. /\ fd' = [fd EXCEPT ![s] = inode] /\ part' = inode
      /\ bytes' = [bytes EXCEPT ![inode] = Wheel(Hole)]
      /\ UNCHANGED <<digest, overlapped, pos, final, installed>>
  BY DEF Open
<1>4. s \notin overlapped => inode = s /\ final # s
  BY <1>1 DEF IInv, OwnInode, Unfinished
<1> HIDE DEF inode
<1>5. /\ pc'[s] = "write"
      /\ \A t \in Selectors \ {s} : pc'[t] = pc[t]
  BY <1>1, GotoPc DEF IInv
<1>6. /\ fd'[s] = inode
      /\ \A t \in Selectors \ {s} : fd'[t] = fd[t]
  BY <1>3 DEF IInv, Typed
<1>7. StepOf(s)
  BY <1>1, <1>2, <1>3, <1>5, <1>6 DEF StepOf, Live, Ended
<1>8. Typed'
  BY <1>1, <1>2, <1>3, <1>5, WheelBytes DEF IInv, Typed, Goto, Unfinished, Inodes
<1>9. FinalIsVerified'
  <2>1. final \in Selectors \ overlapped => bytes'[final] = bytes[final]
    BY <1>1, <1>2, <1>3, NotFinal DEF IInv, Typed, Unfinished
  <2>2. QED
    BY <1>3, <2>1, FinalKept DEF IInv, OnlyVerifiedWheels
<1>10. StraysOf(s)
  BY <1>2, <1>3, <1>5, <1>6 DEF StraysOf
<1>11. AloneOf(s)
  BY <1>3, <1>4, <1>5, <1>6 DEF AloneOf
<1>12. QED
  BY <1>7, <1>8, <1>9, <1>10, <1>11, Rebuild

LEMMA StepWrite ==
  ASSUME NEW s \in Selectors
  PROVE  IInv /\ Write(s) => IInv'
<1> SUFFICES ASSUME IInv, Write(s) PROVE IInv'
  OBVIOUS
<1> USE InstallAssumption
<1>1. /\ pos[s] <= Blocks /\ Goto(s, "write", "write")
      /\ pos' = [pos EXCEPT ![s] = @ + 1]
      /\ UNCHANGED <<digest, overlapped, fd, part, final, installed>>
  BY DEF Write
<1>2. PICK block \in {digest[s], Corrupt} :
          bytes' = [bytes EXCEPT ![fd[s]][pos[s]] = block]
  BY DEF Write
<1>3. /\ pc[s] = "write" /\ pc'[s] = "write"
      /\ \A t \in Selectors \ {s} : pc'[t] = pc[t]
  BY <1>1, GotoPc DEF IInv
<1>4. fd[s] \in {s} \cup overlapped /\ fd[s] \in Selectors
  BY <1>3 DEF IInv, Typed, Strays
<1>5. bytes' = [bytes EXCEPT ![fd[s]] = [bytes[fd[s]] EXCEPT ![pos[s]] = block]]
  BY <1>2
<1>6. StepOf(s)
  BY <1>1, <1>3 DEF StepOf, Live, Ended
<1>7. Typed'
  <2>1. digest[s] \in Digests
    BY <1>3 DEF IInv, Typed
  <2>2. bytes[fd[s]] \in Bytes /\ fd[s] \in Inodes
    BY <1>4 DEF IInv, Typed, Inodes
  <2>3. [bytes[fd[s]] EXCEPT ![pos[s]] = block] \in Bytes
    BY <2>1, <2>2 DEF Bytes
  <2>4. bytes' \in [Inodes -> Bytes]
    BY <1>5, <2>2, <2>3 DEF IInv, Typed
  <2>5. pos' \in [Selectors -> 1 .. Blocks + 1]
    BY <1>1 DEF IInv, Typed
  <2>6. pc' \in [Selectors -> Ended \cup Unfinished \cup {"install"}]
    BY <1>1 DEF IInv, Typed, Goto, Unfinished
  <2>7. \A t \in Selectors : pc'[t] # "start" => digest'[t] \in Digests
    BY <1>1, <1>3 DEF IInv, Typed
  <2>8. QED
    BY <1>1, <2>4, <2>5, <2>6, <2>7 DEF IInv, Typed
<1>8. FinalIsVerified'
  <2>1. final \in Selectors \ overlapped => bytes'[final] = bytes[final]
    <3>1. final \in Selectors \ overlapped => fd[s] # final
      BY <1>3, <1>4, NotFinal DEF Unfinished
    <3>2. QED
      BY <1>5, <3>1 DEF IInv, Typed
  <2>2. QED
    BY <1>1, <2>1, FinalKept DEF IInv, OnlyVerifiedWheels
<1>9. StraysOf(s)
  BY <1>1, <1>3 DEF IInv, Strays, StraysOf, PastClean, Filling
<1>10. AloneOf(s)
  BY <1>1, <1>3 DEF IInv, OwnInode, AloneOf, Filling, Unfinished
<1>11. QED
  BY <1>6, <1>7, <1>8, <1>9, <1>10, Rebuild

LEMMA StepEof ==
  ASSUME NEW s \in Selectors
  PROVE  IInv /\ Eof(s) => IInv'
<1> SUFFICES ASSUME IInv, Eof(s) PROVE IInv'
  OBVIOUS
<1>1. /\ Goto(s, "write", "hash") /\ fd' = [fd EXCEPT ![s] = None]
      /\ UNCHANGED <<digest, overlapped, pos, part, final, bytes, installed>>
  BY DEF Eof
<1>2. /\ pc[s] = "write" /\ pc'[s] = "hash"
      /\ \A t \in Selectors \ {s} : pc'[t] = pc[t]
  BY <1>1, GotoPc DEF IInv
<1>3. /\ fd'[s] = None
      /\ \A t \in Selectors \ {s} : fd'[t] = fd[t]
  BY <1>1 DEF IInv, Typed
<1>4. StepOf(s)
  BY <1>1, <1>2, <1>3 DEF StepOf, Live, Ended
<1>5. Typed'
  BY <1>1, <1>2 DEF IInv, Typed, Goto, Unfinished
<1>6. FinalIsVerified'
  BY <1>1, FinalKept DEF IInv, OnlyVerifiedWheels
<1>7. StraysOf(s)
  BY <1>1, <1>2, <1>3 DEF IInv, Strays, StraysOf, PastClean, Filling
<1>8. AloneOf(s)
  BY <1>1, <1>2 DEF IInv, OwnInode, AloneOf, Filling, Unfinished
<1>9. QED
  BY <1>4, <1>5, <1>6, <1>7, <1>8, Rebuild

LEMMA StepHash ==
  ASSUME NEW s \in Selectors
  PROVE  IInv /\ Hash(s) => IInv'
<1> SUFFICES ASSUME IInv, Hash(s) PROVE IInv'
  OBVIOUS
<1> DEFINE ok == part # None /\ bytes[part] = Wheel(digest[s])
           to == IF ok THEN "replace" ELSE "refused"
<1>1. /\ Goto(s, "hash", to) /\ part' = IF ok THEN part ELSE None
      /\ UNCHANGED <<digest, overlapped, fd, pos, final, bytes, installed>>
  BY DEF Hash
<1>2. to \in {"replace", "refused"} /\ (to = "replace" => ok /\ part' = part)
  BY <1>1
<1>3. part' \in {part, None}
  BY <1>1
<1> HIDE DEF to
<1>4. /\ pc[s] = "hash" /\ pc'[s] = to
      /\ \A t \in Selectors \ {s} : pc'[t] = pc[t]
  BY <1>1, GotoPc DEF IInv
<1>5. StepOf(s)
  BY <1>1, <1>3, <1>4 DEF StepOf, Live, Ended
<1>6. Typed'
  BY <1>1, <1>2, <1>3, <1>4 DEF IInv, Typed, Goto, Ended, Unfinished
<1>7. FinalIsVerified'
  BY <1>1, FinalKept DEF IInv, OnlyVerifiedWheels
<1>8. StraysOf(s)
  BY <1>1, <1>2, <1>3, <1>4 DEF IInv, Strays, StraysOf, PastClean, Filling
<1>9. AloneOf(s)
  <2>1. s \notin overlapped => part = s /\ final # s
    BY <1>4 DEF IInv, OwnInode, Filling, Unfinished
  <2>2. QED
    BY <1>1, <1>2, <1>4, <2>1 DEF AloneOf, Filling, Unfinished
<1>10. QED
  BY <1>5, <1>6, <1>7, <1>8, <1>9, Rebuild

LEMMA StepReplace ==
  ASSUME NEW s \in Selectors
  PROVE  IInv /\ Replace(s) => IInv'
<1> SUFFICES ASSUME IInv, Replace(s) PROVE IInv'
  OBVIOUS
<1> USE InstallAssumption
<1> DEFINE to == IF part = None THEN "refused" ELSE "install"
<1>1. /\ Goto(s, "replace", to) /\ part' = None
      /\ final' = IF part = None THEN final ELSE part
      /\ UNCHANGED <<digest, overlapped, fd, pos, bytes, installed>>
  BY DEF Replace
<1>2. to \in {"refused", "install"} /\ (to = "install" => part # None /\ final' = part)
  BY <1>1
<1> HIDE DEF to
<1>3. /\ pc[s] = "replace" /\ pc'[s] = to
      /\ \A t \in Selectors \ {s} : pc'[t] = pc[t]
  BY <1>1, GotoPc DEF IInv
<1>4. part \in {None, s} \cup overlapped
  BY <1>3 DEF IInv, Strays, PastClean, Filling
<1>5. s \notin overlapped => part = s /\ bytes[s] = Wheel(digest[s])
  BY <1>3 DEF IInv, OwnInode, Verified, Filling
<1>6. final' \in {final, s} \cup overlapped
  BY <1>1, <1>4
<1>7. StepOf(s)
  BY <1>1, <1>3, <1>6 DEF StepOf, Live, Ended
<1>8. Typed'
  <2>1. final' \in Inodes \cup {None}
    BY <1>1 DEF IInv, Typed
  <2>2. QED
    BY <1>1, <1>2, <1>3, <2>1 DEF IInv, Typed, Goto, Ended, Unfinished
<1>9. FinalIsVerified'
  <2>1. CASE part = None
    BY <1>1, <2>1, FinalKept DEF IInv, OnlyVerifiedWheels
  <2>2. CASE part # None
    BY <1>1, <1>4, <1>5, <2>2 DEF FinalIsVerified
  <2>3. QED
    BY <2>1, <2>2
<1>10. StraysOf(s)
  BY <1>1, <1>2, <1>3 DEF IInv, Strays, StraysOf, PastClean, Filling
<1>11. AloneOf(s)
  BY <1>1, <1>2, <1>3, <1>5 DEF AloneOf, Filling, Unfinished
<1>12. QED
  BY <1>7, <1>8, <1>9, <1>10, <1>11, Rebuild

LEMMA StepInstall ==
  ASSUME NEW s \in Selectors
  PROVE  IInv /\ Install(s) => IInv'
<1> SUFFICES ASSUME IInv, Install(s) PROVE IInv'
  OBVIOUS
<1>1. /\ Goto(s, "install", "done")
      /\ installed' = [installed EXCEPT ![s] = bytes[final]]
      /\ UNCHANGED <<digest, overlapped, fd, pos, part, final, bytes>>
  BY DEF Install
<1>2. /\ pc[s] = "install" /\ pc'[s] = "done"
      /\ \A t \in Selectors \ {s} : pc'[t] = pc[t]
  BY <1>1, GotoPc DEF IInv
<1>3. final \in Inodes
  BY <1>2 DEF IInv, Typed, Strays
<1>4. /\ installed'[s] = bytes[final]
      /\ \A t \in Selectors \ {s} : installed'[t] = installed[t]
  BY <1>1 DEF IInv, Typed
<1>5. StepOf(s)
  BY <1>1, <1>2, <1>4 DEF StepOf, Live, Ended
<1>6. Typed'
  BY <1>1, <1>2, <1>3 DEF IInv, Typed, Goto, Ended
<1>7. FinalIsVerified'
  BY <1>1, FinalKept DEF IInv, OnlyVerifiedWheels
<1>8. StraysOf(s)
  BY <1>1, <1>2 DEF IInv, Strays, StraysOf, PastClean, Filling
<1>9. AloneOf(s)
  BY <1>2, <1>4 DEF IInv, Verified, AloneOf, Filling, Unfinished
<1>10. QED
  BY <1>5, <1>6, <1>7, <1>8, <1>9, Rebuild

LEMMA StepDie ==
  ASSUME NEW s \in Selectors
  PROVE  IInv /\ Die(s) => IInv'
<1> SUFFICES ASSUME IInv, Die(s) PROVE IInv'
  OBVIOUS
<1>1. /\ Live(s) /\ pc' = [pc EXCEPT ![s] = "died"] /\ fd' = [fd EXCEPT ![s] = None]
      /\ UNCHANGED <<digest, overlapped, pos, part, final, bytes, installed>>
  BY DEF Die
<1>2. /\ pc'[s] = "died" /\ fd'[s] = None
      /\ \A t \in Selectors \ {s} : pc'[t] = pc[t] /\ fd'[t] = fd[t]
  BY <1>1 DEF IInv, Typed
<1>3. StepOf(s)
  BY <1>1, <1>2 DEF StepOf
<1>4. Typed'
  BY <1>1, <1>2 DEF IInv, Typed, Ended, Live
<1>5. FinalIsVerified'
  BY <1>1, FinalKept DEF IInv, OnlyVerifiedWheels
<1>6. StraysOf(s) /\ AloneOf(s)
  BY <1>2 DEF StraysOf, AloneOf, PastClean, Filling, Unfinished
<1>7. QED
  BY <1>3, <1>4, <1>5, <1>6, Rebuild

LEMMA StepIInv == IInv /\ [Next]_vars => IInv'
<1> SUFFICES ASSUME IInv, [Next]_vars PROVE IInv'
  OBVIOUS
<1>1. CASE UNCHANGED vars
  BY <1>1 DEF vars, IInv, Typed, Turns, Live, Strays, OwnInode, Verified, OnlyVerifiedWheels,
              InstalledIsSelected, FinalIsVerified
<1>2. CASE Next
  BY <1>2, StepResolve, StepVerifyFinal, StepClean, StepOpen, StepWrite, StepEof,
     StepHash, StepReplace, StepInstall, StepDie DEF Next
<1>3. QED
  BY <1>1, <1>2

LEMMA AlwaysIInv == Spec => []IInv
  BY InitIInv, StepIInv, PTL DEF Spec

-----------------------------------------------------------------------------
(* Selectors, overlapping or not, keep every variable's type; a descriptor *)
(* is open exactly while its selector writes (materialize_asset).          *)
THEOREM TypeCorrect == Spec => []TypeOK
<1>1. IInv => TypeOK
  <2> SUFFICES ASSUME IInv PROVE TypeOK
    OBVIOUS
  <2>1. \A s \in Selectors : pc[s] = "write" <=> fd[s] # None
    <3>1. SUFFICES ASSUME NEW s \in Selectors PROVE pc[s] = "write" <=> fd[s] # None
      OBVIOUS
    <3>2. {s} \cup overlapped \subseteq Selectors /\ None \notin Selectors
      BY InstallAssumption DEF IInv, Typed
    <3>3. /\ pc[s] = "write" => fd[s] \in {s} \cup overlapped
          /\ pc[s] # "write" => fd[s] = None
      BY DEF IInv, Strays
    <3>4. QED
      BY <3>2, <3>3
  <2>2. QED
    BY <2>1 DEF IInv, Typed, Unfinished, TypeOK
<1>2. QED
  BY <1>1, AlwaysIInv, PTL

(* Neither pip nor the next selector meets an unverified download, but for *)
(* selectors that had the directory at the same time (materialize_asset    *)
(* gives all of them the same temporary name).                             *)
THEOREM VerifiedTheorem == Spec => []OnlyVerifiedWheels
<1>1. IInv => OnlyVerifiedWheels
  BY DEF IInv
<1>2. QED
  BY <1>1, AlwaysIInv, PTL

=============================================================================
