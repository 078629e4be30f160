---------------------------- MODULE WheelInstall ----------------------------
(***************************************************************************)
(* scripts/select-wheel.py --download-dir --install, once the artifact is  *)
(* chosen: materialize_asset writes the wheel to a hidden ".part" file,    *)
(* verifies its digest, renames it over its final name, and pip installs   *)
(* that name.  Selectors share the directory: a selector may die and be    *)
(* run again over what it left, and nothing stops two from running at      *)
(* once.  A file is an inode; names and open descriptors refer to inodes.  *)
(***************************************************************************)
EXTENDS Naturals

CONSTANTS Selectors, Digests,   \* what the same asset name may stand for
          Blocks,               \* of a wheel
          Old, None,            \* an inode from before; no inode
          Corrupt, Hole         \* a block with other bytes; no bytes yet

ASSUME InstallAssumption ==
    /\ Blocks \in Nat \ {0}
    /\ Old \notin Selectors /\ None \notin Selectors \cup {Old}

Inodes == Selectors \cup {Old}
Bytes == [1 .. Blocks -> Digests \cup {Corrupt, Hole}]
Wheel(content) == [i \in 1 .. Blocks |-> content]
Arguments == [url : {"none", "https", "unsafe"}, beside : BOOLEAN,
              base : {"unsafe", "https"}]

VARIABLES digest,     \* artifact["sha256"] of each selector, None before it starts
          pc, fd, pos, \* of each selector
          part, final, \* the inodes of the two names
          bytes,      \* [Inodes -> Bytes]
          installed,  \* [Selectors -> what pip installed]
          overlapped  \* history: the selectors that were live together with another

vars == <<digest, pc, fd, pos, part, final, bytes, installed, overlapped>>

Ended == {"done", "refused", "died"}
Live(s) == pc[s] \notin Ended \cup {"start"}

Init ==
    /\ digest = [s \in Selectors |-> None]
    /\ pc = [s \in Selectors |-> "start"]
    /\ fd = [s \in Selectors |-> None]
    /\ pos = [s \in Selectors |-> 1]
    /\ part = None /\ final \in {None, Old}
    /\ \E content \in Digests \cup {Corrupt} :
          bytes = [i \in Inodes |-> IF i = Old THEN Wheel(content) ELSE Wheel(Hole)]
    /\ installed = [s \in Selectors |-> Wheel(Hole)]
    /\ overlapped = {}

Goto(s, from, to) == pc[s] = from /\ pc' = [pc EXCEPT ![s] = to]

-----------------------------------------------------------------------------
(* resolve_asset: a URL in the manifest, a wheel beside the manifest, or   *)
(* the base URL.  A wheel beside a manifest kept in the download directory *)
(* is the final file itself.                                               *)
Source(arguments) ==
    CASE arguments.url = "https" -> "copy"
      [] arguments.url = "unsafe" -> "refused"
      [] arguments.url = "none" /\ arguments.beside /\ final # None -> "final"
      [] OTHER -> IF arguments.base = "https" THEN "copy" ELSE "refused"

\* The selectors s is live together with from now on, and s itself if there are any.
Overlap(s) ==
    LET others == {t \in Selectors : Live(t)}
    IN  IF others = {} THEN {} ELSE others \cup {s}

Resolve(s) == \E sha256 \in Digests, arguments \in Arguments :
    LET source == Source(arguments)
    IN  /\ Goto(s, "start", CASE source = "final" -> "verify"
                              [] source = "copy" -> "clean"
                              [] OTHER -> "refused")
        /\ digest' = [digest EXCEPT ![s] = sha256]
        /\ overlapped' = IF source = "refused" THEN overlapped
                         ELSE overlapped \cup Overlap(s)
        /\ UNCHANGED <<fd, pos, part, final, bytes, installed>>

(* The file is already where it should be.                                 *)
\* Mutant of VerifyFinal: a wheel already in place is taken as it is.
TrustFinal(s) ==
    /\ Goto(s, "verify", IF final # None THEN "install" ELSE "refused")
    /\ UNCHANGED <<digest, overlapped, fd, pos, part, final, bytes, installed>>
VerifyFinal(s) ==
    /\ Goto(s, "verify", IF final # None /\ bytes[final] = Wheel(digest[s])
                         THEN "install" ELSE "refused")
    /\ UNCHANGED <<digest, overlapped, fd, pos, part, final, bytes, installed>>

Clean(s) ==
    /\ Goto(s, "clean", "open")
    /\ part' = None
    /\ UNCHANGED <<digest, overlapped, fd, pos, final, bytes, installed>>

(* open "wb": a new inode, or the existing one cut to nothing.             *)
Open(s) ==
    LET inode == IF part = None THEN s ELSE part
    IN  /\ Goto(s, "open", "write")
        /\ fd' = [fd EXCEPT ![s] = inode]
        /\ part' = inode
        /\ bytes' = [bytes EXCEPT ![inode] = Wheel(Hole)]
        /\ UNCHANGED <<digest, overlapped, pos, final, installed>>

(* The source may deliver other bytes, or too few; a redirect away from    *)
(* HTTPS is a source that delivers nothing.                                *)
Write(s) ==
    /\ pos[s] <= Blocks
    /\ Goto(s, "write", "write")
    /\ \E block \in {digest[s], Corrupt} :
          bytes' = [bytes EXCEPT ![fd[s]][pos[s]] = block]
    /\ pos' = [pos EXCEPT ![s] = @ + 1]
    /\ UNCHANGED <<digest, overlapped, fd, part, final, installed>>

Eof(s) ==
    /\ Goto(s, "write", "hash")
    /\ fd' = [fd EXCEPT ![s] = None]
    /\ UNCHANGED <<digest, overlapped, pos, part, final, bytes, installed>>

(* The digest is that of the file the name refers to now.                  *)
Hash(s) ==
    LET ok == part # None /\ bytes[part] = Wheel(digest[s])
    IN  /\ Goto(s, "hash", IF ok THEN "replace" ELSE "refused")
        /\ part' = IF ok THEN part ELSE None
        /\ UNCHANGED <<digest, overlapped, fd, pos, final, bytes, installed>>

Replace(s) ==
    /\ Goto(s, "replace", IF part = None THEN "refused" ELSE "install")
    /\ final' = IF part = None THEN final ELSE part
    /\ part' = None
    /\ UNCHANGED <<digest, overlapped, fd, pos, bytes, installed>>

Install(s) ==
    /\ Goto(s, "install", "done")
    /\ installed' = [installed EXCEPT ![s] = bytes[final]]
    /\ UNCHANGED <<digest, overlapped, fd, pos, part, final, bytes>>

Die(s) ==
    /\ Live(s)
    /\ pc' = [pc EXCEPT ![s] = "died"]
    /\ fd' = [fd EXCEPT ![s] = None]
    /\ UNCHANGED <<digest, overlapped, pos, part, final, bytes, installed>>

Next == \E s \in Selectors :
    \/ Resolve(s) \/ VerifyFinal(s) \/ Clean(s) \/ Open(s) \/ Write(s) \/ Eof(s)
    \/ Hash(s) \/ Replace(s) \/ Install(s) \/ Die(s)

Spec == Init /\ [][Next]_vars

-----------------------------------------------------------------------------
TypeOK ==
    /\ digest \in [Selectors -> Digests \cup {None}]
    /\ pc \in [Selectors -> Ended \cup {"start", "verify", "clean", "open", "write",
                                        "hash", "replace", "install"}]
    /\ fd \in [Selectors -> Inodes \cup {None}]
    /\ \A s \in Selectors : pc[s] = "write" <=> fd[s] # None
    /\ pos \in [Selectors -> 1 .. Blocks + 1]
    /\ part \in Inodes \cup {None} /\ final \in Inodes \cup {None}
    /\ bytes \in [Inodes -> Bytes]
    /\ installed \in [Selectors -> Bytes]
    /\ overlapped \subseteq Selectors

(* What pip installed for a selector that never ran beside another is the  *)
(* wheel its manifest names, bit for bit, whatever was in the directory,   *)
(* whatever the source sent, and whatever earlier selectors left there,    *)
(* those included that had the directory at the same time and wrote into   *)
(* each other's downloads (materialize_asset, install_wheel).              *)
InstalledIsSelected ==
    \A s \in Selectors \ overlapped :
        pc[s] = "done" => installed[s] = Wheel(digest[s])

(* A file such a selector brought to the final name came there whole and   *)
(* stays so: no later selector, overlapped or not, writes to it (os.replace*)
(* after the digest, unlink before the open).                              *)
FinalIsVerified ==
    final \in Selectors \ overlapped => bytes[final] = Wheel(digest[final])

(* Neither pip nor the next selector meets an unverified download, but for *)
(* selectors that share the directory at the same time.                    *)
OnlyVerifiedWheels == InstalledIsSelected /\ FinalIsVerified

(* What materialize_asset is for: nothing is installed but what was        *)
(* selected.  Selectors that overlap break it.                             *)
EveryInstallIsSelected ==
    \A s \in Selectors : pc[s] = "done" => installed[s] = Wheel(digest[s])

=============================================================================
