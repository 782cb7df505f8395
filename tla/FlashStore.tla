----------------------------- MODULE FlashStore -----------------------------
(***************************************************************************)
(* What the fastboot download/flash pipeline promises about the medium: a  *)
(* flash writes one image to one partition from its first unit on, erases  *)
(* and resets never fall into a flash, and no two flashes overlap.  The    *)
(* promise ends when a command cannot be put off and falls into a flash.   *)
(***************************************************************************)
EXTENDS Integers

CONSTANTS Parts, PartSize, Images, NoPart, NoImage

VARIABLES
  content,   \* [Parts -> [1..size -> what the unit holds]]
  flash,     \* the flash in progress
  off,       \* the device has left fastboot
  overtaken  \* a command could not be put off and fell into a flash

vars == <<content, flash, off, overtaken>>

Idle == ~flash.on

Init ==
  /\ DOMAIN content = Parts /\ Idle /\ ~off /\ ~overtaken

Begin(p, i) ==
  /\ Idle /\ ~off
  /\ flash' = [on |-> TRUE, part |-> p, img |-> i, k |-> 0]
  /\ UNCHANGED <<content, off>>

\* A flash the host sent an image for writes that image, in order; without
\* one it writes whatever the buffer holds.
Write ==
  /\ flash.on /\ flash.k < PartSize[flash.part]
  /\ flash' = [flash EXCEPT !.k = @ + 1]
  /\ \/ /\ flash.img # NoImage
        /\ content' = [content EXCEPT ![flash.part][flash.k + 1] = flash.img]
     \/ /\ flash.img = NoImage
        /\ \E u \in 1..PartSize[flash.part] :
             /\ u = flash.k + 1
             /\ \A p \in Parts : \A v \in 1..PartSize[p] :
                  <<p, v>> # <<flash.part, u>> => content'[p][v] = content[p][v]
        /\ DOMAIN content' = Parts
  /\ UNCHANGED off

End ==
  /\ flash.on /\ ~flash'.on
  /\ UNCHANGED <<content, off>>

Erase(p) ==
  /\ Idle
  /\ \A q \in Parts \ {p} : content'[q] = content[q]
  /\ \A u, v \in 1..PartSize[p] : content'[p][u] = content'[p][v]
  /\ UNCHANGED <<flash, off>>

Leave == Idle /\ ~off /\ off' = TRUE /\ UNCHANGED <<content, flash>>

Overtake == flash.on /\ ~overtaken /\ overtaken' /\ UNCHANGED <<content, off>>

Promised ==
  \/ \E p \in Parts, i \in Images \cup {NoImage} : Begin(p, i)
  \/ Write \/ End \/ Leave
  \/ \E p \in Parts : Erase(p)

Next ==
  \/ Promised /\ UNCHANGED overtaken
  \/ Overtake
  \/ overtaken /\ overtaken'

Spec == Init /\ [][Next]_vars
=============================================================================
