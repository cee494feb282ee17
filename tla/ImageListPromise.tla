-------------------------- MODULE ImageListPromise --------------------------
(***************************************************************************)
(* What the list of binary images promises its users: a sequence, to whose *)
(* ends images are added and out of which they are taken one at a time.    *)
(***************************************************************************)
EXTENDS Sequences, Naturals

CONSTANT Images

VARIABLE images

Holds(i) == \E k \in DOMAIN images : images[k] = i

Init == images = <<>>

AddLast(i) == ~Holds(i) /\ images' = Append(images, i)

AddFirst(i) == ~Holds(i) /\ images' = <<i>> \o images

Take(k) == images' = SubSeq(images, 1, k - 1) \o SubSeq(images, k + 1, Len(images))

Next == \/ \E i \in Images : AddLast(i) \/ AddFirst(i)
        \/ \E k \in DOMAIN images : Take(k)

Spec == Init /\ [][Next]_images
=============================================================================
