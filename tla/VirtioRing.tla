----------------------------- MODULE VirtioRing -----------------------------
(***************************************************************************)
(* The split virtqueue of the zipl virtio boot loader                     *)
(* (src/zipl/boot/virtio-transport.h): a descriptor table, the avail ring *)
(* the driver publishes request heads in, and the used index the host     *)
(* bumps when it has completed a request.  A queue is a record; the       *)
(* operators below are the driver's vring_init, vring_send_buf and        *)
(* vring_wait_reply, and the host side of a legacy (s390-virtio) device:  *)
(* it keeps its own last_avail index, walks a chain through the NEXT      *)
(* flags, and increments used->idx by reading it back from guest memory.  *)
(* The host side is the environment of the boot loader, not code of this  *)
(* repository.                                                            *)
(***************************************************************************)
EXTENDS Integers, Sequences

\* The ring indices are u16 (struct vring_avail, struct vring_used).
U16 == 65536

\* The descriptor flags; CHAIN is VRING_HIDDEN_IS_CHAIN, a send_buf argument
\* that is masked off before the flags reach the descriptor.
Flags == {"NEXT", "WRITE"}

\* vring_init: num from the host's vqconfig; the ring memory lies above the
\* top of RAM, zero before the driver uses it, and next_idx is static 0.
VringInit(num) ==
    [num    |-> num,
     next   |-> 0,
     desc   |-> [i \in 0 .. num - 1 |->
                  [addr |-> [kind |-> "none"], len |-> 0, flags |-> {},
                   next |-> 0]],
     aidx   |-> 0,
     aring  |-> [i \in 0 .. num - 1 |-> 0],
     uidx   |-> 0,
     last   |-> 0]

\* Mutant: avail->idx moves for every descriptor, publishing half a chain.
SendBufEagerPublish(r, p, len, flags) ==
    LET n == r.next + 1 IN
    [r EXCEPT !.aring = IF "CHAIN" \in flags THEN @
                        ELSE [@ EXCEPT ![r.aidx % r.num] = r.next],
              !.desc[r.next] = [addr |-> p, len |-> len,
                                flags |-> flags \ {"CHAIN"}, next |-> n],
              !.next = n,
              !.aidx = (@ + 1) % U16,
              !.uidx = n % U16]

\* Mutant: used->idx is set to the index before the increment.
SendBufStaleUsed(r, p, len, flags) ==
    LET n == r.next + 1 IN
    [r EXCEPT !.aring = IF "CHAIN" \in flags THEN @
                        ELSE [@ EXCEPT ![r.aidx % r.num] = r.next],
              !.desc[r.next] = [addr |-> p, len |-> len,
                                flags |-> flags \ {"CHAIN"}, next |-> n],
              !.next = n,
              !.aidx = IF "NEXT" \in flags THEN @ ELSE (@ + 1) % U16,
              !.uidx = r.next % U16]

\* vring_send_buf: a chain head is published in the avail ring at
\* avail->idx % num, the descriptor is written at next_idx, avail->idx moves
\* only for the last descriptor of a chain, and used->idx is overwritten
\* with the new next_idx so that vring_wait_reply can spin on it.
SendBuf(r, p, len, flags) ==
    LET n == r.next + 1 IN
    [r EXCEPT !.aring = IF "CHAIN" \in flags THEN @
                        ELSE [@ EXCEPT ![r.aidx % r.num] = r.next],
              !.desc[r.next] = [addr |-> p, len |-> len,
                                flags |-> flags \ {"CHAIN"}, next |-> n],
              !.next = n,
              !.aidx = IF "NEXT" \in flags THEN @ ELSE (@ + 1) % U16,
              !.uidx = n % U16]

\* The loop condition of vring_wait_reply: the host has not answered as long
\* as used->idx still holds the value send_buf left in it.
Answered(r) == r.uidx # r.next

\* Mutant: next_idx is not reset, so the next request writes past it.
WaitResetKeepNext(r) == [r EXCEPT !.desc[0].len = 0, !.desc[0].flags = {}]

\* The tail of vring_wait_reply, after an answer or a timeout.
WaitReset(r) == [r EXCEPT !.next = 0, !.desc[0].len = 0, !.desc[0].flags = {}]

\* Host: a request head is published that it has not taken yet.
HostPending(r) == r.last # r.aidx

\* Host: the descriptors of the chain that starts at i, following NEXT for
\* at most k descriptors (a legacy host refuses longer chains).
RECURSIVE ChainFrom(_, _, _)
ChainFrom(d, i, k) ==
    IF k = 0 \/ i \notin DOMAIN d THEN <<>>
    ELSE IF "NEXT" \in d[i].flags
         THEN <<d[i]>> \o ChainFrom(d, d[i].next, k - 1)
         ELSE <<d[i]>>

\* Host: take the next published chain.
HostChain(r) == ChainFrom(r.desc, r.aring[r.last % r.num], r.num)
HostPop(r) == [r EXCEPT !.last = (@ + 1) % U16]

\* Host: complete one request; the legacy used-index update reads used->idx
\* back from guest memory and adds one.
HostPush(r) == [r EXCEPT !.uidx = (@ + 1) % U16]
=============================================================================
