---------------------------- MODULE BlockDevice ----------------------------
(***************************************************************************)
(* What CacheRead promises its callers (lib/hfs/cache.c): a read returns   *)
(* what the device holds there, as if there were no cache.  Nothing here   *)
(* writes to a device, so the data is named by where it is.                *)
(***************************************************************************)
CONSTANTS Devices, Offsets, Lengths

VARIABLES
    request,    \* the last read: <<device, offset, length>>
    answer      \* what it returned

Nothing == <<>>

Init == request = Nothing /\ answer = Nothing

Read(ih, offset, length) == /\ request' = <<ih, offset, length>>
                            /\ answer' = request'

Next == \E ih \in Devices, offset \in Offsets, length \in Lengths :
            Read(ih, offset, length)

Spec == Init /\ [][Next]_<<request, answer>>
=============================================================================
