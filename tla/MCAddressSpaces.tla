--------------------------- MODULE MCAddressSpaces ---------------------------
(* Small instances of AddressSpaces: two slots, frames from page 2 up of     *)
(* which two may lie above 4 MB, and images of one or two pages linked at    *)
(* USER_TEST_BASE.                                                           *)
EXTENDS AddressSpaces

ElevenFrames == <<2, 3, 4, 5, 6, 7, 8, 9, 10, 11, 12>>
TenFrames == <<2, 3, 4, 5, 6, 7, 8, 9, 10, 11>>
AllLow == [f \in {} |-> 0]
TwoHigh == [f \in {7, 10} |-> f - 5]
NoImages == {}
TestImages == {<< <<ImageDir, 0>> >>, << <<ImageDir, 0>>, <<ImageDir, 1>> >>}

Everyday == {"prepare", "end", "switch", "brk", "kmalloc", "pgmaptest", "allocpage"}
Loading == {"prepare", "end", "switch", "flat", "badmbapp", "image",
            "mapusertest", "trimid"}

=============================================================================
