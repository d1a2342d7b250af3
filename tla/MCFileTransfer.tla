--------------------------- MODULE MCFileTransfer ---------------------------
(* Instances of FileTransfer for TLC. *)
EXTENDS FileTransfer

CONSTANTS src, torn, dst, c1, c2

(* A downloader between two possible sources. *)
Star == {{src, dst}, {torn, dst}}

(* torn comes back with a damaged chunk on its disk. *)
TornDisk == [n \in Node |-> IF n = torn THEN {c1} ELSE {}]
TornChunk == [n \in Node |-> IF n = torn THEN {c1} ELSE {}]

EmptyDisk == [n \in Node |-> {}]

(* src was restarted: its index lists the file, no manifest is in memory. *)
RestartedDisk == [n \in Node |-> IF n = src THEN {c1, c2} ELSE {}]

OnceEach == [n \in Node |-> 1]

(* The user of dst calls download() again while a download is under way. *)
TwiceDst == [n \in Node |-> IF n = dst THEN 2 ELSE 1]
=============================================================================
