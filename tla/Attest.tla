-------------------------------- MODULE Attest --------------------------------
(***************************************************************************)
(* The read-only admission of the disk behind a data map (collect() of admin/data.py, *)
(* verify() and revalidate() of admin/admission.py): a series of reads, of the         *)
(* medium, of sysfs, of a held descriptor, while disks come and go under the same      *)
(* node.  An attachment has a disk sequence number that is never used again; the        *)
(* kernel's node names and device numbers are reused.                          *)
(*                                                                         *)
(* The enumeration of the disks with the wanted serial is one step.  Any read may        *)
(* fail (Refuse), which also stands for the deadline and for the checks of the           *)
(* environment and of other users of the partition.                             *)
(***************************************************************************)
EXTENDS Naturals, Sequences, FiniteSets

CONSTANTS Nodes, Selected, MaxInst

ASSUME AttestAssumption == Selected \in Nodes /\ MaxInst \in Nat \ {0}

VARIABLES
    here,              \* node -> the attachment it refers to now, 0 when none
    disk,              \* attachment -> what is attached
    table,             \* the node that the map's table names
    att                \* the admission under way

Inst == 1 .. MaxInst
\* serial: the wanted one or not; content: file system and partition identity; size: geometry.
Disk == [serial : BOOLEAN, content : {1, 2}, size : {1, 2}]
Wanted == [serial |-> TRUE, content |-> 1, size |-> 1]

-----------------------------------------------------------------------------
(* The procedures, as the series of reads that they make. *)

Snapshot     == <<"seq", "size">>
\* Mutant: only the enumeration is repeated, not the snapshot.
SameInstance_FindOnly == <<"find">>
SameInstance == <<"find">> \o Snapshot
Layout       == <<"content">>
Identity     == <<"find">> \o Layout             \* FilesystemIdentity.verify()

Verify     == Snapshot \o Identity \o SameInstance \o Layout \o Identity \o SameInstance
Revalidate == SameInstance \o Layout \o SameInstance
Collect    == <<"blkid", "serial", "geometry", "layout", "map", "locate", "open">>
              \o Verify \o Revalidate \o <<"map">>

NoAtt == [step |-> 0, node |-> Selected, content |-> 0, serial |-> FALSE, size |-> 0, fd |-> 0,
          unique |-> 0]

AttTypeOK ==
    /\ here \in [Nodes -> Inst \cup {0}]
    /\ disk \in [Inst -> Disk]
    /\ table \in Nodes
    /\ att \in [step : 0 .. Len(Collect) + 1, node : Nodes, content : {0, 1, 2}, serial : BOOLEAN,
                size : {0, 1, 2}, fd : Inst \cup {0}, unique : Inst \cup {0}]

AttInit ==
    /\ here = [n \in Nodes |-> IF n = Selected THEN 1 ELSE 0]
    /\ disk = [i \in Inst |-> Wanted]
    /\ table = Selected
    /\ att = NoAtt

-----------------------------------------------------------------------------
Read(what) == att.step \in 1 .. Len(Collect) /\ Collect[att.step] = what
Admitted   == att.step = Len(Collect) + 1

At(n) == disk[here[n]]
Keep(o) == att' = [o EXCEPT !.step = @ + 1]

\* Disks with the serial that was read first.
Matches == {n \in Nodes : here[n] # 0 /\ At(n).serial = att.serial}
Found(n) == Matches = {n} /\ At(n).size = att.size

\* usb_identity() and the fields of the configuration: each read finds whatever is at the
\* node by then.
ReadBlkid    == Read("blkid") /\ here[att.node] # 0 /\ Keep([att EXCEPT !.content = At(att.node).content])
ReadSerial   == Read("serial") /\ here[att.node] # 0 /\ Keep([att EXCEPT !.serial = At(att.node).serial])
ReadGeometry == Read("geometry") /\ here[att.node] # 0 /\ Keep([att EXCEPT !.size = At(att.node).size])
ReadLayout   == Read("layout") /\ here[att.node] # 0 /\ At(att.node).content = att.content /\ Keep(att)

\* The table names the candidate's device number, not its attachment.
CheckMap == Read("map") /\ here[att.node] # 0 /\ table = att.node /\ Keep(att)

Locate == Read("locate") /\ \E n \in Nodes : Found(n) /\ Keep([att EXCEPT !.node = n])
Open   == Read("open") /\ here[att.node] # 0 /\ Keep([att EXCEPT !.fd = here[att.node]])

\* The attachment of the last enumeration is noted for the property.
Find    == Read("find") /\ Found(att.node) /\ Keep([att EXCEPT !.unique = here[att.node]])
SeqRead == Read("seq") /\ here[att.node] = att.fd /\ Keep(att)
Size    == /\ Read("size") /\ here[att.node] # 0
           /\ {At(att.node).size, disk[att.fd].size} = {att.size} /\ Keep(att)
Content == Read("content") /\ here[att.node] # 0 /\ At(att.node).content = att.content /\ Keep(att)

AttestStep == \/ ReadBlkid \/ ReadSerial \/ ReadGeometry \/ ReadLayout \/ CheckMap
              \/ Locate \/ Open \/ Find \/ SeqRead \/ Size \/ Content

-----------------------------------------------------------------------------
(* Disks are exchanged, unplugged and attached elsewhere; the table is reloaded. *)

\* Attachments are numbered in the order in which they come.
Attach(n, i) ==
    /\ \E d \in Disk : disk' = [disk EXCEPT ![i] = d]
    /\ here' = [here EXCEPT ![n] = i]
Detach(n) == here[n] # 0 /\ here' = [here EXCEPT ![n] = 0] /\ UNCHANGED disk

-----------------------------------------------------------------------------
\* What was admitted is one attachment: the content, the serial and the geometry in the
\* profile are those of the disk whose sequence number it records, and at the last
\* enumeration that disk was the only one with the serial.
AdmittedIsOneDisk ==
    Admitted => /\ disk[att.fd] = [serial |-> att.serial, content |-> att.content, size |-> att.size]
                /\ att.unique = att.fd
=============================================================================
