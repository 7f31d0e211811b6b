------------------------ MODULE NvrSegmentsProofs ------------------------
(* Theorems about NvrSegments: the catalog and the volumes agree, protected *)
(* media stays and a pinned path stays valid, for any number of segments,   *)
(* volumes, readers and restarts.                                           *)
EXTENDS NvrSegments, TLAPS

LEMMA CaptureStartInv ==
    ASSUME SegmentsAssumption, CatalogMatchesVolumes,
           NEW s \in Segments, NEW v \in Volumes, CaptureStart(s, v)
    PROVE  CatalogMatchesVolumes'
<1>1. TypeOK'
  BY DEF CaptureStart, CatalogMatchesVolumes, TypeOK, SegmentsAssumption, Row, NoRow,
         Holder, Holders, Free, Scan, NoScan, Passes, Integrities, Serving, history,
         readersVars
<1>2. NothingLost' /\ NoOrphans'
  BY DEF CaptureStart, CatalogMatchesVolumes, TypeOK, NothingLost, NoOrphans, Located,
         Serving, history, readersVars, BornOnce
<1>3. BornOnce'
  BY DEF CaptureStart, CatalogMatchesVolumes, TypeOK, BornOnce, Serving, history,
         readersVars
<1>4. DeletedIsGone'
  BY DEF CaptureStart, CatalogMatchesVolumes, TypeOK, DeletedIsGone, Located, Serving,
         history, readersVars
<1>5. HolderReady'
  BY DEF CaptureStart, CatalogMatchesVolumes, TypeOK, HolderReady, Free, Serving,
         history, readersVars
<1>6. ScanCurrent'
  BY DEF CaptureStart, CatalogMatchesVolumes, TypeOK, ScanCurrent, NoScan, Free,
         Serving, history, readersVars
<1>7. StartsIdle'
  BY DEF CaptureStart, CatalogMatchesVolumes, TypeOK, StartsIdle, Free, NoScan,
         Serving, history, readersVars
<1>8. CopiesAccounted'
  BY DEF CaptureStart, CatalogMatchesVolumes, TypeOK, CopiesAccounted, Extra, Free,
         Located, Serving, history, readersVars, BornOnce, HolderReady
<1> QED BY <1>1, <1>2, <1>3, <1>4, <1>5, <1>6, <1>7, <1>8
        DEF CatalogMatchesVolumes

LEMMA CaptureFailInv ==
    ASSUME SegmentsAssumption, CatalogMatchesVolumes,
           NEW s \in Segments, CaptureFail(s)
    PROVE  CatalogMatchesVolumes'
<1>1. TypeOK'
  BY DEF CaptureFail, CatalogMatchesVolumes, TypeOK, SegmentsAssumption, Row, NoRow,
         Holder, Holders, Free, Scan, NoScan, Passes, Integrities, Serving, files, history,
         readersVars
<1>2. NothingLost' /\ NoOrphans'
  BY DEF CaptureFail, CatalogMatchesVolumes, TypeOK, NothingLost, NoOrphans, Located,
         Serving, files, history, readersVars
<1>3. BornOnce'
  BY DEF CaptureFail, CatalogMatchesVolumes, TypeOK, BornOnce, Serving, files,
         history, readersVars
<1>4. DeletedIsGone'
  BY DEF CaptureFail, CatalogMatchesVolumes, TypeOK, DeletedIsGone, Located, Serving,
         files, history, readersVars
<1>5. HolderReady'
  BY DEF CaptureFail, CatalogMatchesVolumes, TypeOK, HolderReady, Free, Serving,
         files, history, readersVars
<1>6. ScanCurrent'
  BY DEF CaptureFail, CatalogMatchesVolumes, TypeOK, ScanCurrent, NoScan, Free,
         Serving, files, history, readersVars
<1>7. StartsIdle'
  BY DEF CaptureFail, CatalogMatchesVolumes, TypeOK, StartsIdle, Free, NoScan,
         Serving, files, history, readersVars
<1>8. CopiesAccounted'
  BY DEF CaptureFail, CatalogMatchesVolumes, TypeOK, CopiesAccounted, Extra, Free,
         Located, Serving, files, history, readersVars, BornOnce, HolderReady
<1> QED BY <1>1, <1>2, <1>3, <1>4, <1>5, <1>6, <1>7, <1>8
        DEF CatalogMatchesVolumes

LEMMA CaptureRenameInv ==
    ASSUME SegmentsAssumption, CatalogMatchesVolumes,
           NEW s \in Segments, CaptureRename(s)
    PROVE  CatalogMatchesVolumes'
<1>1. TypeOK'
  BY DEF CaptureRename, CatalogMatchesVolumes, TypeOK, SegmentsAssumption, Row, NoRow,
         Holder, Holders, Free, Scan, NoScan, Passes, Integrities, Serving, history,
         readersVars
<1>2. NothingLost' /\ NoOrphans'
  BY DEF CaptureRename, CatalogMatchesVolumes, TypeOK, NothingLost, NoOrphans,
         Located, Serving, history, readersVars
<1>3. BornOnce'
  BY DEF CaptureRename, CatalogMatchesVolumes, TypeOK, BornOnce, Serving, history,
         readersVars
<1>4. DeletedIsGone'
  BY DEF CaptureRename, CatalogMatchesVolumes, TypeOK, DeletedIsGone, Located,
         Serving, history, readersVars, BornOnce
<1>5. HolderReady'
  BY DEF CaptureRename, CatalogMatchesVolumes, TypeOK, HolderReady, Free, Serving,
         history, readersVars, BornOnce
<1>6. ScanCurrent'
  BY DEF CaptureRename, CatalogMatchesVolumes, TypeOK, ScanCurrent, NoScan, Free,
         Serving, history, readersVars
<1>7. StartsIdle'
  BY DEF CaptureRename, CatalogMatchesVolumes, TypeOK, StartsIdle, Free, NoScan,
         Serving, history, readersVars
<1>8. CopiesAccounted'
  BY DEF CaptureRename, CatalogMatchesVolumes, TypeOK, CopiesAccounted, Extra, Free,
         Located, Serving, history, readersVars, BornOnce, HolderReady
<1> QED BY <1>1, <1>2, <1>3, <1>4, <1>5, <1>6, <1>7, <1>8
        DEF CatalogMatchesVolumes

LEMMA CaptureCatalogInv ==
    ASSUME SegmentsAssumption, CatalogMatchesVolumes,
           NEW s \in Segments, CaptureCatalog(s)
    PROVE  CatalogMatchesVolumes'
<1>1. TypeOK'
  BY DEF CaptureCatalog, CatalogMatchesVolumes, TypeOK, SegmentsAssumption, Row,
         NoRow, Holder, Holders, Free, Scan, NoScan, Passes, Integrities, Serving, files,
         history, readersVars
<1>2. NothingLost' /\ NoOrphans'
  BY DEF CaptureCatalog, CatalogMatchesVolumes, TypeOK, NothingLost, NoOrphans,
         Located, Serving, files, history, readersVars, BornOnce
<1>3. BornOnce'
  BY DEF CaptureCatalog, CatalogMatchesVolumes, TypeOK, BornOnce, Serving, files,
         history, readersVars
<1>4. DeletedIsGone'
  <2>1. s \notin unlinked
    BY DEF CaptureCatalog, CatalogMatchesVolumes, BornOnce, DeletedIsGone
  <2>2. /\ UNCHANGED <<media, unlinked>>
        /\ \A t \in Segments \ {s} : row'[t] = row[t]
        /\ row'[s].integrity = "verified"
    BY DEF CaptureCatalog, CatalogMatchesVolumes, TypeOK, files, history
  <2> QED BY <2>1, <2>2 DEF CatalogMatchesVolumes, DeletedIsGone, Located
<1>5. HolderReady'
  BY DEF CaptureCatalog, CatalogMatchesVolumes, TypeOK, HolderReady, Free, Serving,
         files, history, readersVars, BornOnce
<1>6. ScanCurrent'
  BY DEF CaptureCatalog, CatalogMatchesVolumes, TypeOK, ScanCurrent, NoScan, Free,
         Serving, files, history, readersVars, BornOnce
<1>7. StartsIdle'
  BY DEF CaptureCatalog, CatalogMatchesVolumes, TypeOK, StartsIdle, Free, NoScan,
         Serving, files, history, readersVars
<1>8. CopiesAccounted'
  BY DEF CaptureCatalog, CatalogMatchesVolumes, TypeOK, CopiesAccounted, Extra,
         Free, Located, Serving, files, history, readersVars, BornOnce, HolderReady
<1> QED BY <1>1, <1>2, <1>3, <1>4, <1>5, <1>6, <1>7, <1>8
        DEF CatalogMatchesVolumes

LEMMA PinSegmentInv ==
    ASSUME SegmentsAssumption, CatalogMatchesVolumes,
           NEW s \in Segments, PinSegment(s)
    PROVE  CatalogMatchesVolumes'
<1>1. TypeOK'
  BY DEF PinSegment, CatalogMatchesVolumes, TypeOK, SegmentsAssumption, Row, NoRow,
         Holder, Holders, Free, Scan, NoScan, Passes, Integrities, Serving, LockFree,
         Visible, files, history
<1>2. NothingLost' /\ NoOrphans'
  BY DEF PinSegment, CatalogMatchesVolumes, TypeOK, NothingLost, NoOrphans, Located,
         Serving, LockFree, Visible, files, history
<1>3. BornOnce'
  BY DEF PinSegment, CatalogMatchesVolumes, TypeOK, BornOnce, Serving, LockFree,
         Visible, files, history
<1>4. DeletedIsGone'
  BY DEF PinSegment, CatalogMatchesVolumes, TypeOK, DeletedIsGone, Located, Serving,
         LockFree, Visible, files, history
<1>5. HolderReady'
  BY DEF PinSegment, CatalogMatchesVolumes, TypeOK, HolderReady, Free, Serving,
         LockFree, Visible, files, history
<1>6. ScanCurrent'
  BY DEF PinSegment, CatalogMatchesVolumes, TypeOK, ScanCurrent, NoScan, Free,
         Serving, LockFree, Visible, files, history
<1>7. StartsIdle'
  BY DEF PinSegment, CatalogMatchesVolumes, TypeOK, StartsIdle, Free, NoScan, Serving,
         LockFree, Visible, files, history
<1>8. CopiesAccounted'
  BY DEF PinSegment, CatalogMatchesVolumes, TypeOK, CopiesAccounted, Extra, Free,
         Located, Serving, LockFree, Visible, files, history, BornOnce, HolderReady
<1> QED BY <1>1, <1>2, <1>3, <1>4, <1>5, <1>6, <1>7, <1>8
        DEF CatalogMatchesVolumes

LEMMA UnpinSegmentInv ==
    ASSUME SegmentsAssumption, CatalogMatchesVolumes,
           NEW s \in Segments, UnpinSegment(s)
    PROVE  CatalogMatchesVolumes'
<1>1. TypeOK'
  BY DEF UnpinSegment, CatalogMatchesVolumes, TypeOK, SegmentsAssumption, Row, NoRow,
         Holder, Holders, Free, Scan, NoScan, Passes, Integrities, Serving, LockFree, files,
         history
<1>2. NothingLost' /\ NoOrphans'
  BY DEF UnpinSegment, CatalogMatchesVolumes, TypeOK, NothingLost, NoOrphans, Located,
         Serving, LockFree, files, history
<1>3. BornOnce'
  BY DEF UnpinSegment, CatalogMatchesVolumes, TypeOK, BornOnce, Serving, LockFree,
         files, history
<1>4. DeletedIsGone'
  BY DEF UnpinSegment, CatalogMatchesVolumes, TypeOK, DeletedIsGone, Located, Serving,
         LockFree, files, history
<1>5. HolderReady'
  BY DEF UnpinSegment, CatalogMatchesVolumes, TypeOK, HolderReady, Free, Serving,
         LockFree, files, history
<1>6. ScanCurrent'
  BY DEF UnpinSegment, CatalogMatchesVolumes, TypeOK, ScanCurrent, NoScan, Free,
         Serving, LockFree, files, history
<1>7. StartsIdle'
  BY DEF UnpinSegment, CatalogMatchesVolumes, TypeOK, StartsIdle, Free, NoScan,
         Serving, LockFree, files, history
<1>8. CopiesAccounted'
  BY DEF UnpinSegment, CatalogMatchesVolumes, TypeOK, CopiesAccounted, Extra, Free,
         Located, Serving, LockFree, files, history, BornOnce, HolderReady
<1> QED BY <1>1, <1>2, <1>3, <1>4, <1>5, <1>6, <1>7, <1>8
        DEF CatalogMatchesVolumes

LEMMA CreatePlaybackLeaseInv ==
    ASSUME SegmentsAssumption, CatalogMatchesVolumes,
           NEW s \in Segments, CreatePlaybackLease(s)
    PROVE  CatalogMatchesVolumes'
<1>1. TypeOK'
  BY DEF CreatePlaybackLease, CatalogMatchesVolumes, TypeOK, SegmentsAssumption, Row,
         NoRow, Holder, Holders, Free, Scan, NoScan, Passes, Integrities, Serving, LockFree,
         Visible, Pruned, files, history
<1>2. NothingLost' /\ NoOrphans'
  BY DEF CreatePlaybackLease, CatalogMatchesVolumes, TypeOK, NothingLost, NoOrphans,
         Located, Serving, LockFree, Visible, Pruned, files, history
<1>3. BornOnce'
  BY DEF CreatePlaybackLease, CatalogMatchesVolumes, TypeOK, BornOnce, Serving,
         LockFree, Visible, Pruned, files, history
<1>4. DeletedIsGone'
  BY DEF CreatePlaybackLease, CatalogMatchesVolumes, TypeOK, DeletedIsGone, Located,
         Serving, LockFree, Visible, Pruned, files, history
<1>5. HolderReady'
  BY DEF CreatePlaybackLease, CatalogMatchesVolumes, TypeOK, HolderReady, Free,
         Serving, LockFree, Visible, Pruned, files, history
<1>6. ScanCurrent'
  BY DEF CreatePlaybackLease, CatalogMatchesVolumes, TypeOK, ScanCurrent, NoScan,
         Free, Serving, LockFree, Visible, Pruned, files, history
<1>7. StartsIdle'
  BY DEF CreatePlaybackLease, CatalogMatchesVolumes, TypeOK, StartsIdle, Free, NoScan,
         Serving, LockFree, Visible, Pruned, files, history
<1>8. CopiesAccounted'
  BY DEF CreatePlaybackLease, CatalogMatchesVolumes, TypeOK, CopiesAccounted, Extra,
         Free, Located, Serving, LockFree, Visible, Pruned, files, history,
         BornOnce, HolderReady
<1> QED BY <1>1, <1>2, <1>3, <1>4, <1>5, <1>6, <1>7, <1>8
        DEF CatalogMatchesVolumes

LEMMA ReleasePlaybackLeaseInv ==
    ASSUME SegmentsAssumption, CatalogMatchesVolumes,
           NEW s \in Segments, ReleasePlaybackLease(s)
    PROVE  CatalogMatchesVolumes'
<1>1. TypeOK'
  BY DEF ReleasePlaybackLease, CatalogMatchesVolumes, TypeOK, SegmentsAssumption, Row,
         NoRow, Holder, Holders, Free, Scan, NoScan, Passes, Integrities, Serving, LockFree,
         files, history
<1>2. NothingLost' /\ NoOrphans'
  BY DEF ReleasePlaybackLease, CatalogMatchesVolumes, TypeOK, NothingLost, NoOrphans,
         Located, Serving, LockFree, files, history
<1>3. BornOnce'
  BY DEF ReleasePlaybackLease, CatalogMatchesVolumes, TypeOK, BornOnce, Serving,
         LockFree, files, history
<1>4. DeletedIsGone'
  BY DEF ReleasePlaybackLease, CatalogMatchesVolumes, TypeOK, DeletedIsGone, Located,
         Serving, LockFree, files, history
<1>5. HolderReady'
  BY DEF ReleasePlaybackLease, CatalogMatchesVolumes, TypeOK, HolderReady, Free,
         Serving, LockFree, files, history
<1>6. ScanCurrent'
  BY DEF ReleasePlaybackLease, CatalogMatchesVolumes, TypeOK, ScanCurrent, NoScan,
         Free, Serving, LockFree, files, history
<1>7. StartsIdle'
  BY DEF ReleasePlaybackLease, CatalogMatchesVolumes, TypeOK, StartsIdle, Free,
         NoScan, Serving, LockFree, files, history
<1>8. CopiesAccounted'
  BY DEF ReleasePlaybackLease, CatalogMatchesVolumes, TypeOK, CopiesAccounted,
         Extra, Free, Located, Serving, LockFree, files, history, BornOnce,
         HolderReady
<1> QED BY <1>1, <1>2, <1>3, <1>4, <1>5, <1>6, <1>7, <1>8
        DEF CatalogMatchesVolumes

LEMMA LeaseExpiresInv ==
    ASSUME SegmentsAssumption, CatalogMatchesVolumes,
           NEW s \in Segments, LeaseExpires(s)
    PROVE  CatalogMatchesVolumes'
<1>1. TypeOK'
  BY DEF LeaseExpires, CatalogMatchesVolumes, TypeOK, SegmentsAssumption, Row, NoRow,
         Holder, Holders, Free, Scan, NoScan, Passes, Integrities, files, history
<1>2. NothingLost' /\ NoOrphans'
  BY DEF LeaseExpires, CatalogMatchesVolumes, TypeOK, NothingLost, NoOrphans, Located,
         files, history
<1>3. BornOnce'
  BY DEF LeaseExpires, CatalogMatchesVolumes, TypeOK, BornOnce, files, history
<1>4. DeletedIsGone'
  BY DEF LeaseExpires, CatalogMatchesVolumes, TypeOK, DeletedIsGone, Located, files,
         history
<1>5. HolderReady'
  BY DEF LeaseExpires, CatalogMatchesVolumes, TypeOK, HolderReady, Free, files,
         history
<1>6. ScanCurrent'
  BY DEF LeaseExpires, CatalogMatchesVolumes, TypeOK, ScanCurrent, NoScan, Free,
         files, history
<1>7. StartsIdle'
  BY DEF LeaseExpires, CatalogMatchesVolumes, TypeOK, StartsIdle, Free, NoScan, files,
         history
<1>8. CopiesAccounted'
  BY DEF LeaseExpires, CatalogMatchesVolumes, TypeOK, CopiesAccounted, Extra, Free,
         Located, files, history, BornOnce, HolderReady
<1> QED BY <1>1, <1>2, <1>3, <1>4, <1>5, <1>6, <1>7, <1>8
        DEF CatalogMatchesVolumes

LEMMA SetLockInv ==
    ASSUME SegmentsAssumption, CatalogMatchesVolumes,
           NEW s \in Segments, NEW value \in BOOLEAN, SetLock(s, value)
    PROVE  CatalogMatchesVolumes'
<1>1. TypeOK'
  <2>1. row \in [Segments -> Row] /\ row' = [row EXCEPT ![s].locked = value]
    BY DEF SetLock, CatalogMatchesVolumes, TypeOK
  <2>2. row' \in [Segments -> Row]
    BY <2>1 DEF Row
  <2> QED
    BY <2>2 DEF SetLock, CatalogMatchesVolumes, TypeOK, files, history, readersVars
<1>2. NothingLost' /\ NoOrphans'
  BY DEF SetLock, CatalogMatchesVolumes, TypeOK, NothingLost, NoOrphans, Located,
         Serving, LockFree, Exists, files, history, readersVars
<1>3. BornOnce'
  BY DEF SetLock, CatalogMatchesVolumes, TypeOK, BornOnce, Serving, LockFree, Exists,
         files, history, readersVars
<1>4. DeletedIsGone'
  BY DEF SetLock, CatalogMatchesVolumes, TypeOK, DeletedIsGone, Located, Serving,
         LockFree, Exists, files, history, readersVars
<1>5. HolderReady'
  BY DEF SetLock, CatalogMatchesVolumes, TypeOK, HolderReady, Free, Serving, LockFree,
         Exists, files, history, readersVars
<1>6. ScanCurrent'
  BY DEF SetLock, CatalogMatchesVolumes, TypeOK, ScanCurrent, NoScan, Free, Serving,
         LockFree, Exists, files, history, readersVars
<1>7. StartsIdle'
  BY DEF SetLock, CatalogMatchesVolumes, TypeOK, StartsIdle, Free, NoScan, Serving,
         LockFree, Exists, files, history, readersVars
<1>8. CopiesAccounted'
  BY DEF SetLock, CatalogMatchesVolumes, TypeOK, CopiesAccounted, Extra, Free,
         Located, Serving, LockFree, Exists, files, history, readersVars, BornOnce,
         HolderReady
<1> QED BY <1>1, <1>2, <1>3, <1>4, <1>5, <1>6, <1>7, <1>8
        DEF CatalogMatchesVolumes

LEMMA DeleteUnlinkInv ==
    ASSUME SegmentsAssumption, CatalogMatchesVolumes,
           NEW s \in Segments, DeleteUnlink(s)
    PROVE  CatalogMatchesVolumes'
<1>1. TypeOK'
  BY DEF DeleteUnlink, CatalogMatchesVolumes, TypeOK, SegmentsAssumption, Row, NoRow,
         Holder, Holders, Free, Scan, NoScan, Passes, Integrities, Serving, LockFree,
         Visible, Pruned, Located
<1>2. NothingLost' /\ NoOrphans'
  BY DEF DeleteUnlink, CatalogMatchesVolumes, TypeOK, NothingLost, NoOrphans, Located,
         Serving, LockFree, Visible, Pruned
<1>3. BornOnce'
  BY DEF DeleteUnlink, CatalogMatchesVolumes, TypeOK, BornOnce, Serving, LockFree,
         Visible, Pruned, Located
<1>4. DeletedIsGone'
  BY DEF DeleteUnlink, CatalogMatchesVolumes, TypeOK, DeletedIsGone, Located, Serving,
         LockFree, Visible, Pruned
<1>5. HolderReady'
  BY DEF DeleteUnlink, CatalogMatchesVolumes, TypeOK, HolderReady, Free, Serving,
         LockFree, Visible, Pruned, Located
<1>6. ScanCurrent'
  BY DEF DeleteUnlink, CatalogMatchesVolumes, TypeOK, ScanCurrent, NoScan, Free,
         Serving, LockFree, Visible, Pruned, Located
<1>7. StartsIdle'
  BY DEF DeleteUnlink, CatalogMatchesVolumes, TypeOK, StartsIdle, Free, NoScan,
         Serving, LockFree, Visible, Pruned, Located
<1>8. CopiesAccounted'
  BY DEF DeleteUnlink, CatalogMatchesVolumes, TypeOK, CopiesAccounted, Extra, Free,
         Located, Serving, LockFree, Visible, Pruned, BornOnce, HolderReady
<1> QED BY <1>1, <1>2, <1>3, <1>4, <1>5, <1>6, <1>7, <1>8
        DEF CatalogMatchesVolumes

LEMMA DeleteMarkInv ==
    ASSUME SegmentsAssumption, CatalogMatchesVolumes,
           NEW s \in Segments, DeleteMark(s)
    PROVE  CatalogMatchesVolumes'
<1>1. TypeOK'
  <2>1. row \in [Segments -> Row] /\ row' = [row EXCEPT ![s].integrity = "deleted"]
    BY DEF DeleteMark, CatalogMatchesVolumes, TypeOK
  <2>2. row' \in [Segments -> Row]
    BY <2>1 DEF Row, Integrities
  <2>3. holder' \in Holder
    BY DEF DeleteMark, Holder, Holders, Free
  <2> QED
    BY <2>2, <2>3 DEF DeleteMark, CatalogMatchesVolumes, TypeOK, files, history, readersVars
<1>2. NothingLost' /\ NoOrphans'
  BY DEF DeleteMark, CatalogMatchesVolumes, TypeOK, NothingLost, NoOrphans, Located,
         Serving, files, history, readersVars, HolderReady, DeletedIsGone
<1>3. BornOnce'
  BY DEF DeleteMark, CatalogMatchesVolumes, TypeOK, BornOnce, Serving, files, history,
         readersVars, HolderReady, DeletedIsGone
<1>4. DeletedIsGone'
  BY DEF DeleteMark, CatalogMatchesVolumes, TypeOK, DeletedIsGone, Located, Serving,
         files, history, readersVars, HolderReady
<1>5. HolderReady'
  BY DEF DeleteMark, CatalogMatchesVolumes, TypeOK, HolderReady, Free, Serving, files,
         history, readersVars
<1>6. ScanCurrent'
  BY DEF DeleteMark, CatalogMatchesVolumes, TypeOK, ScanCurrent, NoScan, Free,
         Serving, files, history, readersVars, HolderReady
<1>7. StartsIdle'
  BY DEF DeleteMark, CatalogMatchesVolumes, TypeOK, StartsIdle, Free, NoScan, Serving,
         files, history, readersVars
<1>8. CopiesAccounted'
  BY DEF DeleteMark, CatalogMatchesVolumes, TypeOK, CopiesAccounted, Extra, Free,
         Located, Serving, files, history, readersVars, HolderReady, DeletedIsGone,
         BornOnce
<1> QED BY <1>1, <1>2, <1>3, <1>4, <1>5, <1>6, <1>7, <1>8
        DEF CatalogMatchesVolumes

LEMMA ScanSkipInv ==
    ASSUME SegmentsAssumption, CatalogMatchesVolumes,
           NEW s \in Segments, ScanSkip(s)
    PROVE  CatalogMatchesVolumes'
<1>1. TypeOK'
  BY DEF ScanSkip, CatalogMatchesVolumes, TypeOK, SegmentsAssumption, Row, NoRow,
         Holder, Holders, Free, Scan, NoScan, Passes, Integrities, Serving, LockFree, Next1,
         Pruned, files, history
<1>2. NothingLost' /\ NoOrphans'
  BY DEF ScanSkip, CatalogMatchesVolumes, TypeOK, NothingLost, NoOrphans, Located,
         Serving, LockFree, Next1, Pruned, files, history
<1>3. BornOnce'
  BY DEF ScanSkip, CatalogMatchesVolumes, TypeOK, BornOnce, Serving, LockFree, Next1,
         Pruned, files, history
<1>4. DeletedIsGone'
  BY DEF ScanSkip, CatalogMatchesVolumes, TypeOK, DeletedIsGone, Located, Serving,
         LockFree, Next1, Pruned, files, history
<1>5. HolderReady'
  BY DEF ScanSkip, CatalogMatchesVolumes, TypeOK, HolderReady, Free, Serving,
         LockFree, Next1, Pruned, files, history
<1>6. ScanCurrent'
  BY DEF ScanSkip, CatalogMatchesVolumes, TypeOK, ScanCurrent, NoScan, Free, Serving,
         LockFree, Next1, Pruned, files, history
<1>7. StartsIdle'
  BY DEF ScanSkip, CatalogMatchesVolumes, TypeOK, StartsIdle, Free, NoScan, Serving,
         LockFree, Next1, Pruned, files, history
<1>8. CopiesAccounted'
  BY DEF ScanSkip, CatalogMatchesVolumes, TypeOK, CopiesAccounted, Extra, Free,
         Located, Serving, LockFree, Next1, Pruned, files, history, BornOnce,
         HolderReady
<1> QED BY <1>1, <1>2, <1>3, <1>4, <1>5, <1>6, <1>7, <1>8
        DEF CatalogMatchesVolumes

LEMMA ScanEndInv ==
    ASSUME SegmentsAssumption, CatalogMatchesVolumes,
           ScanEnd
    PROVE  CatalogMatchesVolumes'
<1>1. TypeOK'
  BY DEF ScanEnd, CatalogMatchesVolumes, TypeOK, SegmentsAssumption, Row, NoRow,
         Holder, Holders, Free, Scan, NoScan, Passes, Integrities, Serving, LockFree, files,
         history, readersVars
<1>2. NothingLost' /\ NoOrphans'
  BY DEF ScanEnd, CatalogMatchesVolumes, TypeOK, NothingLost, NoOrphans, Located,
         Serving, LockFree, files, history, readersVars
<1>3. BornOnce'
  BY DEF ScanEnd, CatalogMatchesVolumes, TypeOK, BornOnce, Serving, LockFree, files,
         history, readersVars
<1>4. DeletedIsGone'
  BY DEF ScanEnd, CatalogMatchesVolumes, TypeOK, DeletedIsGone, Located, Serving,
         LockFree, files, history, readersVars
<1>5. HolderReady'
  BY DEF ScanEnd, CatalogMatchesVolumes, TypeOK, HolderReady, Free, Serving, LockFree,
         files, history, readersVars
<1>6. ScanCurrent'
  BY DEF ScanEnd, CatalogMatchesVolumes, TypeOK, ScanCurrent, NoScan, Free, Serving,
         LockFree, files, history, readersVars
<1>7. StartsIdle'
  BY DEF ScanEnd, CatalogMatchesVolumes, TypeOK, StartsIdle, Free, NoScan, Serving,
         LockFree, files, history, readersVars
<1>8. CopiesAccounted'
  BY DEF ScanEnd, CatalogMatchesVolumes, TypeOK, CopiesAccounted, Extra, Free,
         Located, Serving, LockFree, files, history, readersVars, BornOnce,
         HolderReady
<1> QED BY <1>1, <1>2, <1>3, <1>4, <1>5, <1>6, <1>7, <1>8
        DEF CatalogMatchesVolumes

LEMMA RetentionScanInv ==
    ASSUME SegmentsAssumption, CatalogMatchesVolumes,
           RetentionScan
    PROVE  CatalogMatchesVolumes'
<1>1. TypeOK'
  BY DEF RetentionScan, CatalogMatchesVolumes, TypeOK, SegmentsAssumption, Row, NoRow,
         Holder, Holders, Free, Scan, NoScan, Passes, Integrities, Serving, Visible, files,
         history, readersVars
<1>2. NothingLost' /\ NoOrphans'
  BY DEF RetentionScan, CatalogMatchesVolumes, TypeOK, NothingLost, NoOrphans,
         Located, Serving, Visible, files, history, readersVars
<1>3. BornOnce'
  BY DEF RetentionScan, CatalogMatchesVolumes, TypeOK, BornOnce, Serving, Visible,
         files, history, readersVars
<1>4. DeletedIsGone'
  BY DEF RetentionScan, CatalogMatchesVolumes, TypeOK, DeletedIsGone, Located,
         Serving, Visible, files, history, readersVars
<1>5. HolderReady'
  BY DEF RetentionScan, CatalogMatchesVolumes, TypeOK, HolderReady, Free, Serving,
         Visible, files, history, readersVars, ScanCurrent, NoScan
<1>6. ScanCurrent'
  BY DEF RetentionScan, CatalogMatchesVolumes, TypeOK, ScanCurrent, NoScan, Free,
         Serving, Visible, files, history, readersVars
<1>7. StartsIdle'
  BY DEF RetentionScan, CatalogMatchesVolumes, TypeOK, StartsIdle, Free, NoScan,
         Serving, Visible, files, history, readersVars
<1>8. CopiesAccounted'
  BY DEF RetentionScan, CatalogMatchesVolumes, TypeOK, CopiesAccounted, Extra, Free,
         Located, Serving, Visible, files, history, readersVars, BornOnce,
         HolderReady
<1> QED BY <1>1, <1>2, <1>3, <1>4, <1>5, <1>6, <1>7, <1>8
        DEF CatalogMatchesVolumes

LEMMA RetentionUnlinkInv ==
    ASSUME SegmentsAssumption, CatalogMatchesVolumes,
           NEW s \in Segments, RetentionUnlink(s)
    PROVE  CatalogMatchesVolumes'
<1>1. TypeOK'
  BY DEF RetentionUnlink, CatalogMatchesVolumes, TypeOK, SegmentsAssumption, Row,
         NoRow, Holder, Holders, Free, Scan, NoScan, Passes, Integrities, Serving, LockFree,
         Retainable, Next1, Pruned, Located
<1>2. NothingLost' /\ NoOrphans'
  BY DEF RetentionUnlink, CatalogMatchesVolumes, TypeOK, NothingLost, NoOrphans,
         Located, Serving, LockFree, Retainable, Next1, Pruned
<1>3. BornOnce'
  BY DEF RetentionUnlink, CatalogMatchesVolumes, TypeOK, BornOnce, Serving, LockFree,
         Retainable, Next1, Pruned, Located
<1>4. DeletedIsGone'
  BY DEF RetentionUnlink, CatalogMatchesVolumes, TypeOK, DeletedIsGone, Located,
         Serving, LockFree, Retainable, Next1, Pruned, ScanCurrent
<1>5. HolderReady'
  BY DEF RetentionUnlink, CatalogMatchesVolumes, TypeOK, HolderReady, Free, Serving,
         LockFree, Retainable, Next1, Pruned, Located, ScanCurrent
<1>6. ScanCurrent'
  BY DEF RetentionUnlink, CatalogMatchesVolumes, TypeOK, ScanCurrent, NoScan, Free,
         Serving, LockFree, Retainable, Next1, Pruned, Located
<1>7. StartsIdle'
  BY DEF RetentionUnlink, CatalogMatchesVolumes, TypeOK, StartsIdle, Free, NoScan,
         Serving, LockFree, Retainable, Next1, Pruned, Located
<1>8. CopiesAccounted'
  BY DEF RetentionUnlink, CatalogMatchesVolumes, TypeOK, CopiesAccounted, Extra,
         Free, Located, Serving, LockFree, Retainable, Next1, Pruned, BornOnce,
         HolderReady
<1> QED BY <1>1, <1>2, <1>3, <1>4, <1>5, <1>6, <1>7, <1>8
        DEF CatalogMatchesVolumes

LEMMA RetentionMarkInv ==
    ASSUME SegmentsAssumption, CatalogMatchesVolumes,
           NEW s \in Segments, RetentionMark(s)
    PROVE  CatalogMatchesVolumes'
<1>1. TypeOK'
  <2>1. row \in [Segments -> Row] /\ row' = [row EXCEPT ![s].integrity = "deleted"]
    BY DEF RetentionMark, CatalogMatchesVolumes, TypeOK
  <2>2. row' \in [Segments -> Row]
    BY <2>1 DEF Row, Integrities
  <2>3. holder' \in Holder
    BY DEF RetentionMark, Holder, Holders, Free
  <2> QED
    BY <2>2, <2>3 DEF RetentionMark, CatalogMatchesVolumes, TypeOK, files, history, readersVars
<1>2. NothingLost' /\ NoOrphans'
  BY DEF RetentionMark, CatalogMatchesVolumes, TypeOK, NothingLost, NoOrphans,
         Located, Serving, files, history, readersVars, HolderReady, DeletedIsGone
<1>3. BornOnce'
  BY DEF RetentionMark, CatalogMatchesVolumes, TypeOK, BornOnce, Serving, files,
         history, readersVars, HolderReady, DeletedIsGone
<1>4. DeletedIsGone'
  BY DEF RetentionMark, CatalogMatchesVolumes, TypeOK, DeletedIsGone, Located,
         Serving, files, history, readersVars, HolderReady
<1>5. HolderReady'
  BY DEF RetentionMark, CatalogMatchesVolumes, TypeOK, HolderReady, Free, Serving,
         files, history, readersVars
<1>6. ScanCurrent'
  BY DEF RetentionMark, CatalogMatchesVolumes, TypeOK, ScanCurrent, NoScan, Free,
         Serving, files, history, readersVars, HolderReady
<1>7. StartsIdle'
  BY DEF RetentionMark, CatalogMatchesVolumes, TypeOK, StartsIdle, Free, NoScan,
         Serving, files, history, readersVars
<1>8. CopiesAccounted'
  BY DEF RetentionMark, CatalogMatchesVolumes, TypeOK, CopiesAccounted, Extra, Free,
         Located, Serving, files, history, readersVars, HolderReady, DeletedIsGone,
         BornOnce
<1> QED BY <1>1, <1>2, <1>3, <1>4, <1>5, <1>6, <1>7, <1>8
        DEF CatalogMatchesVolumes

LEMMA MigrateScanInv ==
    ASSUME SegmentsAssumption, CatalogMatchesVolumes,
           NEW v \in Volumes, NEW w \in Volumes, MigrateScan(v, w)
    PROVE  CatalogMatchesVolumes'
<1>1. TypeOK'
  BY DEF MigrateScan, CatalogMatchesVolumes, TypeOK, SegmentsAssumption, Row, NoRow,
         Holder, Holders, Free, Scan, NoScan, Passes, Integrities, Serving, Visible, files,
         history, readersVars
<1>2. NothingLost' /\ NoOrphans'
  BY DEF MigrateScan, CatalogMatchesVolumes, TypeOK, NothingLost, NoOrphans, Located,
         Serving, Visible, files, history, readersVars
<1>3. BornOnce'
  BY DEF MigrateScan, CatalogMatchesVolumes, TypeOK, BornOnce, Serving, Visible,
         files, history, readersVars
<1>4. DeletedIsGone'
  BY DEF MigrateScan, CatalogMatchesVolumes, TypeOK, DeletedIsGone, Located, Serving,
         Visible, files, history, readersVars
<1>5. HolderReady'
  BY DEF MigrateScan, CatalogMatchesVolumes, TypeOK, HolderReady, Free, Serving,
         Visible, files, history, readersVars, NoScan
<1>6. ScanCurrent'
  BY DEF MigrateScan, CatalogMatchesVolumes, TypeOK, ScanCurrent, NoScan, Free,
         Serving, Visible, files, history, readersVars
<1>7. StartsIdle'
  BY DEF MigrateScan, CatalogMatchesVolumes, TypeOK, StartsIdle, Free, NoScan,
         Serving, Visible, files, history, readersVars
<1>8. CopiesAccounted'
  <2>1. holder.who \notin {"switch", "unlink"}
    BY DEF MigrateScan, NoScan, CatalogMatchesVolumes, HolderReady
  <2>2. UNCHANGED <<row, media, strays, holder>>
    BY DEF MigrateScan, files, history
  <2> QED BY <2>1, <2>2 DEF CatalogMatchesVolumes, CopiesAccounted, Extra
<1> QED BY <1>1, <1>2, <1>3, <1>4, <1>5, <1>6, <1>7, <1>8
        DEF CatalogMatchesVolumes

LEMMA MigrateCopyInv ==
    ASSUME SegmentsAssumption, CatalogMatchesVolumes,
           NEW s \in Segments, NEW ok \in BOOLEAN, MigrateCopy(s, ok)
    PROVE  CatalogMatchesVolumes'
<1>1. TypeOK'
  BY DEF MigrateCopy, CatalogMatchesVolumes, TypeOK, SegmentsAssumption, Row, NoRow,
         Holder, Holders, Free, Scan, NoScan, Passes, Integrities, Serving, LockFree,
         Movable, Active, history, readersVars, ScanCurrent
<1>2. NothingLost' /\ NoOrphans'
  <2>1. /\ row' \in [Segments -> Row] /\ UNCHANGED <<unlinked, capture, phase>>
        /\ \A t \in Segments : /\ row'[t].volume = row[t].volume
                              /\ (row[t].integrity = "absent") = (row'[t].integrity = "absent")
    BY <1>1 DEF MigrateCopy, Movable, CatalogMatchesVolumes, TypeOK, Row, Integrities,
                history, readersVars
  <2>2. /\ media \subseteq media' /\ media' \subseteq media \cup {<<scan.target, s>>}
        /\ row[s].integrity # "absent"
    BY DEF MigrateCopy, Movable
  <2>3. NothingLost'
    BY <2>1, <2>2 DEF CatalogMatchesVolumes, NothingLost, Located
  <2>4. NoOrphans'
    BY <2>1, <2>2 DEF CatalogMatchesVolumes, NoOrphans
  <2> QED BY <2>3, <2>4
<1>3. BornOnce'
  <2>1. /\ UNCHANGED <<born, capture, readers, partials>>
        /\ row'[s].integrity # "absent"
        /\ \A t \in Segments \ {s} : row'[t] = row[t]
    BY DEF MigrateCopy, Movable, CatalogMatchesVolumes, TypeOK, Row, history, readersVars
  <2>2. /\ media' \subseteq media \cup {<<scan.target, s>>}
        /\ row[s].integrity # "absent"
    BY DEF MigrateCopy, Movable
  <2>3. \A t \in Segments \ {s}, w \in Volumes : <<w, t>> \in media' => <<w, t>> \in media
    BY <2>2
  <2>4. s \in born /\ capture[s] = "none" /\ \A w \in Volumes : <<w, s>> \notin partials
    BY <2>2 DEF CatalogMatchesVolumes, TypeOK, BornOnce
  <2>5. \A w \in Volumes : <<w, s>> \notin partials'
    BY <2>1, <2>4
  <2>6. ASSUME NEW t \in Segments \ {s}, NEW w \in Volumes
        PROVE  <<w, t>> \in media' <=> <<w, t>> \in media
    BY <2>3 DEF MigrateCopy
  <2>7. ASSUME NEW t \in Segments \ {s}
        PROVE  /\ t \notin born => /\ row'[t].integrity = "absent" /\ capture[t] = "none"
                                  /\ \A v \in Volumes : <<v, t>> \notin media' \cup partials
               /\ row'[t].integrity = "absent" => row'[t] = NoRow
               /\ capture[t] # "none" => row'[t].integrity = "absent"
               /\ readers[t] > 0 => row'[t].integrity # "absent"
               /\ row'[t].integrity = "absent" =>
                     \A v, w \in Volumes : <<v, t>> \in media' /\ <<w, t>> \in media' => v = w
               /\ \A v \in Volumes : <<v, t>> \in partials =>
                     /\ row'[t].integrity = "absent" /\ capture[t] # "finalized"
                     /\ \A w \in Volumes : <<w, t>> \notin media' /\ (w # v => <<w, t>> \notin partials)
    BY <2>1, <2>6 DEF CatalogMatchesVolumes, BornOnce
  <2> QED BY <2>1, <2>4, <2>5, <2>7 DEF BornOnce
<1>4. DeletedIsGone'
  <2>1. CASE ok /\ <<scan.source, s>> \in media
    <3>1. /\ media' = media \cup {<<scan.target, s>>} /\ UNCHANGED <<row, unlinked>>
      BY <2>1 DEF MigrateCopy, history
    <3>2. row[s].volume = scan.source
      BY DEF MigrateCopy, LockFree, Free, CatalogMatchesVolumes, ScanCurrent
    <3>3. s \notin unlinked
      BY <2>1, <3>2 DEF CatalogMatchesVolumes, DeletedIsGone, Located
    <3> QED BY <3>1, <3>3 DEF CatalogMatchesVolumes, DeletedIsGone, Located
  <2>2. CASE ~(ok /\ <<scan.source, s>> \in media)
    <3>1. /\ UNCHANGED <<media, unlinked>>
          /\ row' = [row EXCEPT ![s].integrity = "migration-failed"]
      BY <2>2 DEF MigrateCopy, history
    <3> QED BY <3>1 DEF CatalogMatchesVolumes, TypeOK, Row, DeletedIsGone, Located
  <2> QED BY <2>1, <2>2
<1>5. HolderReady'
  BY DEF MigrateCopy, CatalogMatchesVolumes, TypeOK, HolderReady, Free, Serving,
         LockFree, Movable, Active, history, readersVars, ScanCurrent, DeletedIsGone, Located
<1>6. ScanCurrent'
  BY DEF MigrateCopy, CatalogMatchesVolumes, TypeOK, ScanCurrent, NoScan, Free,
         Serving, LockFree, Movable, Active, history, readersVars
<1>7. StartsIdle'
  BY DEF MigrateCopy, CatalogMatchesVolumes, TypeOK, StartsIdle, Free, NoScan,
         Serving, LockFree, Movable, Active, history, readersVars
<1>8. CopiesAccounted'
  <2>1. holder.who = "none"
    BY DEF MigrateCopy, LockFree, Free
  <2>2. CASE ok /\ <<scan.source, s>> \in media
    <3>1. /\ media' = media \cup {<<scan.target, s>>}
          /\ strays' = strays \ {<<scan.target, s>>}
          /\ holder' = [who |-> "switch", segment |-> s]
          /\ UNCHANGED <<row, scan>>
      BY <2>2 DEF MigrateCopy
    <3> QED BY <2>1, <3>1 DEF CatalogMatchesVolumes, CopiesAccounted, Extra
  <2>3. CASE ~(ok /\ <<scan.source, s>> \in media)
    <3>1. /\ row' = [row EXCEPT ![s].integrity = "migration-failed"]
          /\ UNCHANGED <<media, strays, holder>>
      BY <2>3 DEF MigrateCopy
    <3>2. s \in scan.rows /\ scan.rows \subseteq Segments
      BY DEF MigrateCopy, CatalogMatchesVolumes, TypeOK, Scan
    <3>3. row[s].integrity # "absent"
      BY <3>2 DEF CatalogMatchesVolumes, ScanCurrent
    <3>4. row' \in [Segments -> Row] /\ \A t \in Segments : row'[t].volume = row[t].volume
      BY <3>1 DEF CatalogMatchesVolumes, TypeOK, Row, Integrities
    <3>5. \A t \in Segments : row'[t].integrity # "absent" => row[t].integrity # "absent"
      BY <3>1, <3>3 DEF CatalogMatchesVolumes, TypeOK, Row
    <3> QED BY <2>1, <3>1, <3>4, <3>5 DEF CatalogMatchesVolumes, CopiesAccounted, Extra
  <2> QED BY <2>2, <2>3
<1> QED BY <1>1, <1>2, <1>3, <1>4, <1>5, <1>6, <1>7, <1>8
        DEF CatalogMatchesVolumes

LEMMA MigrateSwitchInv ==
    ASSUME SegmentsAssumption, CatalogMatchesVolumes,
           NEW s \in Segments, MigrateSwitch(s)
    PROVE  CatalogMatchesVolumes'
<1>1. TypeOK'
  BY DEF MigrateSwitch, CatalogMatchesVolumes, TypeOK, SegmentsAssumption, Row, NoRow,
         Holder, Holders, Free, Scan, NoScan, Passes, Integrities, Serving, files, history,
         readersVars
<1>2. NothingLost' /\ NoOrphans'
  BY DEF MigrateSwitch, CatalogMatchesVolumes, TypeOK, NothingLost, NoOrphans,
         Located, Serving, files, history, readersVars, HolderReady
<1>3. BornOnce'
  BY DEF MigrateSwitch, CatalogMatchesVolumes, TypeOK, BornOnce, Serving, files,
         history, readersVars, HolderReady
<1>4. DeletedIsGone'
  <2>1. /\ s \notin unlinked
        /\ UNCHANGED <<media, unlinked>>
        /\ row' = [row EXCEPT ![s].volume = scan.target]
    BY DEF MigrateSwitch, CatalogMatchesVolumes, HolderReady, files, history
  <2>2. \A t \in Segments \ {s} : row'[t] = row[t]
    BY <2>1 DEF CatalogMatchesVolumes, TypeOK
  <2>3. row'[s].integrity = row[s].integrity
    BY <2>1 DEF CatalogMatchesVolumes, TypeOK, Row
  <2>4. UNCHANGED <<media, unlinked>> /\ s \notin unlinked
    BY <2>1
  <2>5. ASSUME NEW t \in Segments
        PROVE  /\ t \in unlinked' => row'[t].integrity # "absent" /\ <<row'[t].volume, t>> \notin media'
               /\ row'[t].integrity = "deleted" => t \in unlinked'
    BY <2>2, <2>3, <2>4 DEF CatalogMatchesVolumes, DeletedIsGone, Located
  <2> QED BY <2>5 DEF DeletedIsGone, Located
<1>5. HolderReady'
  BY DEF MigrateSwitch, CatalogMatchesVolumes, TypeOK, HolderReady, Free, Serving,
         files, history, readersVars
<1>6. ScanCurrent'
  BY DEF MigrateSwitch, CatalogMatchesVolumes, TypeOK, ScanCurrent, NoScan, Free,
         Serving, files, history, readersVars, HolderReady
<1>7. StartsIdle'
  BY DEF MigrateSwitch, CatalogMatchesVolumes, TypeOK, StartsIdle, Free, NoScan,
         Serving, files, history, readersVars
<1>8. CopiesAccounted'
  BY DEF MigrateSwitch, CatalogMatchesVolumes, TypeOK, CopiesAccounted, Extra, Free,
         Located, Serving, files, history, readersVars, HolderReady, BornOnce
<1> QED BY <1>1, <1>2, <1>3, <1>4, <1>5, <1>6, <1>7, <1>8
        DEF CatalogMatchesVolumes

LEMMA MigrateUnlinkInv ==
    ASSUME SegmentsAssumption, CatalogMatchesVolumes,
           NEW s \in Segments, NEW ok \in BOOLEAN, MigrateUnlink(s, ok)
    PROVE  CatalogMatchesVolumes'
<1>1. TypeOK'
  <2>1. media' \subseteq Volumes \X Segments
    BY DEF MigrateUnlink, CatalogMatchesVolumes, TypeOK
  <2>2. strays' \subseteq Volumes \X Segments
    <3>1. scan.source \in Volumes
      BY DEF MigrateUnlink, CatalogMatchesVolumes, HolderReady, ScanCurrent
    <3> QED BY <3>1 DEF MigrateUnlink, CatalogMatchesVolumes, TypeOK
  <2>3. holder' \in Holder /\ scan' \in Scan
    BY DEF MigrateUnlink, Holder, Holders, Free, Scan, NoScan, Passes
  <2> QED
    BY <2>1, <2>2, <2>3 DEF MigrateUnlink, CatalogMatchesVolumes, TypeOK, readersVars
<1>2. NothingLost' /\ NoOrphans'
  BY DEF MigrateUnlink, CatalogMatchesVolumes, TypeOK, NothingLost, NoOrphans,
         Located, Serving, history, readersVars, HolderReady, ScanCurrent
<1>3. BornOnce'
  BY DEF MigrateUnlink, CatalogMatchesVolumes, TypeOK, BornOnce, Serving, history,
         readersVars
<1>4. DeletedIsGone'
  BY DEF MigrateUnlink, CatalogMatchesVolumes, TypeOK, DeletedIsGone, Located,
         Serving, history, readersVars, HolderReady, ScanCurrent
<1>5. HolderReady'
  BY DEF MigrateUnlink, CatalogMatchesVolumes, TypeOK, HolderReady, Free, Serving,
         history, readersVars
<1>6. ScanCurrent'
  BY DEF MigrateUnlink, CatalogMatchesVolumes, TypeOK, ScanCurrent, NoScan, Free,
         Serving, history, readersVars
<1>7. StartsIdle'
  BY DEF MigrateUnlink, CatalogMatchesVolumes, TypeOK, StartsIdle, Free, NoScan,
         Serving, history, readersVars
<1>8. CopiesAccounted'
  BY DEF MigrateUnlink, CatalogMatchesVolumes, TypeOK, CopiesAccounted, Extra, Free,
         Located, Serving, history, readersVars, HolderReady, ScanCurrent, BornOnce
<1> QED BY <1>1, <1>2, <1>3, <1>4, <1>5, <1>6, <1>7, <1>8
        DEF CatalogMatchesVolumes

LEMMA ScrubScanInv ==
    ASSUME SegmentsAssumption, CatalogMatchesVolumes,
           ScrubScan
    PROVE  CatalogMatchesVolumes'
<1>1. TypeOK'
  BY DEF ScrubScan, CatalogMatchesVolumes, TypeOK, SegmentsAssumption, Row, NoRow,
         Holder, Holders, Free, Scan, NoScan, Passes, Integrities, Serving, Visible, files,
         history, readersVars
<1>2. NothingLost' /\ NoOrphans'
  BY DEF ScrubScan, CatalogMatchesVolumes, TypeOK, NothingLost, NoOrphans, Located,
         Serving, Visible, files, history, readersVars
<1>3. BornOnce'
  BY DEF ScrubScan, CatalogMatchesVolumes, TypeOK, BornOnce, Serving, Visible, files,
         history, readersVars
<1>4. DeletedIsGone'
  BY DEF ScrubScan, CatalogMatchesVolumes, TypeOK, DeletedIsGone, Located, Serving,
         Visible, files, history, readersVars
<1>5. HolderReady'
  BY DEF ScrubScan, CatalogMatchesVolumes, TypeOK, HolderReady, Free, Serving,
         Visible, files, history, readersVars, NoScan
<1>6. ScanCurrent'
  BY DEF ScrubScan, CatalogMatchesVolumes, TypeOK, ScanCurrent, NoScan, Free, Serving,
         Visible, files, history, readersVars
<1>7. StartsIdle'
  BY DEF ScrubScan, CatalogMatchesVolumes, TypeOK, StartsIdle, Free, NoScan, Serving,
         Visible, files, history, readersVars
<1>8. CopiesAccounted'
  BY DEF ScrubScan, CatalogMatchesVolumes, TypeOK, CopiesAccounted, Extra, Free,
         Located, Serving, Visible, files, history, readersVars, BornOnce,
         HolderReady
<1> QED BY <1>1, <1>2, <1>3, <1>4, <1>5, <1>6, <1>7, <1>8
        DEF CatalogMatchesVolumes

LEMMA ScrubCheckInv ==
    ASSUME SegmentsAssumption, CatalogMatchesVolumes,
           NEW s \in Segments, NEW ok \in BOOLEAN, ScrubCheck(s, ok)
    PROVE  CatalogMatchesVolumes'
<1>1. TypeOK'
  <2>1. row' \in [Segments -> Row] /\ scan' \in Scan
    <3>1. row' = row \/ row' = [row EXCEPT ![s].integrity = "corrupt"]
      BY DEF ScrubCheck
    <3>2. row' \in [Segments -> Row]
      BY <3>1 DEF CatalogMatchesVolumes, TypeOK, Row, Integrities
    <3>3. scan' \in Scan
      BY DEF ScrubCheck, Next1, CatalogMatchesVolumes, TypeOK, Scan
    <3> QED BY <3>2, <3>3
  <2>2. UNCHANGED <<media, partials, capture, readers, lease, holder, phase, born, unlinked, strays,
                  crashes>>
    BY DEF ScrubCheck, files, readersVars, history
  <2> QED BY <2>1, <2>2 DEF CatalogMatchesVolumes, TypeOK
<1>2. NothingLost' /\ NoOrphans'
  BY DEF ScrubCheck, CatalogMatchesVolumes, TypeOK, NothingLost, NoOrphans, Located,
         Serving, Next1, Active, files, history, readersVars, ScanCurrent
<1>3. BornOnce'
  BY DEF ScrubCheck, CatalogMatchesVolumes, TypeOK, BornOnce, Serving, Next1, Active,
         files, history, readersVars, ScanCurrent
<1>4. DeletedIsGone'
  BY DEF ScrubCheck, CatalogMatchesVolumes, TypeOK, DeletedIsGone, Located, Serving,
         Next1, Active, files, history, readersVars
<1>5. HolderReady'
  BY DEF ScrubCheck, CatalogMatchesVolumes, TypeOK, HolderReady, Free, Serving, Next1,
         Active, files, history, readersVars
<1>6. ScanCurrent'
  BY DEF ScrubCheck, CatalogMatchesVolumes, TypeOK, ScanCurrent, NoScan, Free,
         Serving, Next1, Active, files, history, readersVars
<1>7. StartsIdle'
  BY DEF ScrubCheck, CatalogMatchesVolumes, TypeOK, StartsIdle, Free, NoScan, Serving,
         Next1, Active, files, history, readersVars
<1>8. CopiesAccounted'
  BY DEF ScrubCheck, CatalogMatchesVolumes, TypeOK, CopiesAccounted, Extra, Free,
         Located, Serving, Next1, Active, files, history, readersVars, ScanCurrent,
         BornOnce, HolderReady
<1> QED BY <1>1, <1>2, <1>3, <1>4, <1>5, <1>6, <1>7, <1>8
        DEF CatalogMatchesVolumes

LEMMA CrashInv ==
    ASSUME SegmentsAssumption, CatalogMatchesVolumes,
           Crash
    PROVE  CatalogMatchesVolumes'
<1>1. TypeOK'
  BY DEF Crash, CatalogMatchesVolumes, TypeOK, SegmentsAssumption, Row, NoRow, Holder,
         Holders, Free, Scan, NoScan, Passes, Integrities, files
<1>2. NothingLost' /\ NoOrphans'
  BY DEF Crash, CatalogMatchesVolumes, TypeOK, NothingLost, NoOrphans, Located, files
<1>3. BornOnce'
  BY DEF Crash, CatalogMatchesVolumes, TypeOK, BornOnce, files
<1>4. DeletedIsGone'
  BY DEF Crash, CatalogMatchesVolumes, TypeOK, DeletedIsGone, Located, files
<1>5. HolderReady'
  BY DEF Crash, CatalogMatchesVolumes, TypeOK, HolderReady, Free, files
<1>6. ScanCurrent'
  BY DEF Crash, CatalogMatchesVolumes, TypeOK, ScanCurrent, NoScan, Free, files
<1>7. StartsIdle'
  BY DEF Crash, CatalogMatchesVolumes, TypeOK, StartsIdle, Free, NoScan, files
<1>8. CopiesAccounted'
  BY DEF Crash, CatalogMatchesVolumes, TypeOK, CopiesAccounted, Extra, Free,
         Located, files, BornOnce, HolderReady
<1> QED BY <1>1, <1>2, <1>3, <1>4, <1>5, <1>6, <1>7, <1>8
        DEF CatalogMatchesVolumes

LEMMA ReconcilePartialInv ==
    ASSUME SegmentsAssumption, CatalogMatchesVolumes,
           NEW s \in Segments, NEW v \in Volumes, NEW ok \in BOOLEAN, ReconcilePartial(s, v, ok)
    PROVE  CatalogMatchesVolumes'
<1>1. TypeOK'
  BY DEF ReconcilePartial, CatalogMatchesVolumes, TypeOK, SegmentsAssumption, Row,
         NoRow, Holder, Holders, Free, Scan, NoScan, Passes, Integrities, Added, history,
         readersVars
<1>2. NothingLost' /\ NoOrphans'
  BY DEF ReconcilePartial, CatalogMatchesVolumes, TypeOK, NothingLost, NoOrphans,
         Located, Added, history, readersVars, BornOnce
<1>3. BornOnce'
  <2>1. /\ UNCHANGED <<born, capture, readers>>
        /\ partials' = partials \ {<<v, s>>} /\ <<v, s>> \in partials
        /\ media' \subseteq media \cup {<<v, s>>}
        /\ \A t \in Segments \ {s} : row'[t] = row[t]
    BY DEF ReconcilePartial, Added, CatalogMatchesVolumes, TypeOK, history, readersVars
  <2>2. /\ s \in born /\ capture[s] = "none" /\ readers[s] = 0
        /\ \A w \in Volumes : <<w, s>> \notin partials'
    BY <2>1 DEF ReconcilePartial, CatalogMatchesVolumes, BornOnce, StartsIdle
  <2>3. /\ row'[s].integrity = "absent" => row'[s] = NoRow
        /\ readers'[s] = 0
    BY <2>1, <2>2 DEF ReconcilePartial, Added, CatalogMatchesVolumes, TypeOK, BornOnce
  <2>4. \A t \in Segments \ {s}, w \in Volumes :
           <<w, t>> \in media' <=> <<w, t>> \in media
    BY DEF ReconcilePartial
  <2> QED BY <2>1, <2>2, <2>3, <2>4 DEF CatalogMatchesVolumes, BornOnce
<1>4. DeletedIsGone'
  BY DEF ReconcilePartial, CatalogMatchesVolumes, TypeOK, DeletedIsGone, Located,
         Added, history, readersVars, BornOnce
<1>5. HolderReady'
  BY DEF ReconcilePartial, CatalogMatchesVolumes, TypeOK, HolderReady, Free, Added,
         history, readersVars, StartsIdle
<1>6. ScanCurrent'
  BY DEF ReconcilePartial, CatalogMatchesVolumes, TypeOK, ScanCurrent, NoScan, Free,
         Added, history, readersVars, StartsIdle
<1>7. StartsIdle'
  BY DEF ReconcilePartial, CatalogMatchesVolumes, TypeOK, StartsIdle, Free, NoScan,
         Added, history, readersVars
<1>8. CopiesAccounted'
  BY DEF ReconcilePartial, CatalogMatchesVolumes, TypeOK, CopiesAccounted, Extra,
         Free, Located, Added, history, readersVars, BornOnce, HolderReady
<1> QED BY <1>1, <1>2, <1>3, <1>4, <1>5, <1>6, <1>7, <1>8
        DEF CatalogMatchesVolumes

LEMMA ReconcileOrphanInv ==
    ASSUME SegmentsAssumption, CatalogMatchesVolumes,
           NEW s \in Segments, NEW v \in Volumes, ReconcileOrphan(s, v)
    PROVE  CatalogMatchesVolumes'
<1>1. TypeOK'
  BY DEF ReconcileOrphan, CatalogMatchesVolumes, TypeOK, SegmentsAssumption, Row,
         NoRow, Holder, Holders, Free, Scan, NoScan, Passes, Integrities, Orphan, Added,
         files, history, readersVars
<1>2. NothingLost' /\ NoOrphans'
  BY DEF ReconcileOrphan, CatalogMatchesVolumes, TypeOK, NothingLost, NoOrphans,
         Located, Orphan, Added, files, history, readersVars
<1>3. BornOnce'
  BY DEF ReconcileOrphan, CatalogMatchesVolumes, TypeOK, BornOnce, Orphan, Added,
         files, history, readersVars, StartsIdle
<1>4. DeletedIsGone'
  BY DEF ReconcileOrphan, CatalogMatchesVolumes, TypeOK, DeletedIsGone, Located,
         Orphan, Added, files, history, readersVars
<1>5. HolderReady'
  BY DEF ReconcileOrphan, CatalogMatchesVolumes, TypeOK, HolderReady, Free, Orphan,
         Added, files, history, readersVars, StartsIdle
<1>6. ScanCurrent'
  BY DEF ReconcileOrphan, CatalogMatchesVolumes, TypeOK, ScanCurrent, NoScan, Free,
         Orphan, Added, files, history, readersVars, StartsIdle
<1>7. StartsIdle'
  BY DEF ReconcileOrphan, CatalogMatchesVolumes, TypeOK, StartsIdle, Free, NoScan,
         Orphan, Added, files, history, readersVars
<1>8. CopiesAccounted'
  BY DEF ReconcileOrphan, CatalogMatchesVolumes, TypeOK, CopiesAccounted, Extra,
         Free, Located, Orphan, Added, files, history, readersVars, BornOnce,
         HolderReady
<1> QED BY <1>1, <1>2, <1>3, <1>4, <1>5, <1>6, <1>7, <1>8
        DEF CatalogMatchesVolumes

LEMMA ReconcileMissingInv ==
    ASSUME SegmentsAssumption, CatalogMatchesVolumes,
           NEW s \in Segments, ReconcileMissing(s)
    PROVE  CatalogMatchesVolumes'
<1>1. TypeOK'
  BY DEF ReconcileMissing, CatalogMatchesVolumes, TypeOK, SegmentsAssumption, Row,
         NoRow, Holder, Holders, Free, Scan, NoScan, Passes, Integrities, Visible, Located,
         files, history, readersVars
<1>2. NothingLost' /\ NoOrphans'
  BY DEF ReconcileMissing, CatalogMatchesVolumes, TypeOK, NothingLost, NoOrphans,
         Located, Visible, files, history, readersVars
<1>3. BornOnce'
  BY DEF ReconcileMissing, CatalogMatchesVolumes, TypeOK, BornOnce, Visible, Located,
         files, history, readersVars
<1>4. DeletedIsGone'
  BY DEF ReconcileMissing, CatalogMatchesVolumes, TypeOK, DeletedIsGone, Located,
         Visible, files, history, readersVars
<1>5. HolderReady'
  BY DEF ReconcileMissing, CatalogMatchesVolumes, TypeOK, HolderReady, Free, Visible,
         Located, files, history, readersVars, StartsIdle
<1>6. ScanCurrent'
  BY DEF ReconcileMissing, CatalogMatchesVolumes, TypeOK, ScanCurrent, NoScan, Free,
         Visible, Located, files, history, readersVars, StartsIdle
<1>7. StartsIdle'
  BY DEF ReconcileMissing, CatalogMatchesVolumes, TypeOK, StartsIdle, Free, NoScan,
         Visible, Located, files, history, readersVars
<1>8. CopiesAccounted'
  BY DEF ReconcileMissing, CatalogMatchesVolumes, TypeOK, CopiesAccounted, Extra,
         Free, Located, Visible, files, history, readersVars, BornOnce, HolderReady
<1> QED BY <1>1, <1>2, <1>3, <1>4, <1>5, <1>6, <1>7, <1>8
        DEF CatalogMatchesVolumes

LEMMA ReconcileDoneInv ==
    ASSUME SegmentsAssumption, CatalogMatchesVolumes,
           ReconcileDone
    PROVE  CatalogMatchesVolumes'
<1>1. TypeOK'
  BY DEF ReconcileDone, CatalogMatchesVolumes, TypeOK, SegmentsAssumption, Row, NoRow,
         Holder, Holders, Free, Scan, NoScan, Passes, Integrities, Orphan, files, history,
         readersVars
<1>2. NothingLost' /\ NoOrphans'
  BY DEF ReconcileDone, CatalogMatchesVolumes, TypeOK, NothingLost, NoOrphans,
         Located, Orphan, files, history, readersVars
<1>3. BornOnce'
  BY DEF ReconcileDone, CatalogMatchesVolumes, TypeOK, BornOnce, Orphan, files,
         history, readersVars
<1>4. DeletedIsGone'
  BY DEF ReconcileDone, CatalogMatchesVolumes, TypeOK, DeletedIsGone, Located, Orphan,
         files, history, readersVars
<1>5. HolderReady'
  BY DEF ReconcileDone, CatalogMatchesVolumes, TypeOK, HolderReady, Free, Orphan,
         files, history, readersVars
<1>6. ScanCurrent'
  BY DEF ReconcileDone, CatalogMatchesVolumes, TypeOK, ScanCurrent, NoScan, Free,
         Orphan, files, history, readersVars
<1>7. StartsIdle'
  BY DEF ReconcileDone, CatalogMatchesVolumes, TypeOK, StartsIdle, Free, NoScan,
         Orphan, files, history, readersVars
<1>8. CopiesAccounted'
  BY DEF ReconcileDone, CatalogMatchesVolumes, TypeOK, CopiesAccounted, Extra, Free,
         Located, Orphan, files, history, readersVars, BornOnce, HolderReady
<1> QED BY <1>1, <1>2, <1>3, <1>4, <1>5, <1>6, <1>7, <1>8
        DEF CatalogMatchesVolumes

LEMMA InitInv == SegmentsAssumption /\ Init => CatalogMatchesVolumes
<1> SUFFICES ASSUME SegmentsAssumption, Init PROVE CatalogMatchesVolumes
  OBVIOUS
<1>1. TypeOK
  BY DEF Init, TypeOK, SegmentsAssumption, Row, NoRow, Holder, Holders, Free, Scan, NoScan,
         Passes, Integrities
<1>2. NothingLost /\ NoOrphans /\ CopiesAccounted /\ BornOnce /\ DeletedIsGone
  BY DEF Init, NoRow, NothingLost, NoOrphans, CopiesAccounted, BornOnce, DeletedIsGone
<1>3. HolderReady /\ ScanCurrent /\ StartsIdle
  BY DEF Init, NoScan, Free, HolderReady, ScanCurrent, StartsIdle
<1> QED BY <1>1, <1>2, <1>3 DEF CatalogMatchesVolumes

LEMMA NextInv ==
    ASSUME SegmentsAssumption, CatalogMatchesVolumes, [Next]_vars
    PROVE  CatalogMatchesVolumes'
<1>1. ASSUME NEW s \in Segments, RecorderStep(s) PROVE CatalogMatchesVolumes'
  BY <1>1, CaptureStartInv, CaptureFailInv, CaptureRenameInv, CaptureCatalogInv DEF RecorderStep
<1>2. ASSUME NEW s \in Segments, RequestStep(s) PROVE CatalogMatchesVolumes'
  BY <1>2, PinSegmentInv, UnpinSegmentInv, CreatePlaybackLeaseInv, ReleasePlaybackLeaseInv,
     LeaseExpiresInv, SetLockInv, DeleteUnlinkInv, DeleteMarkInv DEF RequestStep
<1>3. CASE MaintenanceStep
  <2>1. CASE ScanEnd \/ RetentionScan \/ ScrubScan
    BY <2>1, ScanEndInv, RetentionScanInv, ScrubScanInv
  <2>2. ASSUME NEW v \in Volumes, NEW w \in Volumes, MigrateScan(v, w)
        PROVE  CatalogMatchesVolumes'
    BY <2>2, MigrateScanInv
  <2>3. ASSUME NEW s \in Segments,
               ScanSkip(s) \/ RetentionUnlink(s) \/ RetentionMark(s) \/ MigrateSwitch(s)
        PROVE  CatalogMatchesVolumes'
    BY <2>3, ScanSkipInv, RetentionUnlinkInv, RetentionMarkInv, MigrateSwitchInv
  <2>4. ASSUME NEW s \in Segments, NEW ok \in BOOLEAN,
               MigrateCopy(s, ok) \/ MigrateUnlink(s, ok) \/ ScrubCheck(s, ok)
        PROVE  CatalogMatchesVolumes'
    BY <2>4, MigrateCopyInv, MigrateUnlinkInv, ScrubCheckInv
  <2> QED BY <1>3, <2>1, <2>2, <2>3, <2>4 DEF MaintenanceStep
<1>4. CASE Crash
  BY <1>4, CrashInv
<1>5. CASE ReconcileStep
  BY <1>5, ReconcilePartialInv, ReconcileOrphanInv, ReconcileMissingInv, ReconcileDoneInv
     DEF ReconcileStep
<1>6. CASE UNCHANGED vars
  BY <1>6 DEF vars, CatalogMatchesVolumes, TypeOK, NothingLost, NoOrphans, CopiesAccounted,
              Extra, BornOnce, DeletedIsGone, HolderReady, ScanCurrent, StartsIdle, Located
<1> QED BY <1>1, <1>2, <1>3, <1>4, <1>5, <1>6 DEF Next

\* Whatever recorder, requests, maintenance, crashes and restarts do, and
\* between any two of their steps: the catalog's location of a segment that
\* nobody deleted holds its media; a finished file is of a segment that has a
\* row, up to the moment between its rename and its INSERT; and a file that
\* is not where that row says is a second copy of a migration
\* (nvr_service.py:1018-1023).
THEOREM CatalogTheorem ==
    SegmentsAssumption => (Spec => []CatalogMatchesVolumes)
<1> SUFFICES ASSUME SegmentsAssumption PROVE Spec => []CatalogMatchesVolumes
  OBVIOUS
<1>1. Init => CatalogMatchesVolumes
  BY InitInv
<1>2. CatalogMatchesVolumes /\ [Next]_vars => CatalogMatchesVolumes'
  BY NextInv
<1> QED BY <1>1, <1>2, PTL DEF Spec

-----------------------------------------------------------------------------
(* What is protected stays; what is pinned does not move.                  *)

\* A segment in the catalog stays in it, be it as deleted.
LEMMA RowsStay ==
    ASSUME CatalogMatchesVolumes, [Next]_vars, NEW t \in Segments,
           row[t].integrity # "absent"
    PROVE  row'[t].integrity # "absent"
<1>0. row \in [Segments -> Row]
  BY DEF CatalogMatchesVolumes, TypeOK
<1>1. ASSUME NEW s \in Segments, RecorderStep(s) PROVE row'[t].integrity # "absent"
  <2>1. CASE CaptureCatalog(s)
    BY <1>0, <2>1 DEF CaptureCatalog
  <2> QED BY <1>1, <2>1 DEF RecorderStep, CaptureStart, CaptureFail, CaptureRename
<1>2. ASSUME NEW s \in Segments, RequestStep(s) PROVE row'[t].integrity # "absent"
  BY <1>0, <1>2 DEF RequestStep, PinSegment, UnpinSegment, CreatePlaybackLease,
     ReleasePlaybackLease, LeaseExpires, SetLock, DeleteUnlink, DeleteMark, Row
<1>3. CASE MaintenanceStep
  <2>1. \/ UNCHANGED row
        \/ \E s \in Segments :
             \/ MigrateSwitch(s) \/ RetentionMark(s)
             \/ \E ok \in BOOLEAN : MigrateCopy(s, ok) \/ ScrubCheck(s, ok)
    BY <1>3 DEF MaintenanceStep, ScanEnd, RetentionScan, ScrubScan, MigrateScan, ScanSkip,
                RetentionUnlink, MigrateUnlink
  <2>2. ASSUME NEW s \in Segments, MigrateSwitch(s) PROVE row'[t].integrity # "absent"
    BY <1>0, <2>2 DEF MigrateSwitch, Row
  <2>3. ASSUME NEW s \in Segments, RetentionMark(s) PROVE row'[t].integrity # "absent"
    BY <1>0, <2>3 DEF RetentionMark, Row
  <2>4. ASSUME NEW s \in Segments, NEW ok \in BOOLEAN, MigrateCopy(s, ok) \/ ScrubCheck(s, ok)
        PROVE  row'[t].integrity # "absent"
    <3>1. \/ UNCHANGED row
          \/ \E i \in {"migration-failed", "corrupt"} : row' = [row EXCEPT ![s].integrity = i]
      BY <2>4 DEF MigrateCopy, ScrubCheck
    <3> QED BY <1>0, <3>1 DEF Row
  <2> QED BY <2>1, <2>2, <2>3, <2>4
<1>4. CASE Crash
  BY <1>4 DEF Crash
<1>5. CASE ReconcileStep
  BY <1>0, <1>5 DEF ReconcileStep, ReconcilePartial, ReconcileOrphan, ReconcileMissing,
                    ReconcileDone, Added, Row
<1>6. CASE UNCHANGED vars
  BY <1>6 DEF vars
<1> QED BY <1>1, <1>2, <1>3, <1>4, <1>5, <1>6 DEF Next

\* Only what nobody protects is deleted: the look at lock and readers and
\* the unlink are under one hold of reader_lock.
LEMMA UnprotectedDeleted ==
    ASSUME [Next]_vars, NEW t \in Segments, t \notin unlinked, t \in unlinked'
    PROVE  ~row[t].locked /\ ~ActiveNow(t)
<1>1. \E s \in Segments : DeleteUnlink(s) \/ RetentionUnlink(s)
  <2>1. ASSUME NEW s \in Segments, RecorderStep(s) \/ RequestStep(s), ~DeleteUnlink(s)
        PROVE  FALSE
    BY <2>1 DEF RecorderStep, RequestStep, CaptureStart, CaptureFail, CaptureRename,
         CaptureCatalog, PinSegment, UnpinSegment, CreatePlaybackLease,
         ReleasePlaybackLease, LeaseExpires, SetLock, DeleteMark, history
  <2>2. ASSUME MaintenanceStep, ~(\E s \in Segments : RetentionUnlink(s)) PROVE FALSE
    BY <2>2 DEF MaintenanceStep, ScanEnd, RetentionScan, ScrubScan, MigrateScan, ScanSkip,
         RetentionMark, MigrateSwitch, MigrateCopy, MigrateUnlink, ScrubCheck, history
  <2>3. ~Crash /\ ~ReconcileStep /\ ~UNCHANGED vars
    BY DEF Crash, ReconcileStep, ReconcilePartial, ReconcileOrphan, ReconcileMissing,
           ReconcileDone, history, vars
  <2> QED BY <2>1, <2>2, <2>3 DEF Next
<1>2. PICK s \in Segments : DeleteUnlink(s) \/ RetentionUnlink(s)
  BY <1>1
<1>3. t = s
  BY <1>2 DEF DeleteUnlink, RetentionUnlink
<1> QED BY <1>2, <1>3 DEF DeleteUnlink, RetentionUnlink, Retainable

\* Media under an evidence lock, a reader or a live lease stays where the
\* catalog says it is (delete_segment, enforce_retention, _migrate).
THEOREM ProtectedTheorem == SegmentsAssumption => (Spec => ProtectedMediaStays)
<1> SUFFICES ASSUME SegmentsAssumption PROVE Spec => ProtectedMediaStays
  OBVIOUS
<1>1. ASSUME CatalogMatchesVolumes, CatalogMatchesVolumes', [Next]_vars, NEW t \in Segments,
             row[t].locked \/ ActiveNow(t), Located(t) \in media
      PROVE  Located(t)' \in media' /\ row'[t].integrity # "deleted"
  <2>1. t \notin unlinked
    BY <1>1 DEF CatalogMatchesVolumes, DeletedIsGone
  <2>2. t \notin unlinked'
    BY <1>1, <2>1, UnprotectedDeleted
  <2>3. row[t].volume \in Volumes
    BY <1>1 DEF CatalogMatchesVolumes, TypeOK, Located
  <2>4. row[t].integrity # "absent"
    BY <1>1, <2>3 DEF CatalogMatchesVolumes, BornOnce, NoRow, SegmentsAssumption
  <2>5. row'[t].integrity # "absent"
    BY <1>1, <2>4, RowsStay
  <2> QED BY <1>1, <2>2, <2>5 DEF CatalogMatchesVolumes, NothingLost, DeletedIsGone
<1>2. CatalogMatchesVolumes /\ CatalogMatchesVolumes' /\ [Next]_vars
      => [\A s \in Segments :
            /\ row[s].locked \/ ActiveNow(s)
            /\ Located(s) \in media
            => Located(s)' \in media' /\ row'[s].integrity # "deleted"]_vars
  BY <1>1
<1>3. Spec => []CatalogMatchesVolumes
  BY CatalogTheorem
<1> QED BY <1>2, <1>3, PTL DEF Spec, ProtectedMediaStays

\* The path a reader was given stays valid while it is pinned (pin_segment,
\* _migrate).
THEOREM PinnedTheorem == SegmentsAssumption => (Spec => PinnedPathStays)
<1> SUFFICES ASSUME SegmentsAssumption PROVE Spec => PinnedPathStays
  OBVIOUS
<1>1. ASSUME CatalogMatchesVolumes, [Next]_vars, NEW t \in Segments,
             readers[t] > 0, readers'[t] > 0
      PROVE  row'[t].volume = row[t].volume
  <2>1. row \in [Segments -> Row] /\ row[t].integrity # "absent"
    BY <1>1 DEF CatalogMatchesVolumes, TypeOK, BornOnce
  <2>2. ASSUME NEW s \in Segments, RecorderStep(s) PROVE row'[t].volume = row[t].volume
    <3>1. CASE CaptureCatalog(s)
      <4>1. row[s].integrity = "absent"
        BY <1>1, <3>1 DEF CaptureCatalog, CatalogMatchesVolumes, BornOnce
      <4> QED BY <2>1, <3>1, <4>1 DEF CaptureCatalog
    <3> QED BY <2>2, <3>1 DEF RecorderStep, CaptureStart, CaptureFail, CaptureRename
  <2>3. ASSUME NEW s \in Segments, RequestStep(s) PROVE row'[t].volume = row[t].volume
    BY <2>1, <2>3 DEF RequestStep, PinSegment, UnpinSegment, CreatePlaybackLease,
         ReleasePlaybackLease, LeaseExpires, SetLock, DeleteUnlink, DeleteMark, Row
  <2>4. CASE MaintenanceStep
    <3>1. ASSUME NEW s \in Segments, MigrateSwitch(s) PROVE row'[t].volume = row[t].volume
      <4>1. s # t
        BY <1>1, <3>1 DEF MigrateSwitch, CatalogMatchesVolumes, HolderReady
      <4> QED BY <2>1, <3>1, <4>1 DEF MigrateSwitch
    <3>2. ASSUME ~(\E s \in Segments : MigrateSwitch(s)) PROVE row'[t].volume = row[t].volume
      <4>1. \/ UNCHANGED row
            \/ \E s \in Segments, i \in Integrities : row' = [row EXCEPT ![s].integrity = i]
        BY <2>4, <3>2 DEF MaintenanceStep, ScanEnd, RetentionScan, ScrubScan, MigrateScan,
             ScanSkip, RetentionUnlink, RetentionMark, MigrateCopy, MigrateUnlink,
             ScrubCheck, Integrities
      <4> QED BY <2>1, <4>1 DEF Row
    <3> QED BY <3>1, <3>2
  <2>5. CASE Crash \/ UNCHANGED vars
    BY <2>5 DEF Crash, vars
  <2>6. CASE ReconcileStep
    <3>1. \/ UNCHANGED row
          \/ \E s \in Segments :
               \/ row[s].integrity = "absent" /\ \A r \in Segments \ {s} : row'[r] = row[r]
               \/ row' = [row EXCEPT ![s].integrity = "missing"]
      BY <2>1, <2>6 DEF ReconcileStep, ReconcilePartial, ReconcileOrphan, ReconcileMissing,
                        ReconcileDone, Added
    <3> QED BY <2>1, <3>1 DEF Row
  <2> QED BY <1>1, <2>2, <2>3, <2>4, <2>5, <2>6 DEF Next
<1>2. CatalogMatchesVolumes /\ [Next]_vars
      => [\A s \in Segments :
            readers[s] > 0 /\ readers'[s] > 0 => row'[s].volume = row[s].volume]_vars
  BY <1>1
<1>3. Spec => []CatalogMatchesVolumes
  BY CatalogTheorem
<1> QED BY <1>2, <1>3, PTL DEF Spec, PinnedPathStays
=============================================================================
