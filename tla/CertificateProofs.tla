--------------------------- MODULE CertificateProofs ---------------------------
EXTENDS Certificates, TLAPS

(* What issuing, renewing and serving the certificate promise, for any number  *)
(* of requests, pairs and faults.  CertInv is inductive: the lock keeps two    *)
(* writers apart, a pair about to be written is newer than both files, and the *)
(* reloader never serves less than it saw.                                     *)

-----------------------------------------------------------------------------
(* One request, or the renewal loop, moves.                                    *)

\* Pairs are natural numbers.
LEMMA PairsAreNumbers == PairNumbers \subseteq Nat
  BY CertAssumption DEF PairNumbers

\* What the others are doing still fits: none of them holds the lock while the
\* mover takes it or uses it.
LEMMA OthersKeep ==
    ASSUME CertInv, NEW x \in Issuers, NEW y \in Issuers \ {x},
           issuance'[y] = issuance[y],
           certReloader' = certReloader, certReloader.pc # "ensureKey",
           \/ tlsHolder' = tlsHolder
           \/ tlsHolder \in {"free", x},
           \/ UNCHANGED <<certFile, pairKeyFile>> /\ tlsMem'.mode = tlsMem.mode
           \/ tlsHolder = x,
           certReloader.pc = "ensure" => tlsMem'.mode \in {tlsMem.mode, "acme"},
           pairsMade' \in Nat, pairsMade <= pairsMade'
    PROVE  /\ IssuerInv(y)'
           /\ issuance'[y].pc \in HoldingLock => tlsHolder' = y
<1>1. /\ pairsMade \in Nat /\ issuance[y].pair \in Nat /\ y # "free" /\ y # x
      /\ issuance[y].pc \in HoldingLock => tlsHolder = y
      /\ IssuerInv(y)
  BY PairsAreNumbers, CertAssumption, Zenon DEF CertInv, PairTypes, Issuers, IssueType
<1>2. CASE issuance[y].pc \in HoldingLock
  <2>1. tlsHolder = y /\ tlsHolder' = tlsHolder /\ UNCHANGED <<certFile, pairKeyFile>> /\ tlsMem'.mode = tlsMem.mode
    BY <1>1, <1>2
  <2>. QED BY <1>1, <2>1 DEF IssuerInv
<1>3. CASE issuance[y].pc \notin HoldingLock
  <2>1. issuance[y].pc \notin {"first", "second"} /\ issuance[y].pc \notin WritingPair
    BY <1>3 DEF HoldingLock, WritingPair
  <2>2. issuance[y].pc # "idle" => pairsMade' # 0
    BY <1>1 DEF IssuerInv
  <2>3. issuance[y].pair <= pairsMade'
    BY <1>1 DEF IssuerInv
  <2>4. certReloader'.pc = "ensure" /\ issuance'[y].pc # "idle" => y = Renewal /\ tlsMem'.mode = "acme"
    BY <1>1 DEF IssuerInv
  <2>. QED BY <1>3, <2>1, <2>2, <2>3, <2>4 DEF IssuerInv
<1>. QED BY <1>2, <1>3

\* What the reloader saw and serves stays behind files that only get newer.
LEMMA ReloaderKeeps ==
    ASSUME CertInv, certReloader' = certReloader, certReloader.pc # "ensureKey",
           pairsMade' \in Nat, pairsMade <= pairsMade',
           certFile' \in Nat, certFile <= certFile',
           pairKeyFile' \in Nat, pairKeyFile <= pairKeyFile'
    PROVE  ReloaderInv'
<1>. DEFINE r == certReloader
<1>1. /\ r.served \in Nat /\ r.certMod \in Nat /\ r.keyMod \in Nat /\ r.read \in Nat
      /\ r.seen[1] \in Nat /\ r.seen[2] \in Nat /\ r'.seen = r.seen
      /\ certFile \in Nat /\ pairKeyFile \in Nat /\ pairsMade \in Nat
  BY PairsAreNumbers, Zenon DEF CertInv, PairTypes, ReloaderType
<1>. QED BY <1>1 DEF CertInv, ReloaderInv

\* The invariant after a step of one issuer, from what the step did.
LEMMA IssuerMoves ==
    ASSUME CertInv, NEW x \in Issuers,
           issuance' \in [Issuers -> IssueType],
           \A y \in Issuers \ {x} : issuance'[y] = issuance[y],
           certReloader' = certReloader, certReloader.pc # "ensureKey",
           \/ tlsHolder' \in {"free", x} /\ tlsHolder \in {"free", x}
           \/ tlsHolder' = tlsHolder,
           issuance'[x].pc \in HoldingLock => tlsHolder' = x,
           \/ UNCHANGED <<certFile, pairKeyFile>> /\ tlsMem'.mode = tlsMem.mode
           \/ tlsHolder = x,
           tlsMem' \in TLSSettings, tlsDisk' \in TLSSettings,
           certReloader.pc = "ensure" => tlsMem'.mode \in {tlsMem.mode, "acme"},
           pairsMade' \in PairNumbers, pairsMade <= pairsMade',
           certFile' \in PairNumbers, certFile <= certFile',
           pairKeyFile' \in PairNumbers, pairKeyFile <= pairKeyFile',
           certDue' \in BOOLEAN, pairTorn' \in BOOLEAN,
           FilesInv', IssuerInv(x)'
    PROVE  CertInv'
<1>1. pairsMade' \in Nat /\ certFile' \in Nat /\ pairKeyFile' \in Nat
  BY PairsAreNumbers
<1>2. \A y \in Issuers \ {x} : IssuerInv(y)' /\ (issuance'[y].pc \in HoldingLock => tlsHolder' = y)
  BY <1>1, OthersKeep
<1>3. ReloaderInv'
  BY <1>1, ReloaderKeeps
<1>4. tlsHolder' \in Issuers \cup {"free"}
  BY DEF CertInv, PairTypes
<1>5. \A y \in Issuers : issuance'[y].pc \in HoldingLock => tlsHolder' = y
  BY <1>2
<1>6. PairTypes'
  BY <1>4, <1>5 DEF CertInv, PairTypes
<1>. QED BY <1>2, <1>3, <1>6 DEF CertInv

\* An issuance that neither has nor takes the lock: it may only go where it is
\* allowed to be.
LEMMA UnlockedMoves ==
    ASSUME CertInv, NEW x \in Issuers, NEW r \in IssueType,
           issuance' = [issuance EXCEPT ![x] = r],
           r.pc \notin HoldingLock, issuance[x].pc \notin HoldingLock, r.pair \in {issuance[x].pair, 0},
           r.pc # "idle" => /\ pairsMade # 0
                            /\ certReloader.pc = "ensure" => x = Renewal /\ tlsMem.mode = "acme",
           tlsMem' \in TLSSettings, tlsMem'.mode = tlsMem.mode, tlsDisk' \in TLSSettings,
           UNCHANGED <<certFiles, tlsHolder, certReloader>>, certReloader.pc # "ensureKey"
    PROVE  CertInv'
<1>1. issuance'[x] = r /\ \A y \in Issuers \ {x} : issuance'[y] = issuance[y]
  BY DEF CertInv, PairTypes
<1>2. issuance' \in [Issuers -> IssueType]
  BY DEF CertInv, PairTypes
<1>3. UNCHANGED <<certFile, pairKeyFile, certDue, pairsMade, pairTorn>>
  BY DEF certFiles
<1>4. pairsMade \in Nat /\ certFile \in Nat /\ pairKeyFile \in Nat /\ issuance[x].pair \in Nat
  BY PairsAreNumbers, Zenon DEF CertInv, PairTypes, IssueType
<1>5. IssuerInv(x)'
  <2>1. r.pair <= pairsMade
    BY <1>4 DEF CertInv, IssuerInv
  <2>2. r.pc \notin {"first", "second"} /\ r.pc \notin WritingPair
    BY DEF HoldingLock, WritingPair
  <2>. QED BY <1>1, <1>3, <2>1, <2>2 DEF IssuerInv
<1>6. FilesInv'
  BY <1>3 DEF CertInv, FilesInv
<1>7. /\ pairsMade' \in PairNumbers /\ certFile' \in PairNumbers /\ pairKeyFile' \in PairNumbers
      /\ certDue' \in BOOLEAN /\ pairTorn' \in BOOLEAN
  BY <1>3 DEF CertInv, PairTypes
<1>8. pairsMade <= pairsMade' /\ certFile <= certFile' /\ pairKeyFile <= pairKeyFile'
  BY <1>3, <1>4
<1>. QED BY <1>1, <1>2, <1>3, <1>5, <1>6, <1>7, <1>8, IssuerMoves

\* The records an issuance is made of.
LEMMA IssueRecords ==
    ASSUME CertInv, NEW x \in Issuers
    PROVE  /\ NoIssue \in IssueType
           /\ \A pc \in IssueSteps : [issuance[x] EXCEPT !.pc = pc] \in IssueType
           /\ issuance[x].previous \in AcmeBlocks /\ issuance[x].next \in AcmeBlocks
           /\ issuance[x].mode \in TLSModes /\ issuance[x].pair \in PairNumbers
<1>1. issuance[x] \in IssueType
  BY DEF CertInv, PairTypes
<1>2. NoIssue \in IssueType
  BY CertAssumption
  DEF NoIssue, IssueType, IssueSteps, HoldingLock, WritingPair, TLSModes, PairNumbers, NoBlock, AcmeBlocks
<1>. QED BY <1>1, <1>2 DEF IssueType

-----------------------------------------------------------------------------
(* The steps outside the lock.                                                 *)

\* A request that found the server serving found a pair on disk and a server
\* past its start.
LEMMA ServingFacts ==
    ASSUME CertInv, CertServing
    PROVE  pairsMade # 0 /\ certReloader.pc \notin {"ensure", "ensureKey"}
<1>1. /\ certReloader.served \in Nat /\ certFile \in Nat /\ pairsMade \in Nat
  BY PairsAreNumbers, Zenon DEF CertInv, PairTypes, ReloaderType
<1>. QED BY <1>1 DEF CertServing, CertInv, ReloaderInv, FilesInv

\* HandleConfigureACME reads the settings.
LEMMA ConfigureStep ==
    ASSUME CertInv, NEW q \in TLSRequests, NEW form \in AcmeForms, HandleConfigureACME(q, form)
    PROVE  CertInv'
<1>. DEFINE r == [issuance[q] EXCEPT !.pc = "stage", !.previous = tlsMem.acme,
                                   !.next = [tlsMem.acme EXCEPT !.form = form]]
<1>1. q \in Issuers /\ issuance[q] \in IssueType /\ tlsMem.acme \in AcmeBlocks /\ tlsDisk \in TLSSettings
      /\ tlsMem \in TLSSettings
  BY DEF Issuers, CertInv, PairTypes, TLSSettings
<1>2. [tlsMem.acme EXCEPT !.form = form] \in AcmeBlocks
  BY <1>1 DEF AcmeBlocks
<1>3. "stage" \in IssueSteps /\ "stage" \notin HoldingLock /\ "idle" \notin HoldingLock
  BY DEF IssueSteps, HoldingLock, WritingPair
<1>4. r \in IssueType /\ r.pc = "stage" /\ r.pair = issuance[q].pair
  BY <1>1, <1>2, <1>3, Zenon DEF IssueType
<1>5. issuance' = [issuance EXCEPT ![q] = r]
  BY Zenon DEF HandleConfigureACME
<1>. HIDE DEF r
<1>6. /\ UNCHANGED <<tlsMem, tlsDisk, certFiles, tlsHolder, certReloader>>
      /\ issuance[q].pc = "idle" /\ CertServing
  BY DEF HandleConfigureACME, onlySettings, IssueAt
<1>. QED BY <1>1, <1>3, <1>4, <1>5, <1>6, ServingFacts, UnlockedMoves, Zenon

\* An issuance under way goes on, or ends, without the lock.
LEMMA GoesOn ==
    ASSUME CertInv, NEW x \in Issuers, NEW pc \in IssueSteps \ HoldingLock,
           IssueTo(x, pc) \/ EndIssue(x),
           issuance[x].pc \notin HoldingLock,
           \/ issuance[x].pc # "idle"
           \/ pairsMade # 0 /\ x = Renewal /\ tlsMem.mode = "acme",
           tlsMem' \in TLSSettings, tlsMem'.mode = tlsMem.mode, tlsDisk' \in TLSSettings,
           UNCHANGED <<certFiles, tlsHolder, certReloader>>
    PROVE  CertInv'
<1>0. issuance[x] \in IssueType
  BY DEF CertInv, PairTypes
<1>1. PICK r \in IssueType : /\ issuance' = [issuance EXCEPT ![x] = r]
                             /\ r.pc \notin HoldingLock /\ r.pair \in {issuance[x].pair, 0}
  <2>1. CASE IssueTo(x, pc)
    <3>1. [issuance[x] EXCEPT !.pc = pc] \in IssueType
      BY IssueRecords
    <3>2. issuance' = [issuance EXCEPT ![x] = [issuance[x] EXCEPT !.pc = pc]]
      BY <2>1 DEF IssueTo
    <3>3. [issuance[x] EXCEPT !.pc = pc].pc = pc /\ [issuance[x] EXCEPT !.pc = pc].pair = issuance[x].pair
      BY <1>0 DEF IssueType
    <3>. QED BY <3>1, <3>2, <3>3, Zenon
  <2>2. CASE EndIssue(x)
    <3>1. NoIssue \in IssueType /\ NoIssue.pc \notin HoldingLock /\ NoIssue.pair = 0
      BY IssueRecords DEF NoIssue, HoldingLock, WritingPair
    <3>. QED BY <2>2, <3>1, Zenon DEF EndIssue
  <2>. QED BY <2>1, <2>2
<1>4. /\ pairsMade # 0 /\ (certReloader.pc = "ensure" => x = Renewal /\ tlsMem.mode = "acme")
      /\ certReloader.pc # "ensureKey"
  BY DEF CertInv, IssuerInv, ReloaderInv
<1>. QED BY <1>1, <1>4, UnlockedMoves, Zenon

\* Where an issuance can be without the lock.
LEMMA OutsideTheLock ==
    /\ {"idle", "stage", "order", "validate", "finalize", "install", "manual", "failed", "restart"}
            \subseteq IssueSteps \ HoldingLock
    /\ HoldingLock \subseteq IssueSteps
  BY DEF IssueSteps, HoldingLock, WritingPair

\* The settings staged by a request, kept or put back, never change the mode.
LEMMA StagingStep ==
    ASSUME CertInv, NEW q \in TLSRequests, StageACME(q) \/ AcmeIssueFailed(q)
    PROVE  CertInv'
<1>1. q \in Issuers /\ issuance[q].previous \in AcmeBlocks /\ issuance[q].next \in AcmeBlocks
  BY IssueRecords DEF Issuers
<1>2. PICK b \in AcmeBlocks : tlsMem' = [tlsMem EXCEPT !.acme = b]
  BY <1>1 DEF StageACME, AcmeIssueFailed, SetSettings
<1>3. tlsMem' \in TLSSettings /\ tlsMem'.mode = tlsMem.mode
  BY <1>2 DEF CertInv, PairTypes, TLSSettings
<1>4. tlsDisk' \in TLSSettings
  BY <1>3 DEF StageACME, AcmeIssueFailed, onlySettings, CertInv, PairTypes
<1>5. /\ UNCHANGED <<certFiles, tlsHolder, certReloader>>
      /\ issuance[q].pc \in {"stage", "failed", "manual"}
      /\ IssueTo(q, "order") \/ EndIssue(q)
  BY DEF StageACME, AcmeIssueFailed, onlySettings, IssueAt
<1>. QED BY <1>1, <1>3, <1>4, <1>5, OutsideTheLock, GoesOn

\* A tick of the renewal loop.
LEMMA RenewalStep ==
    ASSUME CertInv, RenewalLoop PROVE CertInv'
<1>1. /\ UNCHANGED <<tlsMem, tlsDisk, certFiles, tlsHolder, certReloader>>
      /\ issuance[Renewal].pc \in {"idle", "failed", "manual"}
      /\ IssueTo(Renewal, "order") \/ EndIssue(Renewal)
      /\ issuance[Renewal].pc = "idle" => AcmeActive(tlsMem) /\ certDue
  BY DEF RenewalLoop, RenewIfDue, RecordRenewal, onlySettings, IssueAt
<1>2. issuance[Renewal].pc = "idle" => pairsMade # 0 /\ tlsMem.mode = "acme"
  BY <1>1 DEF CertInv, FilesInv, AcmeActive
<1>3. /\ Renewal \in Issuers
      /\ tlsMem' \in TLSSettings /\ tlsDisk' \in TLSSettings
  BY <1>1 DEF CertInv, PairTypes, Issuers
<1>. QED BY <1>1, <1>2, <1>3, OutsideTheLock, GoesOn

\* The order goes from one step to the next.
LEMMA OrderStep ==
    ASSUME CertInv, NEW x \in Issuers, AuthorizeOrder(x) \/ SatisfyOrder(x) \/ FinalizeOrder(x)
    PROVE  CertInv'
<1>1. /\ UNCHANGED <<tlsMem, tlsDisk, certFiles, tlsHolder, certReloader>>
      /\ issuance[x].pc \in {"order", "validate", "finalize"}
  BY DEF AuthorizeOrder, SatisfyOrder, FinalizeOrder, onlySettings, IssueAt
<1>2. PICK pc \in {"validate", "finalize", "manual", "failed", "install"} : IssueTo(x, pc)
  BY DEF AuthorizeOrder, SatisfyOrder, FinalizeOrder
<1>4. tlsMem' \in TLSSettings /\ tlsDisk' \in TLSSettings /\ tlsMem'.mode = tlsMem.mode
  BY <1>1 DEF CertInv, PairTypes
<1>. QED BY <1>1, <1>2, <1>4, OutsideTheLock, GoesOn

-----------------------------------------------------------------------------
(* The steps that take the lock, use it and give it back.                      *)

\* A new pair is newer than both files.
LEMMA PairIsIssued ==
    ASSUME CertInv, NEW x \in Issuers, NEW mode \in TLSModes, NewPair(x, mode),
           tlsHolder \in {"free", x}, tlsHolder' = x,
           pairsMade # 0,
           x = Renewal => mode = "acme" /\ tlsMem.mode = "acme",
           certReloader.pc = "ensure" => x = Renewal, certReloader.pc # "ensureKey",
           UNCHANGED <<tlsMem, tlsDisk, certReloader>>
    PROVE  CertInv'
<1>. DEFINE r == [issuance[x] EXCEPT !.pc = "first", !.mode = mode, !.pair = pairsMade + 1]
<1>1. /\ pairsMade \in Nat /\ pairsMade < MaxPairs /\ pairsMade' = pairsMade + 1
      /\ certFile \in Nat /\ pairKeyFile \in Nat /\ MaxPairs \in Nat
      /\ certFile <= pairsMade /\ pairKeyFile <= pairsMade
  BY PairsAreNumbers, CertAssumption DEF NewPair, CertInv, PairTypes, FilesInv
<1>2. pairsMade + 1 \in PairNumbers
  BY <1>1 DEF PairNumbers
<1>3. /\ issuance[x] \in IssueType
      /\ r \in IssueType /\ r.pc = "first" /\ r.mode = mode /\ r.pair = pairsMade + 1
  BY <1>2, OutsideTheLock, Zenon DEF CertInv, PairTypes, IssueType, HoldingLock, WritingPair
<1>4. issuance' = [issuance EXCEPT ![x] = r]
  BY Zenon DEF NewPair
<1>. HIDE DEF r
<1>5. /\ issuance'[x] = r /\ \A y \in Issuers \ {x} : issuance'[y] = issuance[y]
      /\ issuance' \in [Issuers -> IssueType]
  BY <1>3, <1>4 DEF CertInv, PairTypes
<1>6. UNCHANGED <<certFile, pairKeyFile, certDue, pairTorn>>
  BY DEF NewPair
<1>7. IssuerInv(x)'
  <2>1. r.pair > certFile /\ r.pair > pairKeyFile /\ r.pair <= pairsMade' /\ pairsMade' # 0
    BY <1>1, <1>3
  <2>. QED BY <1>3, <1>5, <1>6, <2>1 DEF IssuerInv
<1>8. FilesInv'
  BY <1>1, <1>6 DEF CertInv, FilesInv
<1>10. /\ pairsMade' \in PairNumbers /\ certFile' \in PairNumbers /\ pairKeyFile' \in PairNumbers
       /\ certDue' \in BOOLEAN /\ pairTorn' \in BOOLEAN
       /\ tlsMem' \in TLSSettings /\ tlsDisk' \in TLSSettings
  BY <1>1, <1>2, <1>6 DEF CertInv, PairTypes
<1>11. pairsMade <= pairsMade' /\ certFile <= certFile' /\ pairKeyFile <= pairKeyFile'
  BY <1>1, <1>6
<1>. QED BY <1>5, <1>6, <1>7, <1>8, <1>10, <1>11, IssuerMoves

\* The holder goes on without touching the files, or gives the lock back.
LEMMA HolderMoves ==
    ASSUME CertInv, NEW x \in Issuers, NEW pc \in IssueSteps \ {"first", "second"},
           \/ IssueTo(x, pc) /\ issuance'[x].pc \in HoldingLock /\ tlsHolder' = x
           \/ (IssueTo(x, pc) \/ EndIssue(x)) /\ issuance'[x].pc \notin HoldingLock /\ tlsHolder' = "free",
           tlsHolder \in {"free", x},
           tlsMem' \in TLSSettings, tlsDisk' \in TLSSettings,
           tlsMem'.mode = tlsMem.mode \/ (tlsHolder = x /\ certReloader.pc # "ensure"),
           x = Renewal => tlsMem'.mode = tlsMem.mode /\ issuance[x].pc \in WritingPair,
           pairsMade # 0, certReloader.pc = "ensure" => x = Renewal, certReloader.pc # "ensureKey",
           UNCHANGED <<certFiles, certReloader>>
    PROVE  CertInv'
<1>1. /\ issuance[x] \in IssueType /\ issuance[x].pair \in Nat /\ pairsMade \in Nat
      /\ certFile \in Nat /\ pairKeyFile \in Nat
  BY PairsAreNumbers, Zenon DEF CertInv, PairTypes, IssueType
<1>2. /\ \A y \in Issuers \ {x} : issuance'[y] = issuance[y]
      /\ \/ issuance'[x] = [issuance[x] EXCEPT !.pc = pc]
         \/ issuance'[x] = NoIssue
      /\ issuance' \in [Issuers -> IssueType]
  BY IssueRecords DEF CertInv, PairTypes, IssueTo, EndIssue
<1>3. UNCHANGED <<certFile, pairKeyFile, certDue, pairsMade, pairTorn>>
  BY DEF certFiles
<1>4. /\ issuance'[x].pc \notin {"first", "second"} /\ issuance'[x].pair \in {issuance[x].pair, 0}
      /\ \/ issuance'[x].mode = issuance[x].mode
         \/ issuance'[x].pc = "idle"
  BY <1>1, <1>2 DEF IssueType, NoIssue
<1>5. IssuerInv(x)'
  <2>0. IssuerInv(x)
    BY DEF CertInv
  <2>1. issuance'[x].pair <= pairsMade'
    BY <1>1, <1>3, <1>4, <2>0 DEF IssuerInv
  <2>2. x = Renewal => tlsMem'.mode = "acme" /\ issuance[x].mode = "acme"
    BY <2>0 DEF IssuerInv
  <2>3. "idle" \notin WritingPair
    BY DEF WritingPair
  <2>. QED BY <1>3, <1>4, <2>1, <2>2, <2>3 DEF IssuerInv
<1>6. FilesInv'
  BY <1>3 DEF CertInv, FilesInv
<1>8. /\ pairsMade' \in PairNumbers /\ certFile' \in PairNumbers /\ pairKeyFile' \in PairNumbers
      /\ certDue' \in BOOLEAN /\ pairTorn' \in BOOLEAN
  BY <1>3 DEF CertInv, PairTypes
<1>9. pairsMade <= pairsMade' /\ certFile <= certFile' /\ pairKeyFile <= pairKeyFile'
  BY <1>1, <1>3
<1>10. \/ UNCHANGED <<certFile, pairKeyFile>> /\ tlsMem'.mode = tlsMem.mode
       \/ tlsHolder = x
  BY <1>3
<1>. QED BY <1>2, <1>5, <1>6, <1>8, <1>9, <1>10, IssuerMoves

\* What holding the lock says.
LEMMA HolderFacts ==
    ASSUME CertInv, NEW x \in Issuers, issuance[x].pc # "idle"
    PROVE  /\ issuance[x].pc \in HoldingLock => tlsHolder = x
           /\ pairsMade # 0 /\ IssuerInv(x)
           /\ certReloader.pc = "ensure" => x = Renewal /\ tlsMem.mode = "acme"
           /\ certReloader.pc # "ensureKey"
           /\ tlsMem \in TLSSettings /\ tlsDisk \in TLSSettings
           /\ issuance[x].mode \in TLSModes
           /\ \A pc \in IssueSteps : IssueTo(x, pc) => issuance'[x].pc = pc
           /\ EndIssue(x) => issuance'[x].pc = "idle"
  BY DEF CertInv, PairTypes, IssuerInv, IssueType, IssueTo, EndIssue, NoIssue

\* A self-signed pair, or mkcert, under the lock.
LEMMA RequestStep ==
    ASSUME CertInv, NEW q \in TLSRequests, NEW mode,
           HandleRegenerateTLS(q) \/ HandleSetTLSMode(q, mode)
    PROVE  CertInv'
<1>1. /\ CertServing /\ issuance[q].pc = "idle" /\ tlsHolder = "free" /\ tlsHolder' = q
      /\ UNCHANGED <<tlsMem, tlsDisk, certReloader>>
      /\ \/ NewPair(q, "self-signed")
         \/ IssueTo(q, "mkcert") /\ UNCHANGED certFiles
  BY DEF HandleRegenerateTLS, HandleSetTLSMode, Regenerate, SwitchMode, IssueSelfSigned, TLSLock, IssueAt
<1>2. /\ pairsMade # 0 /\ certReloader.pc \notin {"ensure", "ensureKey"} /\ q \in Issuers /\ q # Renewal
      /\ "self-signed" \in TLSModes
  BY <1>1, ServingFacts, CertAssumption DEF Issuers, TLSModes
<1>3. tlsMem' \in TLSSettings /\ tlsDisk' \in TLSSettings
  BY <1>1 DEF CertInv, PairTypes
<1>4. CASE NewPair(q, "self-signed")
  BY <1>1, <1>2, <1>3, <1>4, PairIsIssued, Zenon
<1>5. CASE IssueTo(q, "mkcert") /\ UNCHANGED certFiles
  <2>1. "mkcert" \in IssueSteps \ {"first", "second"} /\ "mkcert" \in HoldingLock
    BY DEF IssueSteps, HoldingLock
  <2>2. issuance'[q].pc = "mkcert"
    BY <1>2, <1>5 DEF IssueTo, CertInv, PairTypes, IssueType
  <2>. QED BY <1>1, <1>2, <1>3, <1>5, <2>1, <2>2, HolderMoves, Zenon
<1>. QED BY <1>1, <1>4, <1>5

\* mkcert's staging files, and the pair read from them.
LEMMA MkcertStep ==
    ASSUME CertInv, NEW q \in TLSRequests, IssueMkcertPair(q) \/ EnableMkcert(q)
    PROVE  CertInv'
<1>1. /\ q \in Issuers /\ q # Renewal
      /\ issuance[q].pc \in {"mkcert", "staged"} /\ issuance[q].pc \in HoldingLock /\ issuance[q].pc # "idle"
      /\ UNCHANGED <<tlsMem, tlsDisk, certReloader>>
  BY CertAssumption DEF IssueMkcertPair, EnableMkcert, IssueAt, HoldingLock, Issuers
<1>2. /\ "staged" \in IssueSteps \ {"first", "second"} /\ "staged" \in HoldingLock /\ "idle" \notin HoldingLock
      /\ "mkcert" \in TLSModes
  BY DEF IssueSteps, HoldingLock, WritingPair, TLSModes
<1>3. CASE IssueMkcertPair(q)
  <2>1. \/ IssueTo(q, "staged") /\ UNCHANGED <<certFiles, tlsHolder>>
        \/ EndIssue(q) /\ tlsHolder' = "free" /\ UNCHANGED certFiles
    BY <1>3 DEF IssueMkcertPair, TLSUnlock
  <2>2. CASE IssueTo(q, "staged") /\ UNCHANGED <<certFiles, tlsHolder>>
    <3>1. issuance'[q].pc = "staged"
      BY <1>1, <1>2, <2>2, HolderFacts
    <3>. QED BY <1>1, <1>2, <2>2, <3>1, HolderFacts, HolderMoves, Zenon
  <2>3. CASE EndIssue(q) /\ tlsHolder' = "free" /\ UNCHANGED certFiles
    BY <1>1, <1>2, <2>3, HolderFacts, HolderMoves, Zenon
  <2>. QED BY <2>1, <2>2, <2>3
<1>4. CASE EnableMkcert(q)
  <2>1. \/ NewPair(q, "mkcert") /\ tlsHolder' = tlsHolder
        \/ EndIssue(q) /\ tlsHolder' = "free" /\ UNCHANGED certFiles
    BY <1>4 DEF EnableMkcert, TLSUnlock
  <2>2. CASE NewPair(q, "mkcert") /\ tlsHolder' = tlsHolder
    BY <1>1, <1>2, <2>2, HolderFacts, PairIsIssued, Zenon
  <2>3. CASE EndIssue(q) /\ tlsHolder' = "free" /\ UNCHANGED certFiles
    BY <1>1, <1>2, <2>3, HolderFacts, HolderMoves, Zenon
  <2>. QED BY <2>1, <2>2, <2>3
<1>. QED BY <1>3, <1>4

\* installACMEPair: the renewal installs in the mode it renews for, or not at all.
LEMMA InstallStep ==
    ASSUME CertInv, NEW x \in Issuers, InstallACMEPair(x) PROVE CertInv'
<1>1. /\ issuance[x].pc = "install" /\ tlsHolder = "free"
      /\ UNCHANGED <<tlsMem, tlsDisk, certReloader>>
      /\ \/ IssueTo(x, "failed") /\ UNCHANGED <<tlsHolder, certFiles>>
         \/ NewPair(x, "acme") /\ tlsHolder' = x /\ (x = Renewal => tlsMem.mode = "acme")
  BY DEF InstallACMEPair, IssueAt, TLSLock, AcmeActive
<1>2. /\ "acme" \in TLSModes
      /\ tlsMem' \in TLSSettings /\ tlsDisk' \in TLSSettings
  BY <1>1 DEF CertInv, PairTypes, TLSModes
<1>3. CASE IssueTo(x, "failed") /\ UNCHANGED <<tlsHolder, certFiles>>
  BY <1>1, <1>2, <1>3, OutsideTheLock, GoesOn
<1>4. CASE NewPair(x, "acme") /\ tlsHolder' = x /\ (x = Renewal => tlsMem.mode = "acme")
  BY <1>1, <1>2, <1>4, HolderFacts, PairIsIssued, Zenon
<1>. QED BY <1>1, <1>3, <1>4

\* A failed write or save gives the lock back.
LEMMA WriteFailsStep ==
    ASSUME CertInv, NEW x \in Issuers, issuance[x].pc \in WritingPair,
           tlsHolder' = "free", IssueTo(x, "failed") \/ IssueTo(x, "restart") \/ EndIssue(x),
           UNCHANGED <<tlsMem, certFiles, certReloader>>,
           tlsDisk' \in TLSSettings
    PROVE  CertInv'
<1>1. /\ issuance[x].pc \notin {"idle", "validate", "staged"} /\ issuance[x].pc \in HoldingLock
      /\ {"failed", "restart", "idle"} \subseteq IssueSteps \ {"first", "second"}
      /\ {"failed", "restart", "idle"} \cap HoldingLock = {}
  BY DEF HoldingLock, WritingPair, IssueSteps
<1>2. issuance'[x].pc \in {"failed", "restart", "idle"}
  BY <1>1, HolderFacts
<1>3. PICK pc \in {"failed", "restart"} : IssueTo(x, pc) \/ EndIssue(x)
  OBVIOUS
<1>. QED BY <1>1, <1>2, <1>3, HolderFacts, HolderMoves, Zenon

\* A file of the pair is written under the lock.
LEMMA FileWritten ==
    ASSUME CertInv, NEW x \in Issuers, NEW pc \in {"second", "record"},
           issuance[x].pc \in {"first", "second"}, IssueTo(x, pc),
           \/ certFile' = issuance[x].pair /\ pairKeyFile' = pairKeyFile /\ certDue' = FALSE
           \/ pairKeyFile' = issuance[x].pair /\ certFile' = certFile /\ certDue' = certDue,
           pairTorn' \in BOOLEAN, ~pairTorn' => certFile' = pairKeyFile',
           pc = "second" => IF issuance[x].mode = "self-signed"
                            THEN certFile' = issuance[x].pair /\ issuance[x].pair > pairKeyFile'
                            ELSE pairKeyFile' = issuance[x].pair /\ issuance[x].pair > certFile',
           UNCHANGED <<tlsMem, tlsDisk, pairsMade, tlsHolder, certReloader>>
    PROVE  CertInv'
<1>1. /\ issuance[x].pc \in HoldingLock /\ issuance[x].pc \in WritingPair
      /\ issuance[x].pc \notin {"idle", "validate", "staged"}
      /\ pc \in HoldingLock /\ pc \in IssueSteps /\ pc \in WritingPair
  BY DEF HoldingLock, WritingPair, IssueSteps
<1>2. /\ tlsHolder = x /\ pairsMade # 0 /\ IssuerInv(x)
      /\ certReloader.pc = "ensure" => x = Renewal /\ tlsMem.mode = "acme"
      /\ certReloader.pc # "ensureKey"
  BY <1>1, HolderFacts
<1>3. /\ issuance[x] \in IssueType /\ issuance[x].pair \in PairNumbers /\ issuance[x].pair \in Nat
      /\ pairsMade \in Nat /\ certFile \in Nat /\ pairKeyFile \in Nat
      /\ certFile \in PairNumbers /\ pairKeyFile \in PairNumbers /\ pairsMade \in PairNumbers
      /\ certDue \in BOOLEAN
  BY PairsAreNumbers, IssueRecords DEF CertInv, PairTypes
<1>4. issuance' = [issuance EXCEPT ![x] = [issuance[x] EXCEPT !.pc = pc]]
  BY DEF IssueTo
<1>5. /\ \A y \in Issuers \ {x} : issuance'[y] = issuance[y]
      /\ issuance'[x] = [issuance[x] EXCEPT !.pc = pc]
      /\ issuance' \in [Issuers -> IssueType]
  BY <1>1, <1>4, IssueRecords DEF CertInv, PairTypes
<1>6. issuance'[x].pc = pc /\ issuance'[x].pair = issuance[x].pair /\ issuance'[x].mode = issuance[x].mode
  BY <1>3, <1>5 DEF IssueType
<1>7. /\ issuance[x].pair <= pairsMade
      /\ issuance[x].pair >= certFile /\ issuance[x].pair >= pairKeyFile /\ issuance[x].pair # 0
  <2>1. CASE issuance[x].pc = "first"
    BY <1>2, <1>3, <2>1 DEF IssuerInv
  <2>2. CASE issuance[x].pc = "second"
    BY <1>2, <1>3, <2>2 DEF IssuerInv
  <2>. QED BY <2>1, <2>2
<1>8. /\ certFile' \in PairNumbers /\ pairKeyFile' \in PairNumbers /\ certDue' \in BOOLEAN
      /\ certFile <= certFile' /\ pairKeyFile <= pairKeyFile' /\ pairsMade <= pairsMade'
  <2>1. certFile' \in PairNumbers /\ pairKeyFile' \in PairNumbers
    BY <1>3
  <2>2. certDue' \in BOOLEAN
    BY <1>3, Zenon
  <2>3. certFile <= certFile' /\ pairKeyFile <= pairKeyFile' /\ pairsMade <= pairsMade'
    BY <1>3, <1>7
  <2>. QED BY <2>1, <2>2, <2>3
<1>9. FilesInv'
  BY <1>2, <1>3, <1>7 DEF CertInv, FilesInv
<1>10. IssuerInv(x)'
  BY <1>1, <1>2, <1>6 DEF IssuerInv
<1>11. tlsMem' \in TLSSettings /\ tlsDisk' \in TLSSettings /\ pairsMade' \in PairNumbers
  BY DEF CertInv, PairTypes
<1>. QED BY <1>2, <1>5, <1>8, <1>9, <1>10, <1>11, IssuerMoves

\* writeKeyPair and InstallTLSPair: one file, then the other.
LEMMA WriteStep ==
    ASSUME CertInv, NEW x \in Issuers, WriteFirst(x) \/ WriteSecond(x) PROVE CertInv'
<1>1. /\ UNCHANGED <<tlsMem, tlsDisk, certReloader>>
      /\ issuance[x].pc \in {"first", "second"} /\ issuance[x].pc \in WritingPair /\ issuance[x].pc # "idle"
      /\ tlsDisk' \in TLSSettings
  BY DEF WriteFirst, WriteSecond, IssueAt, WritingPair, CertInv, PairTypes
<1>2. CASE WriteFails(x)
  BY <1>1, <1>2, WriteFailsStep DEF WriteFails, TLSUnlock
<1>3. /\ IssuerInv(x) /\ issuance[x].pair \in Nat /\ certFile \in Nat /\ pairKeyFile \in Nat
  BY <1>1, HolderFacts, PairsAreNumbers, IssueRecords DEF CertInv, PairTypes
<1>4. CASE WriteFirst(x) /\ ~WriteFails(x)
  <2>1. /\ issuance[x].pc = "first" /\ IF CertFirst(x) THEN WriteCert(x) ELSE WriteKey(x)
        /\ pairTorn' = TRUE /\ IssueTo(x, "second") /\ UNCHANGED <<pairsMade, tlsHolder>>
    BY <1>4 DEF WriteFirst, IssueAt
  <2>2. issuance[x].pair > certFile /\ issuance[x].pair > pairKeyFile
    BY <1>3, <2>1 DEF IssuerInv
  <2>3. CASE CertFirst(x)
    <3>1. certFile' = issuance[x].pair /\ pairKeyFile' = pairKeyFile /\ certDue' = FALSE
      BY <2>1, <2>3 DEF WriteCert
    <3>2. issuance[x].mode = "self-signed"
      BY <2>3 DEF CertFirst
    <3>. QED BY <1>1, <2>1, <2>2, <3>1, <3>2, FileWritten, Zenon
  <2>4. CASE ~CertFirst(x)
    <3>1. pairKeyFile' = issuance[x].pair /\ certFile' = certFile /\ certDue' = certDue
      BY <2>1, <2>4 DEF WriteKey
    <3>2. issuance[x].mode # "self-signed"
      BY <2>4 DEF CertFirst
    <3>. QED BY <1>1, <2>1, <2>2, <3>1, <3>2, FileWritten, Zenon
  <2>. QED BY <2>3, <2>4
<1>5. CASE WriteSecond(x) /\ ~WriteFails(x)
  <2>1. /\ issuance[x].pc = "second" /\ IF CertFirst(x) THEN WriteKey(x) ELSE WriteCert(x)
        /\ pairTorn' = FALSE /\ IssueTo(x, "record") /\ UNCHANGED <<pairsMade, tlsHolder>>
    BY <1>5 DEF WriteSecond, IssueAt
  <2>3. CASE CertFirst(x)
    <3>1. pairKeyFile' = issuance[x].pair /\ certFile' = certFile /\ certDue' = certDue
      BY <2>1, <2>3 DEF WriteKey
    <3>2. certFile = issuance[x].pair
      BY <1>3, <2>1, <2>3 DEF CertFirst, IssuerInv
    <3>. QED BY <1>1, <2>1, <3>1, <3>2, FileWritten, Zenon
  <2>4. CASE ~CertFirst(x)
    <3>1. certFile' = issuance[x].pair /\ pairKeyFile' = pairKeyFile /\ certDue' = FALSE
      BY <2>1, <2>4 DEF WriteCert
    <3>2. pairKeyFile = issuance[x].pair
      BY <1>3, <2>1, <2>4 DEF CertFirst, IssuerInv
    <3>. QED BY <1>1, <2>1, <3>1, <3>2, FileWritten, Zenon
  <2>. QED BY <2>3, <2>4
<1>. QED BY <1>2, <1>4, <1>5

\* The mode is recorded, then saved: only a request moves it.
LEMMA RecordStep ==
    ASSUME CertInv, NEW x \in Issuers, RecordMode(x)
    PROVE  CertInv' /\ (x = Renewal => tlsMem'.mode = tlsMem.mode)
<1>1. /\ issuance[x].pc = "record" /\ IssueTo(x, "save") /\ tlsHolder' = tlsHolder
      /\ UNCHANGED <<tlsDisk, certFiles, certReloader>>
  BY DEF RecordMode, IssueAt, onlySettings
<1>2. /\ {"record", "save"} \subseteq WritingPair /\ {"record", "save"} \subseteq HoldingLock
      /\ "save" \in IssueSteps \ {"first", "second"}
  BY DEF WritingPair, HoldingLock, IssueSteps
<1>3. /\ tlsHolder = x /\ IssuerInv(x) /\ issuance[x].mode \in TLSModes /\ issuance'[x].pc = "save"
      /\ tlsMem \in TLSSettings /\ tlsDisk \in TLSSettings /\ pairsMade # 0
      /\ certReloader.pc = "ensure" => x = Renewal /\ tlsMem.mode = "acme"
      /\ certReloader.pc # "ensureKey"
  BY <1>1, <1>2, HolderFacts
<1>4. /\ tlsMem'.mode = issuance[x].mode
      /\ tlsMem' \in TLSSettings
  <2>1. PICK e \in BOOLEAN : tlsMem' = [tlsMem EXCEPT !.mode = issuance[x].mode, !.acme.enabled = e]
    BY <1>3, Zenon DEF RecordMode, TLSSettings, AcmeBlocks
  <2>. QED BY <1>3, <2>1, Zenon DEF TLSSettings, AcmeBlocks
<1>5. x = Renewal => tlsMem'.mode = tlsMem.mode
  BY <1>1, <1>2, <1>3, <1>4 DEF IssuerInv
<1>. QED BY <1>1, <1>2, <1>3, <1>4, <1>5, HolderMoves, Zenon

\* The configuration is saved and the lock given back.
LEMMA SaveStep ==
    ASSUME CertInv, NEW x \in Issuers, SaveTLS(x) PROVE CertInv'
<1>1. /\ issuance[x].pc \in WritingPair /\ tlsHolder' = "free"
      /\ UNCHANGED <<tlsMem, certFiles, certReloader>>
      /\ IssueTo(x, "failed") \/ IssueTo(x, "restart") \/ EndIssue(x)
      /\ tlsDisk' \in {tlsDisk, tlsMem}
  BY DEF SaveTLS, IssueAt, WritingPair, TLSUnlock
<1>2. tlsDisk' \in TLSSettings
  BY <1>1 DEF CertInv, PairTypes
<1>. QED BY <1>1, <1>2, WriteFailsStep

-----------------------------------------------------------------------------
(* Saves of others, time, the process and the reloader.                        *)

\* Another handler saves, the certificate ages.
LEMMA OutsideStep ==
    ASSUME CertInv, OtherTLSSave \/ CertAges PROVE CertInv'
<1>1. UNCHANGED <<tlsMem, certFile, pairKeyFile, pairsMade, pairTorn, tlsHolder, issuance, certReloader>>
  BY DEF OtherTLSSave, CertAges, certFiles
<1>2. tlsDisk' \in TLSSettings /\ certDue' \in BOOLEAN
  BY Zenon DEF OtherTLSSave, CertAges, certFiles, CertInv, PairTypes
<1>3. PairTypes' /\ ReloaderInv'
  BY <1>1, <1>2 DEF CertInv, PairTypes, ReloaderInv
<1>4. certDue' => certDue \/ certFile # 0
  BY Zenon DEF OtherTLSSave, CertAges, certFiles
<1>5. FilesInv'
  <2>1. certFile \in Nat /\ pairsMade \in Nat
    BY PairsAreNumbers DEF CertInv, PairTypes
  <2>. QED BY <1>1, <1>4, <2>1 DEF CertInv, FilesInv
<1>6. \A x \in Issuers : IssuerInv(x)'
  BY <1>1 DEF CertInv, IssuerInv
<1>. QED BY <1>3, <1>5, <1>6 DEF CertInv

\* The process ends: nothing is under way.
LEMMA EndStep ==
    ASSUME CertInv, CertProcessEnds PROVE CertInv'
<1>1. /\ issuance' = [x \in Issuers |-> NoIssue] /\ tlsHolder' = "free" /\ tlsMem' = tlsDisk
      /\ certReloader' = [certReloader EXCEPT !.pc = "ensure", !.served = 0]
      /\ UNCHANGED <<tlsDisk, certFile, pairKeyFile, certDue, pairsMade, pairTorn>>
  BY DEF CertProcessEnds, TLSUnlock, certFiles
<1>2. \A x \in Issuers : issuance'[x] = NoIssue
  BY <1>1
<1>3. NoIssue \in IssueType /\ NoIssue.pc = "idle" /\ NoIssue.pair = 0 /\ "idle" \notin HoldingLock
  BY CertAssumption
  DEF NoIssue, IssueType, IssueSteps, HoldingLock, WritingPair, TLSModes, PairNumbers, NoBlock, AcmeBlocks
<1>4. issuance' \in [Issuers -> IssueType] /\ \A x \in Issuers : issuance'[x].pc = "idle"
  BY <1>1, <1>2, <1>3
<1>5. /\ certReloader' \in ReloaderType
      /\ certReloader'.pc = "ensure" /\ certReloader'.served = 0
  <2>1. 0 \in PairNumbers
    BY CertAssumption DEF PairNumbers
  <2>. QED BY <1>1, <2>1, Zenon DEF CertInv, PairTypes, ReloaderType
<1>6. PairTypes'
  BY <1>1, <1>3, <1>4, <1>5 DEF CertInv, PairTypes
<1>7. FilesInv'
  BY <1>1 DEF CertInv, FilesInv
<1>8. ReloaderInv'
  BY <1>5 DEF ReloaderInv
<1>10. \A x \in Issuers : IssuerInv(x)'
  <2>1. pairsMade \in Nat
    BY PairsAreNumbers DEF CertInv, PairTypes
  <2>. QED BY <1>1, <1>2, <1>3, <2>1 DEF IssuerInv, WritingPair, HoldingLock
<1>. QED BY <1>6, <1>7, <1>8, <1>10 DEF CertInv

\* EnsureTLSCert: a pair is made only while nobody issues one.
LEMMA EnsureStep ==
    ASSUME CertInv, EnsureTLSCert \/ EnsureSelfSigned \/ GenerateSelfSignedKey PROVE CertInv'
<1>1. /\ certReloader.pc \in {"ensure", "ensureKey"}
      /\ UNCHANGED <<tlsMem, tlsDisk, tlsHolder, issuance>>
  BY DEF EnsureTLSCert, EnsureSelfSigned, GenerateSelfSignedKey, ensureLeaves
<1>2. /\ pairsMade \in Nat /\ certFile \in Nat /\ pairKeyFile \in Nat /\ MaxPairs \in Nat
      /\ \A x \in Issuers : issuance[x].pair \in Nat
  BY PairsAreNumbers, IssueRecords, CertAssumption DEF CertInv, PairTypes
<1>3. PICK pc \in {"stat", "failed", "ensureKey"} : certReloader' = [certReloader EXCEPT !.pc = pc]
  BY DEF EnsureTLSCert, EnsureSelfSigned, GenerateSelfSignedKey, EnsureFails
<1>4. certReloader' \in ReloaderType /\ certReloader'.pc = pc /\ certReloader'.served = 0
  BY <1>1, <1>3 DEF CertInv, PairTypes, ReloaderType, ReloaderInv
<1>5. CASE UNCHANGED certFiles /\ pc \in {"stat", "failed"} /\ (pc = "stat" => certFile # 0)
  <2>1. UNCHANGED <<certFile, pairKeyFile, certDue, pairsMade, pairTorn>>
    BY <1>5 DEF certFiles
  <2>2. PairTypes' /\ FilesInv'
    BY <1>1, <1>4, <2>1 DEF CertInv, PairTypes, FilesInv
  <2>3. ReloaderInv'
    BY <1>2, <1>4, <1>5, <2>1 DEF CertInv, ReloaderInv, FilesInv
  <2>4. \A x \in Issuers : IssuerInv(x)'
    BY <1>1, <1>4, <1>5, <2>1 DEF CertInv, IssuerInv
  <2>. QED BY <2>2, <2>3, <2>4 DEF CertInv
<1>6. CASE EnsureSelfSigned /\ pc = "ensureKey"
  <2>1. /\ certReloader.pc = "ensure" /\ tlsMem.mode = "self-signed"
        /\ pairsMade < MaxPairs /\ pairsMade' = pairsMade + 1 /\ certFile' = pairsMade'
        /\ pairKeyFile' = pairKeyFile /\ certDue' = FALSE /\ pairTorn' = TRUE
    BY <1>1, <1>4, <1>6 DEF EnsureSelfSigned, EnsureFails, CertInv, PairTypes, ReloaderType
  <2>2. pairsMade' \in PairNumbers /\ pairsMade' # 0 /\ pairsMade' \in Nat /\ pairKeyFile' <= pairsMade'
    BY <1>2, <2>1 DEF PairNumbers, CertInv, FilesInv
  <2>3. \A x \in Issuers : issuance[x].pc = "idle"
    BY <2>1 DEF CertInv, IssuerInv
  <2>4. PairTypes'
    <3>1. certDue' \in BOOLEAN /\ pairTorn' \in BOOLEAN
      BY <2>1, Zenon
    <3>. QED BY <1>1, <1>4, <2>1, <2>2, <3>1 DEF CertInv, PairTypes
  <2>5. FilesInv'
    BY <2>1, <2>2 DEF FilesInv
  <2>6. ReloaderInv'
    BY <1>1, <1>4, <1>6, <2>1, <2>2 DEF ReloaderInv
  <2>7. \A x \in Issuers : IssuerInv(x)'
    BY <1>1, <1>2, <1>4, <1>6, <2>1, <2>3 DEF CertInv, IssuerInv, WritingPair
  <2>. QED BY <2>4, <2>5, <2>6, <2>7 DEF CertInv
<1>7. CASE GenerateSelfSignedKey /\ pc = "stat"
  <2>1. /\ certReloader.pc = "ensureKey"
        /\ pairKeyFile' = certFile /\ pairTorn' = FALSE /\ UNCHANGED <<certFile, certDue, pairsMade>>
    BY <1>4, <1>7 DEF GenerateSelfSignedKey, EnsureFails, CertInv, PairTypes, ReloaderType
  <2>2. \A x \in Issuers : issuance[x].pc = "idle"
    BY <2>1 DEF CertInv, IssuerInv
  <2>3. pairsMade # 0
    BY <2>1 DEF CertInv, ReloaderInv
  <2>4. PairTypes'
    <3>1. certDue' \in BOOLEAN /\ pairTorn' \in BOOLEAN
      BY <2>1, Zenon DEF CertInv, PairTypes
    <3>. QED BY <1>1, <1>4, <2>1, <3>1 DEF CertInv, PairTypes
  <2>5. FilesInv'
    BY <2>1 DEF CertInv, FilesInv
  <2>6. ReloaderInv'
    BY <1>1, <1>4, <1>7, <2>1, <2>3 DEF ReloaderInv
  <2>7. \A x \in Issuers : IssuerInv(x)'
    BY <1>1, <1>2, <1>4, <1>7, <2>1, <2>2 DEF CertInv, IssuerInv, WritingPair
  <2>. QED BY <2>4, <2>5, <2>6, <2>7 DEF CertInv
<1>. QED
  BY <1>3, <1>4, <1>5, <1>6, <1>7
  DEF EnsureTLSCert, EnsureSelfSigned, GenerateSelfSignedKey, EnsureFails, CertInv, PairTypes, ReloaderType

\* The reloader moves: the files and the issuances stay.
LEMMA ReloaderMoves ==
    ASSUME CertInv, NEW r, ReloaderGoes(r),
           r \in ReloaderType,
           r.pc \notin {"ensure", "ensureKey"}, ReloaderInv'
    PROVE  CertInv'
<1>1. /\ certReloader' = r
      /\ UNCHANGED <<tlsMem, tlsDisk, certFile, pairKeyFile, certDue, pairsMade, pairTorn, tlsHolder, issuance>>
  BY DEF ReloaderGoes, certFiles
<1>2. PairTypes' /\ FilesInv'
  BY <1>1 DEF CertInv, PairTypes, FilesInv
<1>3. \A x \in Issuers : IssuerInv(x)'
  BY <1>1 DEF CertInv, IssuerInv
<1>. QED BY <1>2, <1>3 DEF CertInv

\* A handshake notices newer files; load looks at the times, then reads.
LEMMA LoadStep ==
    ASSUME CertInv, GetCertificate \/ LoadPair PROVE CertInv'
<1>. DEFINE c == certReloader
<1>1. /\ c \in ReloaderType
      /\ certFile \in PairNumbers /\ pairKeyFile \in PairNumbers /\ pairsMade \in PairNumbers
      /\ certFile <= pairsMade /\ (pairsMade # 0 => certFile # 0)
      /\ ReloaderInv
  BY DEF CertInv, PairTypes, FilesInv
<1>2. /\ c.served \in Nat /\ c.certMod \in Nat /\ c.keyMod \in Nat /\ c.read \in Nat
      /\ c.seen[1] \in Nat /\ c.seen[2] \in Nat /\ certFile \in Nat /\ pairKeyFile \in Nat /\ pairsMade \in Nat
  BY <1>1, PairsAreNumbers, Zenon DEF ReloaderType
<1>3. CASE GetCertificate
  <2>. DEFINE r == [c EXCEPT !.pc = "stat"]
  <2>1. ReloaderGoes(r) /\ c.pc = "idle"
    BY <1>3 DEF GetCertificate
  <2>2. /\ r \in ReloaderType
        /\ r.pc = "stat" /\ r.served = c.served /\ r.certMod = c.certMod /\ r.keyMod = c.keyMod
    BY <1>1 DEF ReloaderType
  <2>3. certReloader' = r /\ UNCHANGED <<certFile, pairKeyFile, pairsMade, tlsMem>>
    BY <2>1 DEF ReloaderGoes, certFiles
  <2>. HIDE DEF r
  <2>4. ReloaderInv'
    BY <1>1, <1>2, <2>1, <2>2, <2>3 DEF ReloaderInv
  <2>. QED BY <2>1, <2>2, <2>4, ReloaderMoves
<1>4. CASE LoadModTimes
  <2>. DEFINE r == [c EXCEPT !.pc = "cert", !.seen = <<certFile, pairKeyFile>>]
  <2>1. ReloaderGoes(r) /\ c.pc = "stat"
    BY <1>4 DEF LoadModTimes
  <2>2. /\ r \in ReloaderType
        /\ r.pc = "cert" /\ r.served = c.served /\ r.certMod = c.certMod /\ r.keyMod = c.keyMod
        /\ r.seen[1] = certFile /\ r.seen[2] = pairKeyFile
    BY <1>1, Zenon DEF ReloaderType
  <2>3. certReloader' = r /\ UNCHANGED <<certFile, pairKeyFile, pairsMade, tlsMem>>
    BY <2>1 DEF ReloaderGoes, certFiles
  <2>. HIDE DEF r
  <2>4. ReloaderInv'
    BY <1>1, <1>2, <2>1, <2>2, <2>3 DEF ReloaderInv
  <2>. QED BY <2>1, <2>2, <2>4, ReloaderMoves
<1>5. CASE LoadCert
  <2>. DEFINE r == [c EXCEPT !.pc = "key", !.read = certFile]
  <2>1. ReloaderGoes(r) /\ c.pc = "cert"
    BY <1>5 DEF LoadCert
  <2>2. /\ r \in ReloaderType
        /\ r.pc = "key" /\ r.served = c.served /\ r.certMod = c.certMod /\ r.keyMod = c.keyMod
        /\ r.seen = c.seen /\ r.read = certFile
    BY <1>1, Zenon DEF ReloaderType
  <2>3. certReloader' = r /\ UNCHANGED <<certFile, pairKeyFile, pairsMade, tlsMem>>
    BY <2>1 DEF ReloaderGoes, certFiles
  <2>. HIDE DEF r
  <2>4. ReloaderInv'
    BY <1>1, <1>2, <2>1, <2>2, <2>3 DEF ReloaderInv
  <2>. QED BY <2>1, <2>2, <2>4, ReloaderMoves
<1>6. CASE LoadKeyPair /\ pairKeyFile = c.read
  <2>. DEFINE r == [c EXCEPT !.pc = "idle", !.served = pairKeyFile, !.certMod = c.seen[1], !.keyMod = c.seen[2]]
  <2>1. ReloaderGoes(r) /\ c.pc = "key"
    BY <1>6 DEF LoadKeyPair
  <2>2. /\ r \in ReloaderType
        /\ r.pc = "idle" /\ r.served = pairKeyFile /\ r.certMod = c.seen[1] /\ r.keyMod = c.seen[2]
    BY <1>1, Zenon DEF ReloaderType
  <2>3. certReloader' = r /\ UNCHANGED <<certFile, pairKeyFile, pairsMade, tlsMem>>
    BY <2>1 DEF ReloaderGoes, certFiles
  <2>. HIDE DEF r
  <2>4. ReloaderInv'
    BY <1>1, <1>2, <1>6, <2>1, <2>2, <2>3 DEF ReloaderInv
  <2>. QED BY <2>1, <2>2, <2>4, ReloaderMoves
<1>7. CASE LoadKeyPair /\ pairKeyFile # c.read
  <2>. DEFINE r == [c EXCEPT !.pc = IF c.served = 0 THEN "failed" ELSE "idle"]
  <2>1. ReloaderGoes(r) /\ c.pc = "key"
    BY <1>7 DEF LoadKeyPair
  <2>2. /\ r \in ReloaderType
        /\ r.pc = (IF c.served = 0 THEN "failed" ELSE "idle")
        /\ r.served = c.served /\ r.certMod = c.certMod /\ r.keyMod = c.keyMod
    BY <1>1 DEF ReloaderType
  <2>3. certReloader' = r /\ UNCHANGED <<certFile, pairKeyFile, pairsMade, tlsMem>>
    BY <2>1 DEF ReloaderGoes, certFiles
  <2>. HIDE DEF r
  <2>4. ReloaderInv'
    BY <1>1, <1>2, <2>1, <2>2, <2>3 DEF ReloaderInv
  <2>. QED BY <2>1, <2>2, <2>4, ReloaderMoves
<1>. QED BY <1>3, <1>4, <1>5, <1>6, <1>7 DEF LoadPair

-----------------------------------------------------------------------------
(* The invariant and what follows from it.                                     *)

\* The first start.
LEMMA CertInitially == CertInit => CertInv
<1>. SUFFICES ASSUME CertInit PROVE CertInv
  OBVIOUS
<1>1. NoIssue \in IssueType /\ NoIssue.pc = "idle" /\ NoIssue.pair = 0 /\ {0, 1} \subseteq PairNumbers
  BY CertAssumption
  DEF NoIssue, IssueType, IssueSteps, HoldingLock, WritingPair, TLSModes, PairNumbers, NoBlock, AcmeBlocks
<1>2. \A x \in Issuers : issuance[x] = NoIssue
  BY DEF CertInit
<1>3. PairTypes
  <2>1. tlsMem \in TLSSettings /\ tlsDisk \in TLSSettings
    <3>1. [form |-> NoForm, enabled |-> TRUE] \in AcmeBlocks
      BY DEF AcmeBlocks
    <3>2. PICK m \in TLSModes : tlsMem = [mode |-> m, acme |-> [form |-> NoForm, enabled |-> TRUE]]
      BY DEF CertInit
    <3>. QED BY <3>1, <3>2 DEF CertInit, TLSSettings
  <2>2. "idle" \notin HoldingLock
    BY DEF HoldingLock, WritingPair
  <2>3. certReloader \in ReloaderType
    BY <1>1 DEF CertInit, ReloaderType
  <2>4. issuance \in [Issuers -> IssueType] /\ \A x \in Issuers : issuance[x].pc \notin HoldingLock
    BY <1>1, <1>2, <2>2 DEF CertInit
  <2>5. /\ certDue \in BOOLEAN /\ pairTorn \in BOOLEAN
    BY Zenon DEF CertInit
  <2>. QED BY <1>1, <2>1, <2>3, <2>4, <2>5 DEF CertInit, PairTypes
<1>4. FilesInv /\ ReloaderInv
  BY DEF CertInit, FilesInv, ReloaderInv
<1>5. \A x \in Issuers : IssuerInv(x)
  BY <1>1, <1>2 DEF CertInit, IssuerInv, WritingPair
<1>. QED BY <1>3, <1>4, <1>5 DEF CertInv

\* CertInv is inductive, and a renewal never moves the mode.
LEMMA CertSteps ==
    ASSUME CertInv, [CertNext]_certVars
    PROVE  /\ CertInv'
           /\ issuance[Renewal].pc = "record" /\ issuance'[Renewal].pc = "save" => tlsMem'.mode = tlsMem.mode
<1>0. Renewal \in Issuers /\ TLSRequests \subseteq Issuers
  BY DEF Issuers
<1>1. CASE UNCHANGED certVars
  <2>. USE <1>1 DEF certVars, certFiles
  <2>1. PairTypes' /\ FilesInv' /\ ReloaderInv'
    BY DEF CertInv, PairTypes, FilesInv, ReloaderInv
  <2>2. \A x \in Issuers : IssuerInv(x)'
    BY DEF CertInv, IssuerInv
  <2>3. tlsMem' = tlsMem
    OBVIOUS
  <2>. QED BY <2>1, <2>2, <2>3 DEF CertInv
<1>2. CASE \E x \in Issuers : RecordMode(x)
  <2>1. PICK x \in Issuers : RecordMode(x)
    BY <1>2
  <2>2. CertInv' /\ (x = Renewal => tlsMem'.mode = tlsMem.mode)
    BY <2>1, RecordStep
  <2>3. x # Renewal => issuance'[Renewal] = issuance[Renewal]
    BY <1>0, <2>1 DEF RecordMode, IssueTo, CertInv, PairTypes
  <2>. QED BY <2>2, <2>3
<1>3. CASE CertNext /\ ~\E x \in Issuers : RecordMode(x)
  <2>1. CertInv'
    <3>1. ASSUME NEW q \in TLSRequests, TLSRestart(q) PROVE CertInv'
      BY <3>1, EndStep DEF TLSRestart, CutOff
    <3>2. CASE TLSCrash
      BY <3>2, EndStep DEF TLSCrash, CutOff
    <3>3. ASSUME NEW x \in Issuers, IssueOrder(x) PROVE CertInv'
      BY <3>3, OrderStep, InstallStep DEF IssueOrder
    <3>. QED
      BY <1>3, <3>1, <3>2, <3>3, RequestStep, MkcertStep, ConfigureStep, StagingStep, RenewalStep, WriteStep,
         SaveStep, OutsideStep, EnsureStep, LoadStep
      DEF CertNext
  <2>2. issuance[Renewal].pc = "record" /\ issuance'[Renewal].pc = "save" => tlsMem'.mode = tlsMem.mode
    <3>. SUFFICES ASSUME issuance[Renewal].pc = "record", issuance'[Renewal].pc = "save", tlsMem' # tlsMem
                  PROVE  FALSE
      OBVIOUS
    <3>1. \/ \E q \in TLSRequests : StageACME(q) \/ AcmeIssueFailed(q)
          \/ CertProcessEnds
      BY <1>3, Zenon
      DEF CertNext, HandleRegenerateTLS, HandleSetTLSMode, IssueMkcertPair, EnableMkcert, HandleConfigureACME,
          TLSRestart, TLSCrash, CutOff, RenewalLoop, RenewIfDue, RecordRenewal, IssueOrder, AuthorizeOrder, SatisfyOrder,
          FinalizeOrder, InstallACMEPair, WriteFirst, WriteSecond, SaveTLS, OtherTLSSave, CertAges, EnsureTLSCert,
          EnsureSelfSigned, GenerateSelfSignedKey, ensureLeaves,
          GetCertificate, LoadPair, LoadModTimes, LoadCert, LoadKeyPair, ReloaderGoes
    <3>2. CASE CertProcessEnds
      BY <1>0, <3>2 DEF CertProcessEnds, NoIssue
    <3>3. ASSUME NEW q \in TLSRequests, StageACME(q) \/ AcmeIssueFailed(q) PROVE FALSE
      <4>1. q # Renewal /\ (IssueTo(q, "order") \/ EndIssue(q))
        BY <3>3, CertAssumption DEF StageACME, AcmeIssueFailed
      <4>2. issuance'[Renewal] = issuance[Renewal]
        BY <1>0, <4>1 DEF IssueTo, EndIssue, CertInv, PairTypes
      <4>. QED BY <4>2
    <3>. QED BY <3>1, <3>2, <3>3
  <2>. QED BY <2>1, <2>2
<1>. QED BY <1>1, <1>2, <1>3

-----------------------------------------------------------------------------
(* What is left behind.                                                        *)

LeftInv == LeftoverTypes /\ NothingLeftBehind

\* One issuance moves and the others stay.
LEMMA OneMoves ==
    ASSUME PairTypes, NEW x \in Issuers, NEW pc, NEW mode,
           IssueTo(x, pc) \/ EndIssue(x) \/ NewPair(x, mode)
    PROVE  /\ \A y \in Issuers \ {x} : issuance'[y] = issuance[y]
           /\ IssueTo(x, pc) => issuance'[x].pc = pc
<1>1. CASE IssueTo(x, pc)
  BY <1>1 DEF PairTypes, IssueTo, IssueType
<1>2. CASE EndIssue(x)
  BY <1>2 DEF PairTypes, EndIssue, IssueTo, IssueType
<1>3. CASE NewPair(x, mode)
  BY <1>3 DEF PairTypes, NewPair, IssueTo, IssueType
<1>. QED BY <1>1, <1>2, <1>3

\* A fault more or none.
LEMMA FaultsCounted ==
    ASSUME LeftInv, tlsFaults' \in {tlsFaults, tlsFaults + 1}
    PROVE  tlsFaults' \in Nat /\ (strayTXT => tlsFaults' # 0)
  BY DEF LeftInv, LeftoverTypes, NothingLeftBehind

\* A step that touches no record and no staged file, of an issuance that has neither.
LEMMA LeftAlone ==
    ASSUME LeftInv, NEW x \in Issuers, \A y \in Issuers \ {x} : issuance'[y] = issuance[y],
           issuance[x].pc \notin {"validate", "staged"},
           UNCHANGED <<challenges, stagedPair, stagedLeft, strayTXT>>,
           tlsFaults' \in {tlsFaults, tlsFaults + 1}
    PROVE  LeftInv'
<1>1. challenges \subseteq Issuers /\ TLSRequests \subseteq Issuers
  BY DEF LeftInv, LeftoverTypes, Issuers
<1>2. \A y \in challenges : issuance'[y].pc = "validate"
  BY <1>1 DEF LeftInv, NothingLeftBehind
<1>3. ASSUME stagedPair PROVE stagedLeft \/ \E q \in TLSRequests : issuance'[q].pc = "staged"
  <2>1. stagedLeft \/ \E q \in TLSRequests : issuance[q].pc = "staged"
    BY <1>3 DEF LeftInv, NothingLeftBehind
  <2>2. ASSUME NEW q \in TLSRequests, issuance[q].pc = "staged" PROVE issuance'[q].pc = "staged"
    BY <1>1, <2>2
  <2>. QED BY <2>1, <2>2
<1>4. LeftoverTypes'
  BY FaultsCounted DEF LeftInv, LeftoverTypes
<1>5. NothingLeftBehind'
  BY <1>2, <1>3, FaultsCounted DEF NothingLeftBehind
<1>. QED BY <1>4, <1>5 DEF LeftInv

\* mkcert's files: read under the lock and removed, or left.
LEMMA StagedStep ==
    ASSUME CertInv, LeftInv, NEW q \in TLSRequests, IssueMkcertPair(q) \/ EnableMkcert(q)
    PROVE  LeftInv'
<1>1. /\ UNCHANGED <<challenges, strayTXT>> /\ tlsFaults' \in {tlsFaults, tlsFaults + 1}
      /\ issuance[q].pc # "validate" /\ q \in Issuers /\ PairTypes
      /\ stagedPair' \in BOOLEAN /\ stagedLeft' \in BOOLEAN
  <2>1. UNCHANGED <<challenges, strayTXT>> /\ issuance[q].pc # "validate" /\ q \in Issuers /\ PairTypes
    BY DEF IssueMkcertPair, EnableMkcert, IssueAt, Issuers, CertInv
  <2>2. tlsFaults' \in {tlsFaults, tlsFaults + 1}
    BY DEF IssueMkcertPair, EnableMkcert, RemoveStaged, TLSFault
  <2>3. stagedPair' \in BOOLEAN /\ stagedLeft' \in BOOLEAN
    BY Zenon DEF IssueMkcertPair, EnableMkcert, RemoveStaged, LeftInv, LeftoverTypes
  <2>. QED BY <2>1, <2>2, <2>3
<1>2. \A y \in Issuers \ {q} : issuance'[y] = issuance[y]
  BY <1>1, OneMoves DEF IssueMkcertPair, EnableMkcert
<1>3. \A y \in challenges : issuance'[y].pc = "validate"
  BY <1>1, <1>2 DEF LeftInv, LeftoverTypes, NothingLeftBehind
<1>4. stagedPair' => stagedLeft' \/ issuance'[q].pc = "staged"
  <2>1. IssueTo(q, "staged") => issuance'[q].pc = "staged"
    BY <1>1, OneMoves
  <2>. QED BY <2>1, Zenon DEF IssueMkcertPair, EnableMkcert, RemoveStaged
<1>. QED BY <1>1, <1>3, <1>4, FaultsCounted DEF LeftInv, LeftoverTypes, NothingLeftBehind

\* The TXT record: its ID is held from Present to CleanUp.
LEMMA RecordsStep ==
    ASSUME CertInv, LeftInv, NEW x \in Issuers, AuthorizeOrder(x) \/ SatisfyOrder(x)
    PROVE  LeftInv'
<1>1. /\ UNCHANGED <<stagedPair, stagedLeft>> /\ issuance[x].pc \in {"order", "validate"} /\ PairTypes
      /\ challenges \subseteq Issuers /\ TLSRequests \subseteq Issuers
      /\ strayTXT \in BOOLEAN
  BY DEF AuthorizeOrder, SatisfyOrder, IssueAt, CertInv, LeftInv, LeftoverTypes, Issuers
<1>2. PICK pc \in {"validate", "finalize", "manual", "failed"} : IssueTo(x, pc)
  BY DEF AuthorizeOrder, SatisfyOrder
<1>3. issuance'[x].pc = pc /\ \A y \in Issuers \ {x} : issuance'[y] = issuance[y]
  BY <1>1, <1>2, OneMoves
<1>4. \/ /\ challenges' \in {challenges \cup {x}, challenges} /\ issuance[x].pc = "order"
         /\ challenges' = challenges \cup {x} => issuance'[x].pc = "validate" \/ x \in challenges
      \/ challenges' = challenges \ {x}
  <2>1. CASE SatisfyOrder(x)
    BY <2>1 DEF SatisfyOrder, CleanUpTXT
  <2>2. CASE AuthorizeOrder(x)
    <3>1. IssueTo(x, "validate") => issuance'[x].pc = "validate"
      BY <1>1, OneMoves
    <3>. QED BY <2>2, <3>1 DEF AuthorizeOrder, PresentTXT, PresentFails, IssueAt
  <2>. QED BY <2>1, <2>2
<1>5. challenges' \subseteq Issuers /\ \A y \in challenges' : issuance'[y].pc = "validate"
  <2>1. \A y \in challenges : issuance[y].pc = "validate"
    BY DEF LeftInv, NothingLeftBehind
  <2>. QED BY <1>1, <1>3, <1>4, <2>1
<1>6. stagedPair => stagedLeft \/ \E q \in TLSRequests : issuance'[q].pc = "staged"
  <2>1. stagedPair => stagedLeft \/ \E q \in TLSRequests : issuance[q].pc = "staged"
    BY DEF LeftInv, NothingLeftBehind
  <2>2. ASSUME NEW q \in TLSRequests, issuance[q].pc = "staged" PROVE issuance'[q].pc = "staged"
    BY <1>1, <1>3, <2>2
  <2>. QED BY <2>1, <2>2
<1>7. \/ tlsFaults' = tlsFaults /\ strayTXT' = strayTXT
      \/ tlsFaults' = tlsFaults + 1 /\ strayTXT' \in BOOLEAN
  BY <1>1, Zenon DEF AuthorizeOrder, SatisfyOrder, PresentFails, CleanUpTXT, TLSFault
<1>8. tlsFaults \in Nat /\ (strayTXT => tlsFaults # 0)
  BY DEF LeftInv, LeftoverTypes, NothingLeftBehind
<1>9. tlsFaults' \in Nat /\ strayTXT' \in BOOLEAN /\ (strayTXT' => tlsFaults' # 0)
  BY <1>1, <1>7, <1>8
<1>. QED BY <1>1, <1>5, <1>6, <1>9 DEF LeftInv, LeftoverTypes, NothingLeftBehind

\* The process ends: the staged files stay, the records are withdrawn or nobody's.
LEMMA LeftAtEnd ==
    ASSUME LeftInv, CertProcessEnds, UNCHANGED <<tlsFaults, strayTXT>> \/ CutOff PROVE LeftInv'
<1>1. challenges' = {} /\ stagedLeft' = stagedPair /\ stagedPair' = stagedPair
  BY DEF CertProcessEnds
<1>2. /\ tlsFaults \in Nat /\ (strayTXT => tlsFaults # 0)
      /\ stagedPair \in BOOLEAN /\ strayTXT \in BOOLEAN
  BY DEF LeftInv, LeftoverTypes, NothingLeftBehind
<1>3. \/ tlsFaults' = tlsFaults /\ strayTXT' = strayTXT
      \/ tlsFaults' = tlsFaults + 1 /\ strayTXT' \in BOOLEAN
  <2>1. CASE CutOff
    <3>1. tlsFaults' = tlsFaults + 1 /\ strayTXT' = (strayTXT \/ challenges # {})
      BY <2>1 DEF CutOff, TLSFault
    <3>. QED BY <3>1
  <2>. QED BY <2>1
<1>4. tlsFaults' \in Nat /\ strayTXT' \in BOOLEAN /\ (strayTXT' => tlsFaults' # 0)
  BY <1>2, <1>3
<1>5. stagedPair' \in BOOLEAN /\ stagedLeft' \in BOOLEAN /\ (stagedPair' => stagedLeft')
  BY <1>1, <1>2, Zenon
<1>. QED BY <1>1, <1>4, <1>5 DEF LeftInv, LeftoverTypes, NothingLeftBehind

\* Everything else leaves the records and the staged files alone.
LEMMA LeftElsewhere ==
    ASSUME CertInv, LeftInv, NEW x \in Issuers,
           \/ x \in TLSRequests /\ \/ HandleRegenerateTLS(x) \/ (\E mode \in {"self-signed", "mkcert"} : HandleSetTLSMode(x, mode))
                                   \/ (\E form \in AcmeForms : HandleConfigureACME(x, form))
                                   \/ StageACME(x) \/ AcmeIssueFailed(x)
           \/ x = Renewal /\ RenewalLoop
           \/ FinalizeOrder(x) \/ InstallACMEPair(x) \/ WriteFirst(x) \/ WriteSecond(x) \/ RecordMode(x) \/ SaveTLS(x)
    PROVE  LeftInv'
<1>. DEFINE handlers == \/ HandleRegenerateTLS(x) \/ (\E mode \in {"self-signed", "mkcert"} : HandleSetTLSMode(x, mode))
                        \/ (\E form \in AcmeForms : HandleConfigureACME(x, form))
            settings == StageACME(x) \/ AcmeIssueFailed(x) \/ (x = Renewal /\ RenewalLoop)
            writes == \/ FinalizeOrder(x) \/ InstallACMEPair(x) \/ WriteFirst(x) \/ WriteSecond(x)
                      \/ RecordMode(x) \/ SaveTLS(x)
<1>1. /\ UNCHANGED <<challenges, stagedPair, stagedLeft, strayTXT>>
      /\ tlsFaults' \in {tlsFaults, tlsFaults + 1}
      /\ issuance[x].pc \notin {"validate", "staged"}
  <2>1. CASE handlers
    BY <2>1 DEF HandleRegenerateTLS, HandleSetTLSMode, HandleConfigureACME, IssueAt, onlySettings
  <2>2. CASE settings
    BY <2>2 DEF StageACME, AcmeIssueFailed, RenewalLoop, RenewIfDue, RecordRenewal, IssueAt, onlySettings, TLSFault
  <2>3. CASE writes
    BY <2>3 DEF FinalizeOrder, InstallACMEPair, WriteFirst, WriteSecond, WriteFails, RecordMode, SaveTLS, IssueAt,
                onlySettings, TLSFault
  <2>. QED BY <2>1, <2>2, <2>3
<1>2. PairTypes
  BY DEF CertInv
<1>3. \A y \in Issuers \ {x} : issuance'[y] = issuance[y]
  <2>1. CASE handlers
    BY <1>2, <2>1, OneMoves DEF HandleRegenerateTLS, HandleSetTLSMode, HandleConfigureACME, Regenerate, SwitchMode,
       IssueSelfSigned, PairTypes
  <2>2. CASE settings
    BY <1>2, <2>2, OneMoves DEF StageACME, AcmeIssueFailed, RenewalLoop, RenewIfDue, RecordRenewal
  <2>3. CASE writes
    BY <1>2, <2>3, OneMoves DEF FinalizeOrder, InstallACMEPair, WriteFirst, WriteSecond, WriteFails, RecordMode, SaveTLS
  <2>. QED BY <2>1, <2>2, <2>3
<1>. QED BY <1>1, <1>3, LeftAlone

\* No step leaves a record or a staged key behind but as NothingLeftBehind says.
LEMMA LeftSteps ==
    ASSUME CertInv, LeftInv, [CertNext]_certVars PROVE LeftInv'
<1>0. Renewal \in Issuers /\ TLSRequests \subseteq Issuers
  BY DEF Issuers
<1>1. ASSUME UNCHANGED <<issuance, challenges, stagedPair, stagedLeft, strayTXT>>,
             tlsFaults' \in {tlsFaults, tlsFaults + 1}
      PROVE  LeftInv'
  BY <1>1, FaultsCounted DEF LeftInv, LeftoverTypes, NothingLeftBehind
<1>2. CASE UNCHANGED certVars
  BY <1>1, <1>2 DEF certVars
<1>3. CASE OtherTLSSave \/ CertAges \/ GetCertificate \/ LoadPair
  BY <1>1, <1>3 DEF OtherTLSSave, CertAges, GetCertificate, LoadPair, LoadModTimes, LoadCert, LoadKeyPair, ReloaderGoes
<1>4. CASE EnsureTLSCert \/ EnsureSelfSigned \/ GenerateSelfSignedKey
  BY <1>1, <1>4 DEF EnsureTLSCert, EnsureSelfSigned, GenerateSelfSignedKey, EnsureFails, ensureLeaves, TLSFault
<1>5. ASSUME NEW q \in TLSRequests, TLSRestart(q) PROVE LeftInv'
  BY <1>5, LeftAtEnd DEF TLSRestart, CutOff
<1>6. CASE TLSCrash
  BY <1>6, LeftAtEnd DEF TLSCrash, CutOff
<1>. QED
  BY <1>0, <1>2, <1>3, <1>4, <1>5, <1>6, StagedStep, RecordsStep, LeftElsewhere, Zenon DEF CertNext, IssueOrder

\* TLSService, ACMEService and certReloader, for any requests and any number of pairs and faults: the next
\* start finds a pair it can bind with unless an install was cut between its two files, and what is served is
\* the pair on disk once the reloader believes so. A flow that holds a TXT record withdraws it, a staged key
\* stays only where mkcert or its removal failed or the process ended, and a renewal never switches the mode back.
THEOREM CertificatesAreSound == CertSpec => CertificatesSound
<1>1. CertInv /\ LeftInv => NextStartBinds /\ ServesWhatItSaw /\ NothingLeftBehind
  <2>. SUFFICES ASSUME CertInv PROVE NextStartBinds /\ ServesWhatItSaw
    BY DEF LeftInv
  <2>1. NextStartBinds
    BY DEF NextStartBinds, CertInv, FilesInv
  <2>2. /\ certReloader.served \in Nat /\ certFile \in Nat /\ pairKeyFile \in Nat
        /\ certReloader.certMod \in Nat /\ certReloader.keyMod \in Nat
    BY PairsAreNumbers, Zenon DEF CertInv, PairTypes, ReloaderType
  <2>3. ServesWhatItSaw
    BY <2>2 DEF ServesWhatItSaw, CertInv, ReloaderInv
  <2>. QED BY <2>1, <2>3
<1>2. CertInv /\ [CertNext]_certVars =>
        /\ CertInv' /\ (LeftInv => LeftInv')
        /\ [issuance[Renewal].pc = "record" /\ issuance'[Renewal].pc = "save" => tlsMem'.mode = tlsMem.mode]_certVars
  BY CertSteps, LeftSteps
<1>3. CertInit => LeftInv
  <2>. SUFFICES ASSUME CertInit PROVE LeftInv
    OBVIOUS
  <2>1. stagedPair = FALSE /\ stagedLeft = FALSE /\ strayTXT = FALSE /\ challenges = {} /\ tlsFaults = 0
    BY DEF CertInit
  <2>2. stagedPair \in BOOLEAN /\ stagedLeft \in BOOLEAN /\ strayTXT \in BOOLEAN
    BY <2>1, Zenon
  <2>. QED BY <2>1, <2>2 DEF LeftInv, LeftoverTypes, NothingLeftBehind
<1>. QED BY <1>1, <1>2, <1>3, CertInitially, PTL DEF CertSpec, CertificatesSound, RenewalKeepsMode

===============================================================================
