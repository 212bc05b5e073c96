-------------------------- MODULE SideBySideProofs --------------------------
(***************************************************************************)
(* Proofs about the other parts of SideBySide: the etcd resolver, the gRPC *)
(* connections, the settings and the Sentry core, each for any values of   *)
(* its constants.                                                          *)
(***************************************************************************)
EXTENDS RustRegistriesProofs, EtcdResolverProofs, SequenceTheorems

--------------------------------------------------------------------------
(* The etcd resolver                                                       *)

LEMMA ResolverIsAPart == PartsSpec => ResolverSpec
<1>1. PartsInit => ResolverInit
  BY DEF PartsInit
<1>2. [PartsNext]_partVars => [ResolverNext]_allVars
  BY DEF PartsNext, partVars
<1> QED
  BY <1>1, <1>2, PTL DEF PartsSpec, ResolverSpec

(* What QuietConnection says, with its two exceptions, holds in the        *)
(* program that has the other parts too.                                   *)
THEOREM PartsQuietConnection == PartsSpec => []QuietConnectionIsFresh
BY ResolverIsAPart, QuietConnection, PTL

--------------------------------------------------------------------------
(* The gRPC connections                                                    *)

LEMMA ConnConstants == None \notin Conn /\ Bad \notin Service /\ MaxEntries \in Nat
BY PartsAssumption DEF Connections!ConnAssumption

LEMMA ConnInit == Connections!Init => Connections!IInv
BY ConnConstants
   DEF Connections!Init, Connections!IInv, Connections!TypeOK, Connections!OpenedInv,
       Connections!OpenConnectionsAreKnown

\* What is left of the entries of a configuration are entries of one.
LEMMA FewerEntries ==
  ASSUME Connections!TypeOK, entries # <<>>
  PROVE  /\ Head(entries) \in Service \cup {Bad}
         /\ Tail(entries) \in UNION {[1..n -> Service \cup {Bad}] : n \in 0..MaxEntries}
<1>1. PICK n \in 0..MaxEntries : entries \in [1..n -> Service \cup {Bad}]
  BY DEF Connections!TypeOK
<1>2. entries \in Seq(Service \cup {Bad}) /\ Len(entries) = n
  BY <1>1, ConnConstants
<1>3. /\ Head(entries) \in Service \cup {Bad}
      /\ Tail(entries) \in Seq(Service \cup {Bad}) /\ Len(Tail(entries)) = n - 1
  BY <1>2
<1>4. n - 1 \in 0..MaxEntries
  BY <1>2, <1>3, ConnConstants
<1>5. Tail(entries) \in [1..(n - 1) -> Service \cup {Bad}]
  BY <1>3, LenProperties
<1> QED
  BY <1>3, <1>4, <1>5

\* Closing opens nothing, and forgets nothing that stays open.
LEMMA ClosedKeeps ==
  ASSUME Connections!IInv, NEW C, conn' = Connections!Closed(C),
         table' \in [Target -> Conn \cup {None}],
         \A t \in Target : table'[t] = table[t] \/ table[t] \in C,
         UNCHANGED <<handed, tracked, entries, services>>,
         client' \in {"making", "failed", "made", "closed"},
         client' = "closed" /\ client # "closed" => {services[s] : s \in Service} \subseteq C
  PROVE  Connections!IInv'
<1> USE DEF Connections!IInv, Connections!TypeOK, Connections!Closed
<1>1. \A c \in Conn : conn'[c] = IF c \in C THEN "closed" ELSE conn[c]
  OBVIOUS
<1>2. Connections!TypeOK' /\ Connections!OpenedInv'
  BY <1>1 DEF Connections!OpenedInv
<1>3. ASSUME NEW c \in tracked', conn'[c] = "open"
      PROVE  \E t \in Target : table'[t] = c
  <2>1. c \notin C /\ conn[c] = "open"
    BY <1>1, <1>3
  <2>2. PICK t \in Target : table[t] = c
    BY <1>3, <2>1 DEF Connections!OpenConnectionsAreKnown
  <2> QED
    BY <2>1, <2>2
<1>4. client' = "closed" => \A c \in Connections!Bridged' : conn'[c] = "closed"
  BY <1>1 DEF Connections!OpenConnectionsAreKnown, Connections!Bridged
<1> QED
  BY <1>2, <1>3, <1>4 DEF Connections!OpenConnectionsAreKnown

\* A connection is opened once, so that none that was closed is open again.
LEMMA OpenedKeeps ==
  ASSUME Connections!IInv, NEW c \in Conn, Connections!Opened(c),
         handed' \in [Conn -> Target \cup {None}],
         \A d \in Conn : d # c => handed'[d] = handed[d],
         UNCHANGED <<table, tracked, client>>,
         entries' \in UNION {[1..n -> Service \cup {Bad}] : n \in 0..MaxEntries},
         services' \in [Service -> Conn \cup {None}],
         services' = services \/ client = "making"
  PROVE  Connections!IInv'
<1> USE DEF Connections!IInv, Connections!TypeOK, Connections!Opened, Connections!OpenedInv
<1>1. Connections!TypeOK' /\ Connections!OpenedInv'
  OBVIOUS
<1>2. Connections!OpenConnectionsAreKnown'
  BY DEF Connections!OpenConnectionsAreKnown, Connections!Bridged
<1> QED
  BY <1>1, <1>2

LEMMA ConnInductive ==
  Connections!IInv /\ [Connections!Next]_(Connections!vars) => Connections!IInv'
<1> SUFFICES ASSUME Connections!IInv, [Connections!Next]_(Connections!vars)
             PROVE  Connections!IInv'
  OBVIOUS
<1> USE ConnConstants
        DEF Connections!IInv, Connections!TypeOK, Connections!gclient, Connections!bridge
<1>1. ASSUME NEW c \in Conn, NEW t \in Target, Connections!NewConn(c, t)
      PROVE  Connections!IInv'
  <2>1. \A d \in Conn : handed'[d] = IF d = c THEN t ELSE handed[d]
    BY <1>1 DEF Connections!NewConn
  <2> QED
    BY <1>1, <2>1, OpenedKeeps DEF Connections!NewConn
<1>2. ASSUME NEW c \in Conn, NEW t \in Target, Connections!Hand(c, t)
      PROVE  Connections!IInv'
  BY <1>2
     DEF Connections!Hand, Connections!OpenedInv, Connections!OpenConnectionsAreKnown,
         Connections!Bridged
<1>3. ASSUME NEW c \in Conn, Connections!RegisterGRPCConnections(c)
      PROVE  Connections!IInv'
  <2>1. PICK t \in Target : t = handed[c]
    BY <1>3 DEF Connections!RegisterGRPCConnections
  <2>2. CASE table[t] = None
    <3>1. \A u \in Target : table'[u] = IF u = t THEN c ELSE table[u]
      BY <1>3, <2>1, <2>2 DEF Connections!RegisterGRPCConnections
    <3> QED
      BY <1>3, <2>1, <2>2, <3>1
         DEF Connections!RegisterGRPCConnections, Connections!OpenedInv,
             Connections!OpenConnectionsAreKnown, Connections!Bridged
  <2>3. CASE table[t] # None
    BY <1>3, <2>1, <2>3
       DEF Connections!RegisterGRPCConnections, Connections!OpenedInv,
           Connections!OpenConnectionsAreKnown, Connections!Bridged
  <2> QED
    BY <2>2, <2>3
<1>4. ASSUME NEW c \in Conn, Connections!CloseDirectly(c) PROVE Connections!IInv'
  BY <1>4, ClosedKeeps DEF Connections!CloseDirectly
<1>5. ASSUME NEW c \in Conn, Connections!NewService(c) PROVE Connections!IInv'
  BY <1>5, FewerEntries, OpenedKeeps DEF Connections!NewService
<1>6. ASSUME NEW t \in Target, Connections!CloseTarget(t) PROVE Connections!IInv'
  <2>1. \A u \in Target : table'[u] = table[u] \/ table[u] \in {table[t]}
    BY <1>6 DEF Connections!CloseTarget
  <2> QED
    BY <1>6, <2>1, ClosedKeeps DEF Connections!CloseTarget
<1>7. CASE Connections!CloseGRPCConnections
  BY <1>7, ClosedKeeps DEF Connections!CloseGRPCConnections
<1>8. CASE Connections!EntryFails \/ Connections!NewClientReturns
  BY <1>8
     DEF Connections!EntryFails, Connections!NewClientReturns, Connections!OpenedInv,
         Connections!OpenConnectionsAreKnown
<1>9. CASE Connections!CloseClient
  BY <1>9, ClosedKeeps DEF Connections!CloseClient
<1>10. CASE UNCHANGED Connections!vars
  BY <1>10
     DEF Connections!vars, Connections!OpenedInv, Connections!OpenConnectionsAreKnown,
         Connections!Bridged
<1> QED
  BY <1>1, <1>2, <1>3, <1>4, <1>5, <1>6, <1>7, <1>8, <1>9, <1>10 DEF Connections!Next

LEMMA ConnSafety == PartsSpec => []Connections!IInv
<1>1. PartsInit => Connections!Init
  BY DEF PartsInit
<1>2. [PartsNext]_partVars => [Connections!Next]_(Connections!vars)
  BY DEF PartsNext, partVars, connections, Connections!vars, Connections!gclient,
         Connections!bridge
<1> QED
  BY <1>1, <1>2, ConnInit, ConnInductive, PTL DEF PartsSpec

(* However targets are registered and connections closed, CloseGRPC-       *)
(* Connections finds every open connection the table took, and a closed    *)
(* bridge client has no service with an open one.  It says nothing of the  *)
(* connections nobody could close: those the table refused, those that     *)
(* services of the same name replaced, those of a NewClient that failed.   *)
THEOREM PartsOpenConnections == PartsSpec => []OpenConnectionsAreKnown
BY ConnSafety, PTL DEF OpenConnectionsAreKnown, Connections!IInv

--------------------------------------------------------------------------
(* The settings                                                            *)

LEMMA SettingsConstants ==
  KeyOf \in [Pointer -> Key] /\ MaxWrites \in Nat /\ None \notin Pointer
BY PartsAssumption DEF Sections!SettingsAssumption

LEMMA KeysAreSomething == ASSUME NEW S \in SUBSET Key PROVE S # None
BY PartsAssumption DEF Sections!SettingsAssumption

LEMMA SettingsInit == Sections!Init => Sections!IInv
<1> SUFFICES ASSUME Sections!Init PROVE Sections!IInv
  OBVIOUS
<1> USE SettingsConstants DEF Sections!Init
<1>1. Sections!First \in Sections!Contents
  BY DEF Sections!First, Sections!Contents
<1>2. \A p \in Pointer : read[p].pc = "idle" /\ read[p].from = Sections!First
  BY DEF Sections!NoRead
<1>3. Sections!TypeOK
  <2>1. crashed \in BOOLEAN
    BY Zenon
  <2>2. /\ file \in Sections!Contents /\ loaded \in Sections!Contents
        /\ watcher \in {"none", "starting", "watching", "on"}
        /\ events \in 0..MaxWrites
        /\ outcome \in {"none", "unread", "unheard", "running", "cut", "complete"}
    BY <1>1
  <2>3. /\ reload \in (SUBSET Key) \cup {None} /\ raced \in SUBSET Key
        /\ sections \in [Key -> Pointer \cup {None}]
        /\ value \in [Pointer -> 0..MaxWrites \cup {None}]
    OBVIOUS
  <2>4. read \in [Pointer -> [pc : {"idle", "decode", "register"}, from : Sections!Contents]]
    BY <1>1 DEF Sections!NoRead
  <2> QED
    BY <2>1, <2>2, <2>3, <2>4 DEF Sections!TypeOK
<1>4. file.version = 0
  BY DEF Sections!First
<1> QED
  BY <1>2, <1>3, <1>4
     DEF Sections!IInv, Sections!SectionInv, Sections!ReadInv, Sections!HeardInv,
         Sections!DecodedInv

\* The steps that touch neither a section nor what a call is given.
LEMMA WatchKeeps ==
  ASSUME Sections!IInv, UNCHANGED <<events, reload, sections, value, read, outcome, raced>>,
         UNCHANGED <<file, loaded, crashed>>,
         watcher' \in {"none", "starting", "watching", "on"},
         watcher = "on" => watcher' = "on"
  PROVE  Sections!IInv'
BY DEF Sections!IInv, Sections!TypeOK, Sections!SectionInv, Sections!ReadInv,
       Sections!HeardInv, Sections!DecodedInv

LEMMA BeginReadKeeps ==
  ASSUME Sections!IInv, NEW p \in Pointer, Sections!BeginReadSection(p)
  PROVE  Sections!IInv'
<1> USE DEF Sections!IInv, Sections!TypeOK, Sections!BeginReadSection
<1>1. \A q \in Pointer : read'[q] = IF q = p THEN [pc |-> "decode", from |-> loaded] ELSE read[q]
  OBVIOUS
<1>2. Sections!TypeOK' /\ Sections!ReadInv'
  BY <1>1 DEF Sections!ReadInv
<1> QED
  BY <1>2 DEF Sections!SectionInv, Sections!HeardInv, Sections!DecodedInv

\* What a struct is decoded from is a version, or none.
LEMMA DecodedType ==
  ASSUME NEW old \in 0..MaxWrites \cup {None}, NEW k, NEW c \in Sections!Contents
  PROVE  /\ Sections!Decoded(old, k, c) \in 0..MaxWrites \cup {None}
         /\ k \notin c.bad \cup c.gone => Sections!Decoded(old, k, c) = c.version
BY DEF Sections!Decoded, Sections!Contents

\* A key that did not race was read as viper has it, and decodes.
LEMMA NotRaced ==
  ASSUME Sections!TypeOK, NEW p \in Pointer, raced' = Sections!Older(p)
  PROVE  /\ raced' \in SUBSET Key /\ raced \subseteq raced'
         /\ KeyOf[p] \notin raced' => read[p].from = loaded /\ KeyOf[p] \notin loaded.bad
BY SettingsConstants DEF Sections!TypeOK, Sections!Older

LEMMA DecodeKeeps ==
  ASSUME Sections!IInv, NEW p \in Pointer, Sections!Decode(p)
  PROVE  Sections!IInv'
<1> USE SettingsConstants DEF Sections!IInv, Sections!TypeOK, Sections!Decode
<1>1. \A q \in Pointer : q # p => value'[q] = value[q] /\ read'[q] = read[q]
  OBVIOUS
<1>2. /\ read'[p].pc = "register" /\ read'[p].from = read[p].from
      /\ value'[p] \in 0..MaxWrites \cup {None}
      /\ KeyOf[p] \notin read[p].from.bad \cup read[p].from.gone =>
           value'[p] = read[p].from.version
  <2>1. PICK old \in 0..MaxWrites \cup {None}, c \in Sections!Contents :
          old = value[p] /\ c = read[p].from
    OBVIOUS
  <2>2. value'[p] = Sections!Decoded(old, KeyOf[p], c)
    BY <2>1
  <2> QED
    BY <2>1, <2>2, DecodedType
<1>3. /\ raced' \in SUBSET Key /\ raced \subseteq raced'
      /\ KeyOf[p] \notin raced' => read[p].from = loaded /\ KeyOf[p] \notin loaded.bad
  BY NotRaced
<1>4. Sections!TypeOK'
  <2>1. value' \in [Pointer -> 0..MaxWrites \cup {None}]
    BY <1>1, <1>2
  <2> QED
    BY <1>3, <2>1
<1>5. Sections!ReadInv'
  BY <1>1, <1>2 DEF Sections!ReadInv
<1>6. Sections!DecodedInv'
  BY <1>1, <1>2, <1>3 DEF Sections!DecodedInv, Sections!SectionInv
<1> QED
  BY <1>4, <1>5, <1>6 DEF Sections!SectionInv, Sections!HeardInv

LEMMA RegisterKeeps ==
  ASSUME Sections!IInv, NEW p \in Pointer, Sections!Register(p)
  PROVE  Sections!IInv'
<1>1. PICK k \in Key : k = KeyOf[p]
  BY SettingsConstants
<1> USE SettingsConstants DEF Sections!IInv, Sections!TypeOK, Sections!Register
<1>2. /\ \A j \in Key : j # k => sections'[j] = sections[j]
      /\ sections'[k] = IF sections[k] = None THEN p ELSE sections[k]
  BY <1>1
<1>3. /\ \A q \in Pointer : q # p => read'[q] = read[q]
      /\ read'[p] = Sections!NoRead
  OBVIOUS
<1>4. /\ raced' \in SUBSET Key /\ raced \subseteq raced'
      /\ k \notin raced' => read[p].from = loaded /\ k \notin loaded.bad
  BY <1>1, NotRaced
<1>5. /\ reload' = None <=> reload = None
      /\ reload # None => reload \subseteq reload' /\ reload' \subseteq reload \cup {k}
      /\ reload' \in (SUBSET Key) \cup {None}
  <2>1. reload' = reload \/ (reload # None /\ reload' = reload \cup {k})
    BY <1>1
  <2>2. reload # None => reload \cup {k} \in SUBSET Key
    OBVIOUS
  <2>3. reload # None => reload \cup {k} # None
    BY <2>2, KeysAreSomething
  <2> QED
    BY <2>1, <2>2, <2>3
<1>6. Sections!TypeOK'
  <2>1. sections' \in [Key -> Pointer \cup {None}]
    BY <1>1
  <2>2. Sections!NoRead.pc = "idle" /\ Sections!NoRead.from \in Sections!Contents
    BY DEF Sections!NoRead, Sections!First, Sections!Contents
  <2>3. Sections!NoRead \in [pc : {"idle", "decode", "register"}, from : Sections!Contents]
    BY <2>2 DEF Sections!NoRead
  <2>4. read' \in [Pointer -> [pc : {"idle", "decode", "register"}, from : Sections!Contents]]
    BY <2>3
  <2> QED
    BY <1>4, <1>5, <2>1, <2>4
<1>7. Sections!SectionInv'
  BY <1>1, <1>2, <1>5 DEF Sections!SectionInv
<1>8. Sections!ReadInv'
  BY <1>1, <1>2, <1>3 DEF Sections!ReadInv, Sections!NoRead
<1>9. Sections!HeardInv'
  BY <1>5 DEF Sections!HeardInv
<1>10. Sections!DecodedInv'
  <2>1. sections[k] = None /\ k \notin raced' \cup loaded.gone => value[p] = loaded.version
    BY <1>1, <1>4 DEF Sections!ReadInv
  <2> QED
    BY <1>2, <1>4, <1>5, <2>1 DEF Sections!DecodedInv
<1> QED
  BY <1>6, <1>7, <1>8, <1>9, <1>10

LEMMA HandleKeeps ==
  ASSUME Sections!IInv, Sections!HandleEvent
  PROVE  Sections!IInv'
<1> USE SettingsConstants DEF Sections!IInv, Sections!TypeOK, Sections!HandleEvent
<1>1. Sections!TypeOK'
  OBVIOUS
<1>2. Sections!SectionInv' /\ Sections!ReadInv'
  BY DEF Sections!SectionInv, Sections!ReadInv
<1>3. Sections!HeardInv'
  BY DEF Sections!HeardInv, Sections!Contents
<1>4. Sections!DecodedInv'
  BY KeysAreSomething DEF Sections!DecodedInv
<1> QED
  BY <1>1, <1>2, <1>3, <1>4

\* A struct that is decoded by a reload is the one registered for its key.
LEMMA ReloadKeeps ==
  ASSUME Sections!IInv, NEW k \in Key, Sections!ReloadSection(k)
  PROVE  Sections!IInv'
<1> USE SettingsConstants DEF Sections!IInv, Sections!TypeOK, Sections!ReloadSection
<1>1. sections[k] \in Pointer /\ KeyOf[sections[k]] = k
  BY DEF Sections!SectionInv
<1>2. \A p \in Pointer \ {sections[k]} : value'[p] = value[p]
  OBVIOUS
<1>3. /\ value'[sections[k]] \in 0..MaxWrites \cup {None}
      /\ k \notin loaded.bad \cup loaded.gone => value'[sections[k]] = loaded.version
  <2>1. PICK old \in 0..MaxWrites \cup {None} : old = value[sections[k]]
    BY <1>1
  <2>2. value'[sections[k]] = Sections!Decoded(old, k, loaded)
    BY <1>1, <2>1
  <2> QED
    BY <2>2, DecodedType
<1>4. value' \in [Pointer -> 0..MaxWrites \cup {None}]
  BY <1>1, <1>2, <1>3
<1>5. Sections!ReadInv'
  BY <1>1, <1>2 DEF Sections!ReadInv
<1>6. CASE k \in loaded.bad
  <2>1. reload' = None /\ outcome' = "cut"
    BY <1>6
  <2>2. UNCHANGED <<file, loaded, watcher, events, sections, read, crashed, raced>>
    OBVIOUS
  <2>3. Sections!TypeOK'
    <3>1. crashed' \in BOOLEAN /\ read' = read
      BY <2>2
    <3> QED
      BY <1>4, <2>1, <2>2, <3>1
  <2> QED
    BY <1>5, <2>1, <2>2, <2>3
       DEF Sections!SectionInv, Sections!HeardInv, Sections!DecodedInv
<1>7. CASE k \notin loaded.bad
  <2>1. reload' = reload \ {k} /\ reload' # None
    <3>1. reload' = reload \ {k} /\ reload' \in SUBSET Key
      BY <1>7
    <3> QED
      BY <3>1, KeysAreSomething
  <2>2. Sections!TypeOK'
    BY <1>4, <1>7
  <2>3. Sections!SectionInv' /\ Sections!HeardInv'
    BY <1>7, <2>1 DEF Sections!SectionInv, Sections!HeardInv
  <2>4. Sections!DecodedInv'
    BY <1>1, <1>2, <1>3, <1>7, <2>1 DEF Sections!DecodedInv, Sections!SectionInv
  <2> QED
    BY <1>5, <2>2, <2>3, <2>4
<1> QED
  BY <1>6, <1>7

LEMMA ReloadReturnKeeps ==
  ASSUME Sections!IInv, Sections!ReloadReturns
  PROVE  Sections!IInv'
<1> USE DEF Sections!IInv, Sections!TypeOK, Sections!ReloadReturns
<1>1. reload # None
  BY KeysAreSomething
<1>2. Sections!TypeOK' /\ Sections!SectionInv' /\ Sections!ReadInv'
  <2>1. Sections!TypeOK'
    OBVIOUS
  <2>2. Sections!SectionInv' /\ Sections!ReadInv'
    BY DEF Sections!SectionInv, Sections!ReadInv
  <2> QED
    BY <2>1, <2>2
<1>3. Sections!HeardInv'
  BY DEF Sections!HeardInv
<1>4. Sections!DecodedInv'
  BY <1>1 DEF Sections!DecodedInv
<1> QED
  BY <1>2, <1>3, <1>4

\* A write is heard of later.
LEMMA WriteKeeps ==
  ASSUME Sections!IInv, Sections!WriteFile
  PROVE  Sections!IInv'
<1> USE SettingsConstants DEF Sections!IInv, Sections!TypeOK, Sections!WriteFile
<1>1. file.version \in Nat /\ file'.version = file.version + 1
  BY DEF Sections!Contents
<1>2. Sections!TypeOK'
  BY <1>1 DEF Sections!HeardInv, Sections!Contents
<1>3. Sections!HeardInv'
  BY <1>1 DEF Sections!HeardInv
<1> QED
  BY <1>2, <1>3 DEF Sections!SectionInv, Sections!ReadInv, Sections!DecodedInv

LEMMA SettingsInductive ==
  Sections!IInv /\ [Sections!Next]_(Sections!vars) => Sections!IInv'
<1> SUFFICES ASSUME Sections!IInv, [Sections!Next]_(Sections!vars) PROVE Sections!IInv'
  OBVIOUS
<1>1. ASSUME NEW p \in Pointer, Sections!MapRace(p) PROVE Sections!IInv'
  BY <1>1
     DEF Sections!MapRace, Sections!IInv, Sections!TypeOK, Sections!SectionInv,
         Sections!ReadInv, Sections!HeardInv, Sections!DecodedInv
<1>2. CASE Sections!WatchConfig \/ Sections!OnConfigChange
  BY <1>2, WatchKeeps DEF Sections!WatchConfig, Sections!OnConfigChange
<1>3. CASE UNCHANGED Sections!vars
  BY <1>3, WatchKeeps DEF Sections!vars, Sections!IInv, Sections!TypeOK
<1> QED
  BY <1>1, <1>2, <1>3, BeginReadKeeps, DecodeKeeps, RegisterKeeps, HandleKeeps, ReloadKeeps,
     ReloadReturnKeeps, WriteKeeps
     DEF Sections!Next

LEMMA SettingsSafety == PartsSpec => []Sections!IInv
<1>1. PartsInit => Sections!Init
  BY DEF PartsInit
<1>2. [PartsNext]_partVars => [Sections!Next]_(Sections!vars)
  BY DEF PartsNext, partVars, settings, Sections!vars
<1> QED
  BY <1>1, <1>2, SettingsInit, SettingsInductive, PTL DEF PartsSpec

(* Once viper has noticed every write and the latest reload went through,  *)
(* a registered section that the file has, and that no call raced since    *)
(* the reload began, was decoded from the file as it is, however reloads,  *)
(* writes and calls of ReadSection interleave.                             *)
THEOREM PartsQuietSections == PartsSpec => []QuietSectionsAreFresh
<1>1. Sections!IInv => QuietSectionsAreFresh
  BY DEF Sections!IInv, Sections!HeardInv, Sections!DecodedInv, QuietSectionsAreFresh,
         Sections!QuietSectionsAreFresh
<1> QED
  BY <1>1, SettingsSafety, PTL

--------------------------------------------------------------------------
(* Sequences of bounded length, and what a slice of an array holds         *)

LEMMA BoundedSeq ==
  ASSUME NEW S, NEW m \in Nat, NEW s
  PROVE  s \in UNION {[1..n -> S] : n \in 0..m} <=> s \in Seq(S) /\ Len(s) <= m
<1>1. ASSUME s \in UNION {[1..n -> S] : n \in 0..m} PROVE s \in Seq(S) /\ Len(s) <= m
  <2>1. PICK n \in 0..m : s \in [1..n -> S]
    BY <1>1
  <2> QED
    BY <2>1
<1>2. ASSUME s \in Seq(S), Len(s) <= m PROVE s \in UNION {[1..n -> S] : n \in 0..m}
  <2>1. s \in [1..Len(s) -> S] /\ Len(s) \in 0..m
    BY <1>2, LenProperties
  <2> QED
    BY <2>1
<1> QED
  BY <1>1, <1>2

\* The first n elements.
LEMMA Prefix ==
  ASSUME NEW S, NEW s, NEW n \in Nat, \A i \in 1..n : s[i] \in S
  PROVE  /\ SubSeq(s, 1, n) \in Seq(S) /\ Len(SubSeq(s, 1, n)) = n
         /\ \A i \in 1..n : SubSeq(s, 1, n)[i] = s[i]
<1>1. /\ SubSeq(s, 1, n) \in Seq(S)
      /\ Len(SubSeq(s, 1, n)) = IF 1 <= n THEN n - 1 + 1 ELSE 0
      /\ \A i \in 1..(n - 1 + 1) : SubSeq(s, 1, n)[i] = s[1 + i - 1]
  BY SubSeqProperties
<1> QED
  BY <1>1

LEMMA SamePrefix ==
  ASSUME NEW S, NEW s, NEW t, NEW n \in Nat,
         \A i \in 1..n : s[i] \in S /\ t[i] = s[i]
  PROVE  SubSeq(t, 1, n) = SubSeq(s, 1, n)
<1>1. /\ SubSeq(s, 1, n) \in Seq(S) /\ Len(SubSeq(s, 1, n)) = n
      /\ \A i \in 1..n : SubSeq(s, 1, n)[i] = s[i]
  BY Prefix
<1>2. /\ SubSeq(t, 1, n) \in Seq(S) /\ Len(SubSeq(t, 1, n)) = n
      /\ \A i \in 1..n : SubSeq(t, 1, n)[i] = t[i]
  BY Prefix
<1> QED
  BY <1>1, <1>2, SeqEqual

\* The first elements of an array, with one more after them.
LEMMA PrefixThen ==
  ASSUME NEW S, NEW s, NEW t, NEW e \in S, NEW n \in Nat,
         \A i \in 1..n : s[i] \in S /\ t[i] = s[i], t[n + 1] = e
  PROVE  SubSeq(t, 1, n + 1) = Append(SubSeq(s, 1, n), e)
<1>1. /\ SubSeq(s, 1, n) \in Seq(S) /\ Len(SubSeq(s, 1, n)) = n
      /\ \A i \in 1..n : SubSeq(s, 1, n)[i] = s[i]
  BY Prefix
<1>2. /\ Append(SubSeq(s, 1, n), e) \in Seq(S)
      /\ Len(Append(SubSeq(s, 1, n), e)) = n + 1
      /\ \A i \in 1..n : Append(SubSeq(s, 1, n), e)[i] = s[i]
      /\ Append(SubSeq(s, 1, n), e)[n + 1] = e
  BY <1>1, AppendProperties
<1>3. \A i \in 1..(n + 1) : i \in 1..n \/ i = n + 1
  OBVIOUS
<1>4. /\ SubSeq(t, 1, n + 1) \in Seq(S) /\ Len(SubSeq(t, 1, n + 1)) = n + 1
      /\ \A i \in 1..(n + 1) : SubSeq(t, 1, n + 1)[i] = t[i]
  BY <1>3, Prefix
<1> QED
  BY <1>2, <1>3, <1>4, SeqEqual

--------------------------------------------------------------------------
(* The Sentry core                                                         *)

LEMMA CoreConstants ==
  /\ Root \in Core /\ None \notin Core \cup Writer /\ Core \cap Writer = {}
  /\ RootCap \in Nat /\ MaxCap \in Nat /\ RootCap <= MaxCap
BY PartsAssumption DEF Sentry!CoreAssumption

\* What the types say of an array, a core and a Write.
LEMMA SentryTypes ==
  ASSUME Sentry!TypeOK
  PROVE  /\ \A a \in Sentry!Field : /\ heap[a] \in Seq(Sentry!Field \cup {None})
                                    /\ Len(heap[a]) \in 0..MaxCap
         /\ \A c \in Core : /\ core[c].arr \in Core \cup {None}
                            /\ core[c].len \in 0..MaxCap /\ core[c].cap \in 0..MaxCap
                            /\ core[c].inherits \in Seq(Sentry!Field)
         /\ \A w \in Writer : /\ write[w].core \in Core /\ write[w].arr \in Sentry!Field
                              /\ write[w].len \in 0..MaxCap
BY CoreConstants, BoundedSeq DEF Sentry!TypeOK, Sentry!Array, Sentry!Fields

\* The operators of FiniteSets are those SentryCore knows.
LEMMA SentryFiniteSets ==
  /\ \A S : Sentry!IsFiniteSet(S) <=> IsFiniteSet(S)
  /\ \A S : Sentry!Cardinality(S) = Cardinality(S)
<1>1. \A S : Sentry!IsFiniteSet(S) <=> IsFiniteSet(S)
  BY DEF Sentry!IsFiniteSet, IsFiniteSet
<1>2. \A S : Sentry!Cardinality(S) = Cardinality(S)
  BY DEF Sentry!Cardinality, Cardinality
<1> QED
  BY <1>1, <1>2

LEMMA SentryInit == Sentry!Init => Sentry!IInv
<1> SUFFICES ASSUME Sentry!Init PROVE Sentry!IInv
  OBVIOUS
<1> USE CoreConstants DEF Sentry!Init
<1>1. \A S : <<>> \in UNION {[1..n -> S] : n \in 0..MaxCap}
  BY BoundedSeq
<1>2. [i \in 1..RootCap |-> None] \in Sentry!Array
  <2>1. [i \in 1..RootCap |-> None] \in [1..RootCap -> Sentry!Field \cup {None}]
    OBVIOUS
  <2> QED
    BY <2>1 DEF Sentry!Array
<1>3. Sentry!TypeOK
  <2>1. heap \in [Sentry!Field -> Sentry!Array]
    BY <1>1, <1>2 DEF Sentry!Array
  <2>2. core \in [Core -> [arr : Core \cup {None}, len : 0..MaxCap, cap : 0..MaxCap,
                         inherits : Sentry!Fields]]
    <3>1. <<>> \in Sentry!Fields
      BY <1>1 DEF Sentry!Fields
    <3>2. Sentry!NoCore \in [arr : Core \cup {None}, len : 0..MaxCap, cap : 0..MaxCap,
                            inherits : Sentry!Fields]
      BY <3>1 DEF Sentry!NoCore
    <3>3. [arr |-> Root, len |-> 0, cap |-> RootCap, inherits |-> <<>>]
            \in [arr : Core \cup {None}, len : 0..MaxCap, cap : 0..MaxCap,
                inherits : Sentry!Fields]
      BY <3>1
    <3> QED
      BY <3>2, <3>3
  <2>3. write \in [Writer -> [pc : {"idle", "collect", "set", "capture", "pop"}, core : Core,
                            arr : Sentry!Field, len : 0..MaxCap, fields : Sentry!Fields]]
    <3>1. <<>> \in Sentry!Fields
      BY <1>1 DEF Sentry!Fields
    <3> SUFFICES ASSUME NEW w \in Writer
                 PROVE  Sentry!Idle(w) \in
                          [pc : {"idle", "collect", "set", "capture", "pop"}, core : Core,
                           arr : Sentry!Field, len : 0..MaxCap, fields : Sentry!Fields]
      OBVIOUS
    <3>2. w \in Sentry!Field
      BY DEF Sentry!Field
    <3> QED
      BY <3>1, <3>2 DEF Sentry!Idle
  <2>4. sent \in [Writer -> Sentry!Fields]
    BY <1>1 DEF Sentry!Fields
  <2> QED
    BY <2>1, <2>2, <2>3, <2>4 DEF Sentry!TypeOK
<1>4. \A c \in Core : Sentry!Made(c) <=> c = Root
  BY DEF Sentry!Made, Sentry!NoCore
<1>5. core[Root] = [arr |-> Root, len |-> 0, cap |-> RootCap, inherits |-> <<>>]
  OBVIOUS
<1>6. Len(heap[Root]) = RootCap
  BY DEF Sentry!Field
<1>7. Sentry!CoreInv
  BY <1>4, <1>5, <1>6 DEF Sentry!CoreInv, Sentry!NoCore
<1>8. Sentry!InheritedFieldsKept
  BY <1>4, <1>5, SubSeqEmpty DEF Sentry!InheritedFieldsKept, Sentry!Elements
<1>9. \A w \in Writer : write[w].pc = "idle"
  BY DEF Sentry!Idle
<1>10. Sentry!ScopeInv
  <2>1. Sentry!Pushed = {}
    BY <1>9 DEF Sentry!Pushed
  <2> QED
    BY <2>1, SentryFiniteSets, FS_EmptySet DEF Sentry!ScopeInv
<1> QED
  BY <1>3, <1>7, <1>8, <1>9, <1>10 DEF Sentry!IInv, Sentry!WriteInv, Sentry!AloneInv

\* The slice of a core is in the array of a core, and has what was inherited.
LEMMA CoreSlice ==
  ASSUME Sentry!IInv, NEW c \in Core, Sentry!Made(c)
  PROVE  /\ core[c].arr \in Core /\ core[c].arr \in Sentry!Field /\ Sentry!Made(core[c].arr)
         /\ core[c].len \in Nat /\ core[c].len <= Len(heap[core[c].arr])
         /\ core[c].inherits \in Seq(Sentry!Field) /\ Len(core[c].inherits) = core[c].len
         /\ SubSeq(heap[core[c].arr], 1, core[c].len) = core[c].inherits
         /\ \A i \in 1..core[c].len : heap[core[c].arr][i] \in Sentry!Field
<1>1. PICK a, n : a = core[c].arr /\ n = core[c].len
  OBVIOUS
<1>2. a \in Core /\ a \in Sentry!Field /\ n \in 0..MaxCap
  BY <1>1, SentryTypes DEF Sentry!IInv, Sentry!Made, Sentry!Field
<1>3. Sentry!Made(a) /\ n <= Len(heap[a])
  BY <1>1 DEF Sentry!IInv, Sentry!CoreInv
<1>4. SubSeq(heap[a], 1, n) = core[c].inherits
  BY <1>1 DEF Sentry!IInv, Sentry!InheritedFieldsKept, Sentry!Elements
<1>5. /\ n \in Nat /\ heap[a] \in Seq(Sentry!Field \cup {None})
      /\ core[c].inherits \in Seq(Sentry!Field)
  BY <1>2, CoreConstants, SentryTypes DEF Sentry!IInv
<1>6. \A i \in 1..n : heap[a][i] \in Sentry!Field \cup {None}
  BY <1>3, <1>5
<1>7. /\ Len(core[c].inherits) = n
      /\ \A i \in 1..n : core[c].inherits[i] = heap[a][i]
  BY <1>4, <1>5, <1>6, Prefix
<1>8. \A i \in 1..n : heap[a][i] \in Sentry!Field
  BY <1>5, <1>7
<1> QED
  BY <1>1, <1>2, <1>3, <1>4, <1>5, <1>7, <1>8

\* It still has it while nobody writes to its part of the array.
LEMMA SliceKept ==
  ASSUME Sentry!IInv, NEW c \in Core, Sentry!Made(c), core'[c] = core[c],
         \A i \in 1..core[c].len : heap'[core[c].arr][i] = heap[core[c].arr][i]
  PROVE  SubSeq(heap'[core[c].arr], 1, core[c].len) = core[c].inherits
<1>1. /\ core[c].len \in Nat /\ SubSeq(heap[core[c].arr], 1, core[c].len) = core[c].inherits
      /\ \A i \in 1..core[c].len : heap[core[c].arr][i] \in Sentry!Field
  BY CoreSlice
<1>2. PICK s, t, n : s = heap[core[c].arr] /\ t = heap'[core[c].arr] /\ n = core[c].len
  OBVIOUS
<1>3. \A i \in 1..n : s[i] \in Sentry!Field /\ t[i] = s[i]
  BY <1>1, <1>2
<1>4. n \in Nat
  BY <1>1, <1>2
<1>5. SubSeq(t, 1, n) = SubSeq(s, 1, n)
  BY <1>3, <1>4, SamePrefix
<1> QED
  BY <1>1, <1>2, <1>5

--------------------------------------------------------------------------
(* A core is made                                                          *)

\* No Write meets the core d that is made: only the cores and the array of d
\* change.
LEMMA WritesMissCore ==
  ASSUME Sentry!IInv, NEW d \in Core, ~Sentry!Made(d),
         \A e \in Core : e # d => core'[e] = core[e],
         \A a \in Sentry!Field : a # d => heap'[a] = heap[a],
         UNCHANGED <<write, scopes, sent, overlaps>>
  PROVE  Sentry!WriteInv' /\ Sentry!ScopeInv' /\ Sentry!AloneInv'
<1>1. ASSUME NEW w \in Writer, write[w].pc # "idle"
      PROVE  /\ core'[write[w].core] = core[write[w].core]
             /\ heap'[write[w].arr] = heap[write[w].arr]
             /\ write[w].arr \in Core => core'[write[w].arr] = core[write[w].arr]
             /\ write[w].core \in Core
  <2>1. write[w].core \in Core /\ write[w].arr \in Sentry!Field
    BY SentryTypes DEF Sentry!IInv
  <2>2. write[w].core # d /\ write[w].arr # d
    BY <1>1, CoreConstants DEF Sentry!IInv, Sentry!WriteInv
  <2> QED
    BY <2>1, <2>2
<1>2. Sentry!WriteInv'
  BY <1>1 DEF Sentry!IInv, Sentry!WriteInv, Sentry!Made
<1>3. Sentry!ScopeInv'
  BY DEF Sentry!IInv, Sentry!ScopeInv, Sentry!Pushed
<1>4. Sentry!AloneInv'
  <2>1. ASSUME NEW w \in Writer, write[w].pc # "idle", ~overlaps[w]
        PROVE  LET own == Append(core'[write[w].core].inherits, w)
               IN  /\ \A v \in Writer \ {w} : write[v].pc = "idle"
                   /\ write[w].pc = "collect" =>
                        SubSeq(heap'[write[w].arr], 1, write[w].len) = own
                   /\ write[w].pc = "set" => write[w].fields = own /\ scopes[1].of = w
                   /\ write[w].pc = "capture" => scopes[1].fields = own
                   /\ write[w].pc = "pop" => sent[w] = own
    <3>1. /\ core'[write[w].core] = core[write[w].core]
          /\ heap'[write[w].arr] = heap[write[w].arr]
      BY <1>1, <2>1
    <3>2. Sentry!AloneInv
      BY DEF Sentry!IInv
    <3> QED
      BY <2>1, <3>1, <3>2 DEF Sentry!AloneInv, Sentry!Elements
  <2> QED
    BY <2>1 DEF Sentry!AloneInv, Sentry!Elements
<1> QED
  BY <1>2, <1>3, <1>4

LEMMA WithKeeps ==
  ASSUME Sentry!IInv, NEW c \in Core, NEW d \in Core, Sentry!With(c, d)
  PROVE  Sentry!IInv'
<1>1. PICK n, a : n = core[c].len /\ a = core[c].arr
  OBVIOUS
<1>2. /\ Sentry!Made(c) /\ ~Sentry!Made(d) /\ n < MaxCap
      /\ UNCHANGED <<write, scopes, sent, overlaps>>
  BY <1>1 DEF Sentry!With
<1>3. /\ n \in Nat /\ core[c].inherits \in Seq(Sentry!Field) /\ Len(core[c].inherits) = n
      /\ SubSeq(heap[a], 1, n) = core[c].inherits
      /\ \A i \in 1..n : heap[a][i] \in Sentry!Field
  BY <1>1, <1>2, CoreSlice
<1>4. PICK cap \in (n + 1)..MaxCap :
        heap' = [heap EXCEPT ![d] = [i \in 1..cap |-> IF i <= n THEN heap[a][i]
                                                    ELSE IF i = n + 1 THEN d ELSE None]]
  BY <1>1 DEF Sentry!With, Sentry!Grown
<1>5. PICK new : new = [i \in 1..cap |-> IF i <= n THEN heap[a][i]
                                       ELSE IF i = n + 1 THEN d ELSE None]
  OBVIOUS
<1>6. /\ cap \in Nat /\ cap \in 0..MaxCap /\ n + 1 <= cap /\ n + 1 \in 0..MaxCap
      /\ d \in Sentry!Field
  BY <1>3, CoreConstants DEF Sentry!Field
<1>7. new \in [1..cap -> Sentry!Field \cup {None}] /\ Len(new) = cap
  BY <1>3, <1>5, <1>6
<1>8. new \in Sentry!Array
  BY <1>6, <1>7 DEF Sentry!Array
<1>9. /\ \A x \in Sentry!Field : heap'[x] = IF x = d THEN new ELSE heap[x]
      /\ heap' \in [Sentry!Field -> Sentry!Array]
  BY <1>4, <1>5, <1>6, <1>8 DEF Sentry!IInv, Sentry!TypeOK
<1>10. PICK inh : inh = Append(core[c].inherits, d)
  OBVIOUS
<1>11. inh \in Sentry!Fields
  <2>1. inh \in Seq(Sentry!Field) /\ Len(inh) = n + 1
    BY <1>3, <1>6, <1>10, AppendProperties
  <2> QED
    BY <1>6, <2>1, CoreConstants, BoundedSeq DEF Sentry!Fields
<1>12. SubSeq(new, 1, n + 1) = inh
  <2>1. /\ \A i \in 1..n : heap[a][i] \in Sentry!Field /\ new[i] = heap[a][i]
        /\ new[n + 1] = d
    BY <1>3, <1>5, <1>6
  <2>2. SubSeq(new, 1, n + 1) = Append(SubSeq(heap[a], 1, n), d)
    BY <1>3, <1>6, <2>1, PrefixThen
  <2> QED
    BY <1>3, <1>10, <2>2
<1>13. core' = [core EXCEPT ![d] = [arr |-> d, len |-> n + 1, cap |-> cap, inherits |-> inh]]
  BY <1>1, <1>6, <1>7, <1>9, <1>10 DEF Sentry!With
<1>14. /\ \A e \in Core : e # d => core'[e] = core[e]
       /\ core'[d] = [arr |-> d, len |-> n + 1, cap |-> cap, inherits |-> inh]
       /\ core' \in [Core -> [arr : Core \cup {None}, len : 0..MaxCap, cap : 0..MaxCap,
                            inherits : Sentry!Fields]]
  BY <1>6, <1>11, <1>13 DEF Sentry!IInv, Sentry!TypeOK
<1>15. Sentry!TypeOK'
  BY <1>2, <1>9, <1>14 DEF Sentry!IInv, Sentry!TypeOK
<1>16. ASSUME NEW e \in Core, Sentry!Made(e)
       PROVE  /\ core'[e] = core[e] /\ core[e].arr \in Core /\ core[e].arr # d
              /\ heap'[core[e].arr] = heap[core[e].arr]
              /\ core'[core[e].arr] = core[core[e].arr]
  <2>1. core[e].arr \in Core /\ core[e].arr \in Sentry!Field /\ core[e].arr # d /\ e # d
    BY <1>2, <1>16, CoreSlice
  <2> QED
    BY <1>9, <1>14, <2>1
<1>17. \A e \in Core : Sentry!Made(e)' <=> Sentry!Made(e) \/ e = d
  BY <1>14, CoreConstants DEF Sentry!Made
<1>18. Sentry!CoreInv'
  <2>1. ASSUME NEW e \in Core, Sentry!Made(e)
        PROVE  /\ core'[core[e].arr].arr # None
               /\ core[e].len <= Len(heap'[core[e].arr])
               /\ core[e].cap <= Len(heap'[core[e].arr])
               /\ \A f \in Core : core'[f].arr = core[e].arr => core'[f].len = core[e].len
    <3>1. /\ core[core[e].arr].arr # None /\ core[e].arr \in Core
          /\ core[e].len <= Len(heap[core[e].arr]) /\ core[e].cap <= Len(heap[core[e].arr])
          /\ \A f \in Core : core[f].arr = core[e].arr => core[f].len = core[e].len
      BY <1>16, <2>1 DEF Sentry!IInv, Sentry!CoreInv, Sentry!Made
    <3>2. /\ heap'[core[e].arr] = heap[core[e].arr] /\ core[e].arr # d
          /\ core'[core[e].arr] = core[core[e].arr] /\ core'[d].arr = d
      BY <1>14, <1>16, <2>1
    <3>3. \A f \in Core : core'[f].arr = core[e].arr => core'[f].len = core[e].len
      BY <1>14, <3>1, <3>2
    <3> QED
      BY <3>1, <3>2, <3>3
  <2>2. /\ heap'[d] = new /\ n + 1 <= Len(new) /\ cap <= Len(new)
        /\ \A f \in Core : core'[f].arr = d => f = d
    BY <1>6, <1>7, <1>9, <1>14, <1>16, CoreConstants DEF Sentry!Made
  <2>3. ASSUME NEW e \in Core, core'[e].arr # None
        PROVE  /\ core'[core'[e].arr].arr # None
               /\ core'[e].len <= Len(heap'[core'[e].arr])
               /\ core'[e].cap <= Len(heap'[core'[e].arr])
               /\ \A f \in Core : core'[f].arr = core'[e].arr => core'[f].len = core'[e].len
    <3>1. CASE e = d
      <4>1. /\ core'[e].arr = d /\ core'[e].len = n + 1 /\ core'[e].cap = cap /\ d # None
        BY <1>14, <3>1, CoreConstants
      <4> QED
        BY <2>2, <3>1, <4>1
    <3>2. CASE e # d
      <4>1. core'[e] = core[e] /\ Sentry!Made(e)
        BY <1>14, <2>3, <3>2 DEF Sentry!Made
      <4> QED
        BY <2>1, <4>1
    <3> QED
      BY <3>1, <3>2
  <2> QED
    BY <2>3 DEF Sentry!CoreInv, Sentry!Made
<1>19. Sentry!InheritedFieldsKept'
  <2>1. ASSUME NEW e \in Core, Sentry!Made(e)
        PROVE  SubSeq(heap'[core'[e].arr], 1, core'[e].len) = core'[e].inherits
    BY <1>16, <2>1, SliceKept
  <2>2. SubSeq(heap'[core'[d].arr], 1, core'[d].len) = core'[d].inherits
    BY <1>6, <1>9, <1>12, <1>14
  <2> QED
    BY <1>17, <2>1, <2>2 DEF Sentry!InheritedFieldsKept, Sentry!Elements
<1>20. Sentry!WriteInv' /\ Sentry!ScopeInv' /\ Sentry!AloneInv'
  BY <1>2, <1>9, <1>14, WritesMissCore
<1> QED
  BY <1>15, <1>18, <1>19, <1>20 DEF Sentry!IInv

LEMMA WithNothingKeeps ==
  ASSUME Sentry!IInv, NEW c \in Core, NEW d \in Core, Sentry!WithNothing(c, d)
  PROVE  Sentry!IInv'
<1>1. /\ Sentry!Made(c) /\ ~Sentry!Made(d)
      /\ UNCHANGED <<heap, write, scopes, sent, overlaps>>
  BY DEF Sentry!WithNothing
<1>2. /\ core[c].arr \in Core /\ core[c].len \in 0..MaxCap
      /\ core[c].len <= Len(heap[core[c].arr])
  BY <1>1, CoreSlice, SentryTypes DEF Sentry!IInv
<1>3. /\ \A e \in Core : e # d => core'[e] = core[e]
      /\ core'[d].arr = core[c].arr /\ core'[d].len = core[c].len
      /\ core'[d].cap = core[c].len /\ core'[d].inherits = core[c].inherits
      /\ core' \in [Core -> [arr : Core \cup {None}, len : 0..MaxCap, cap : 0..MaxCap,
                           inherits : Sentry!Fields]]
  <2>1. core \in [Core -> [arr : Core \cup {None}, len : 0..MaxCap, cap : 0..MaxCap,
                         inherits : Sentry!Fields]]
    BY DEF Sentry!IInv, Sentry!TypeOK
  <2>2. PICK new : new = [core[c] EXCEPT !.cap = core[c].len]
    OBVIOUS
  <2>3. /\ new \in [arr : Core \cup {None}, len : 0..MaxCap, cap : 0..MaxCap,
                   inherits : Sentry!Fields]
        /\ new.arr = core[c].arr /\ new.len = core[c].len
        /\ new.cap = core[c].len /\ new.inherits = core[c].inherits
    BY <1>2, <2>1, <2>2
  <2>4. core' = [core EXCEPT ![d] = new]
    BY <2>2 DEF Sentry!WithNothing
  <2> QED
    BY <2>1, <2>3, <2>4
<1>4. Sentry!TypeOK'
  BY <1>1, <1>3 DEF Sentry!IInv, Sentry!TypeOK
<1>5. \A e \in Core : Sentry!Made(e)' <=> Sentry!Made(e) \/ e = d
  BY <1>1, <1>3 DEF Sentry!Made
<1>6. \A e \in Core : Sentry!Made(e)' =>
        \E f \in Core : /\ Sentry!Made(f) /\ core'[e].arr = core[f].arr
                       /\ core'[e].len = core[f].len /\ core'[e].cap \in {core[f].cap, core[f].len}
                       /\ core'[e].inherits = core[f].inherits
  BY <1>1, <1>3, <1>5
<1>7. Sentry!CoreInv'
  <2>1. \A f \in Core : core[f].arr # None =>
          /\ core[f].arr \in Core /\ core[core[f].arr].arr # None
          /\ core[f].len <= Len(heap[core[f].arr]) /\ core[f].cap <= Len(heap[core[f].arr])
          /\ \A e \in Core : core[e].arr = core[f].arr => core[e].len = core[f].len
    BY CoreSlice DEF Sentry!IInv, Sentry!CoreInv, Sentry!Made
  <2>2. ASSUME NEW e \in Core, core'[e].arr # None
        PROVE  /\ core'[core'[e].arr].arr # None
               /\ core'[e].len <= Len(heap'[core'[e].arr])
               /\ core'[e].cap <= Len(heap'[core'[e].arr])
               /\ \A f \in Core : core'[f].arr = core'[e].arr => core'[f].len = core'[e].len
    <3>1. PICK g \in Core :
            /\ core[g].arr # None /\ core'[e].arr = core[g].arr /\ core'[e].len = core[g].len
            /\ core'[e].cap \in {core[g].cap, core[g].len}
      BY <1>6, <2>2 DEF Sentry!Made
    <3>2. PICK a \in Core : a = core[g].arr
      BY <2>1, <3>1
    <3>3. /\ core[a].arr # None /\ core[g].len <= Len(heap[a]) /\ core[g].cap <= Len(heap[a])
          /\ \A h \in Core : core[h].arr = a => core[h].len = core[g].len
      BY <2>1, <3>1, <3>2
    <3>4. ASSUME NEW f \in Core, core'[f].arr = a PROVE core'[f].len = core[g].len
      <4>1. core'[f].arr # None
        BY <3>2, <3>4, CoreConstants
      <4>2. PICK h \in Core : core'[f].arr = core[h].arr /\ core'[f].len = core[h].len
        BY <1>6, <4>1 DEF Sentry!Made
      <4> QED
        BY <3>3, <3>4, <4>2
    <3>5. core'[a].arr # None
      BY <1>1, <1>3, <3>3 DEF Sentry!Made
    <3> QED
      BY <1>1, <3>1, <3>2, <3>3, <3>4, <3>5
  <2> QED
    BY <2>2 DEF Sentry!CoreInv, Sentry!Made
<1>8. Sentry!InheritedFieldsKept'
  BY <1>1, <1>6 DEF Sentry!IInv, Sentry!InheritedFieldsKept, Sentry!Elements
<1>9. Sentry!WriteInv' /\ Sentry!ScopeInv' /\ Sentry!AloneInv'
  BY <1>1, <1>3, WritesMissCore
<1> QED
  BY <1>4, <1>7, <1>8, <1>9 DEF Sentry!IInv

--------------------------------------------------------------------------
(* A Write                                                                 *)

\* While the Write of w is the only one, at most its scope is on the stack.
LEMMA AloneScope ==
  ASSUME Sentry!IInv, NEW w \in Writer, \A v \in Writer \ {w} : write[v].pc = "idle"
  PROVE  Len(scopes) = IF write[w].pc \in {"set", "capture", "pop"} THEN 1 ELSE 0
<1>1. CASE write[w].pc \in {"set", "capture", "pop"}
  <2>1. Sentry!Pushed = {w}
    BY <1>1 DEF Sentry!Pushed
  <2> QED
    BY <1>1, <2>1, SentryFiniteSets, FS_Singleton DEF Sentry!IInv, Sentry!ScopeInv
<1>2. CASE write[w].pc \notin {"set", "capture", "pop"}
  <2>1. Sentry!Pushed = {}
    BY <1>2 DEF Sentry!Pushed
  <2> QED
    BY <1>2, <2>1, SentryFiniteSets, FS_EmptySet DEF Sentry!IInv, Sentry!ScopeInv
<1> QED
  BY <1>1, <1>2

LEMMA SentryScopes ==
  ASSUME Sentry!IInv
  PROVE  /\ scopes \in Seq([of : Writer \cup {None}, fields : Sentry!Fields])
         /\ Sentry!TopContext \in Sentry!Fields
<1>1. scopes \in Seq([of : Writer \cup {None}, fields : Sentry!Fields])
  BY DEF Sentry!IInv, Sentry!TypeOK
<1>2. <<>> \in Sentry!Fields
  <2>1. <<>> \in Seq(Sentry!Field) /\ Len(<<>>) <= MaxCap
    BY CoreConstants, EmptySeq
  <2> QED
    BY <2>1, BoundedSeq, CoreConstants DEF Sentry!Fields
<1>3. ASSUME scopes # <<>>
      PROVE  scopes[Len(scopes)] \in [of : Writer \cup {None}, fields : Sentry!Fields]
  <2>1. Len(scopes) \in Nat \ {0}
    BY <1>1, <1>3, EmptySeq
  <2>2. Len(scopes) \in 1..Len(scopes)
    BY <2>1
  <2>3. scopes \in [1..Len(scopes) -> [of : Writer \cup {None}, fields : Sentry!Fields]]
    BY <1>1, LenProperties
  <2> QED
    BY <2>2, <2>3
<1> QED
  BY <1>1, <1>2, <1>3 DEF Sentry!TopContext

\* A step of w leaves the invariants of cores alone, and those of the others'
\* Writes, as long as the arrays they lie in keep what they have.
LEMMA OthersKeep ==
  ASSUME Sentry!IInv, NEW w \in Writer, UNCHANGED <<heap, core>>,
         \A v \in Writer \ {w} : write'[v] = write[v] /\ overlaps'[v] = overlaps[v],
         write[w].pc # "idle",
         write'[w].core = write[w].core /\ write'[w].arr = write[w].arr,
         write'[w].pc # "collect"
  PROVE  /\ Sentry!CoreInv' /\ Sentry!InheritedFieldsKept' /\ Sentry!WriteInv'
         /\ \A v \in Writer : v # w /\ write'[v].pc # "idle" => overlaps'[v]
<1>1. Sentry!CoreInv'
  BY DEF Sentry!IInv, Sentry!CoreInv, Sentry!Made
<1>2. Sentry!InheritedFieldsKept'
  BY DEF Sentry!IInv, Sentry!InheritedFieldsKept, Sentry!Elements, Sentry!Made
<1>3. Sentry!WriteInv'
  BY DEF Sentry!IInv, Sentry!WriteInv, Sentry!Made
<1>4. \A v \in Writer : v # w /\ write'[v].pc # "idle" => overlaps'[v]
  BY DEF Sentry!IInv, Sentry!AloneInv
<1> QED
  BY <1>1, <1>2, <1>3, <1>4

\* The array a Write is in: heap changes there at the index after the slice,
\* or in the Write's own array.
LEMMA AppendKeeps ==
  ASSUME Sentry!IInv, NEW w \in Writer, NEW c \in Core, Sentry!AppendFields(w, c)
  PROVE  Sentry!IInv'
<1>1. PICK n, a : n = core[c].len /\ a = core[c].arr
  OBVIOUS
<1>2. /\ write[w].pc = "idle" /\ Sentry!Made(c) /\ n < MaxCap /\ UNCHANGED <<core, scopes, sent>>
      /\ w \in Sentry!Field
  BY <1>1 DEF Sentry!AppendFields, Sentry!Field
<1>3. /\ a \in Core /\ a \in Sentry!Field /\ Sentry!Made(a)
      /\ n \in Nat /\ n <= Len(heap[a])
      /\ core[c].inherits \in Seq(Sentry!Field) /\ Len(core[c].inherits) = n
      /\ SubSeq(heap[a], 1, n) = core[c].inherits
      /\ \A i \in 1..n : heap[a][i] \in Sentry!Field
  BY <1>1, <1>2, CoreSlice
<1>4. PICK own : own = Append(core[c].inherits, w)
  OBVIOUS
<1>5. /\ own \in Seq(Sentry!Field) /\ Len(own) = n + 1 /\ own[n + 1] = w
      /\ \A i \in 1..n : own[i] \in Sentry!Field
  <2>1. own \in Seq(Sentry!Field) /\ Len(own) = n + 1 /\ own[n + 1] = w
    BY <1>2, <1>3, <1>4, AppendProperties
  <2> QED
    BY <1>3, <2>1
<1>6. n + 1 \in 0..MaxCap /\ own \in Sentry!Array
  <2>1. n + 1 \in 0..MaxCap
    BY <1>2, <1>3, CoreConstants
  <2>2. own \in Seq(Sentry!Field \cup {None}) /\ Len(own) <= MaxCap
    BY <1>5, <2>1
  <2> QED
    BY <2>1, <2>2, CoreConstants, BoundedSeq DEF Sentry!Array
<1>7. PICK b : b = IF n < core[c].cap THEN a ELSE w
  OBVIOUS
<1>8. b \in Sentry!Field /\ (b = a \/ b = w)
  BY <1>2, <1>3, <1>7
\* The array that changes has the fields of the core and of the entry.
<1>9. /\ heap' \in [Sentry!Field -> Sentry!Array]
      /\ \A x \in Sentry!Field : x # b => heap'[x] = heap[x]
      /\ n + 1 <= Len(heap'[b])
      /\ SubSeq(heap'[b], 1, n + 1) = own
      /\ b = a => /\ Len(heap'[a]) = Len(heap[a])
                  /\ \A i \in 1..Len(heap[a]) : i # n + 1 => heap'[a][i] = heap[a][i]
                  /\ heap'[a][n + 1] = w
  <2>1. /\ heap \in [Sentry!Field -> Sentry!Array]
        /\ heap[a] \in Seq(Sentry!Field \cup {None}) /\ Len(heap[a]) \in 0..MaxCap
    BY <1>3, SentryTypes DEF Sentry!IInv, Sentry!TypeOK
  <2>2. CASE n < core[c].cap
    <3>1. PICK new : new = [heap[a] EXCEPT ![n + 1] = w]
      OBVIOUS
    <3>2. n + 1 \in 1..Len(heap[a])
      <4>1. core[c].cap <= Len(heap[a]) /\ core[c].cap \in 0..MaxCap
        BY <1>1, <1>2, SentryTypes DEF Sentry!IInv, Sentry!CoreInv
      <4> QED
        BY <1>3, <2>1, <2>2, <4>1
    <3>3. /\ new \in Seq(Sentry!Field \cup {None}) /\ Len(new) = Len(heap[a])
          /\ \A i \in 1..Len(heap[a]) : new[i] = IF i = n + 1 THEN w ELSE heap[a][i]
      BY <1>2, <2>1, <3>1, <3>2, ExceptSeq
    <3>4. new \in Sentry!Array
      BY <2>1, <3>3, CoreConstants, BoundedSeq DEF Sentry!Array
    <3>5. heap' = [heap EXCEPT ![a] = new]
      BY <1>1, <2>2, <3>1 DEF Sentry!AppendFields, Sentry!InPlace
    <3>6. SubSeq(new, 1, n + 1) = Append(SubSeq(heap[a], 1, n), w)
      <4>1. /\ \A i \in 1..n : heap[a][i] \in Sentry!Field /\ new[i] = heap[a][i]
            /\ new[n + 1] = w
        BY <1>3, <2>1, <3>2, <3>3
      <4>2. w \in Sentry!Field /\ n \in Nat
        BY <1>2, <1>3
      <4>3. PICK s, S : s = heap[a] /\ S = Sentry!Field
        OBVIOUS
      <4>4. SubSeq(new, 1, n + 1) = Append(SubSeq(s, 1, n), w)
        BY <4>1, <4>2, <4>3, PrefixThen
      <4> QED
        BY <4>3, <4>4
    <3>7. b = a
      BY <1>7, <2>2
    <3>8. heap'[a] = new /\ \A x \in Sentry!Field : x # a => heap'[x] = heap[x]
      BY <1>3, <2>1, <3>5
    <3>9. heap' \in [Sentry!Field -> Sentry!Array]
      BY <2>1, <3>4, <3>5
    <3>10. n + 1 <= Len(heap'[b]) /\ SubSeq(heap'[b], 1, n + 1) = own
      <4>1. heap'[b] = new
        BY <3>7, <3>8
      <4>2. n + 1 <= Len(new)
        BY <2>1, <3>2, <3>3
      <4>3. SubSeq(new, 1, n + 1) = own
        BY <1>3, <1>4, <3>6
      <4> QED
        BY <4>1, <4>2, <4>3
    <3> QED
      BY <3>2, <3>3, <3>7, <3>8, <3>9, <3>10
  <2>3. CASE ~(n < core[c].cap)
    <3>1. heap' = [heap EXCEPT ![w] = own]
      BY <1>1, <1>3, <1>4, <2>3 DEF Sentry!AppendFields, Sentry!Elements
    <3>2. b = w /\ b # a
      BY <1>3, <1>7, <2>3, CoreConstants
    <3>3. /\ heap' \in [Sentry!Field -> Sentry!Array] /\ heap'[w] = own
          /\ \A x \in Sentry!Field : x # w => heap'[x] = heap[x]
      BY <1>2, <1>6, <2>1, <3>1
    <3>4. SubSeq(own, 1, n + 1) = own
      BY <1>5, SubSeqFull
    <3> QED
      BY <1>5, <3>2, <3>3, <3>4
  <2> QED
    BY <2>2, <2>3
<1>10. /\ \A v \in Writer : v # w => write'[v] = write[v]
       /\ write'[w] = [pc |-> "collect", core |-> c, len |-> n + 1, arr |-> b, fields |-> <<>>]
       /\ write' \in [Writer -> [pc : {"idle", "collect", "set", "capture", "pop"}, core : Core,
                               arr : Sentry!Field, len : 0..MaxCap, fields : Sentry!Fields]]
  <2>1. write \in [Writer -> [pc : {"idle", "collect", "set", "capture", "pop"}, core : Core,
                            arr : Sentry!Field, len : 0..MaxCap, fields : Sentry!Fields]]
    BY DEF Sentry!IInv, Sentry!TypeOK
  <2>2. PICK new : new = [pc |-> "collect", core |-> c, len |-> n + 1, arr |-> b, fields |-> <<>>]
    OBVIOUS
  <2>3. <<>> \in Sentry!Fields
    <3>1. <<>> \in Seq(Sentry!Field) /\ Len(<<>>) <= MaxCap
      BY CoreConstants, EmptySeq
    <3> QED
      BY <3>1, BoundedSeq, CoreConstants DEF Sentry!Fields
  <2>4. new \in [pc : {"idle", "collect", "set", "capture", "pop"}, core : Core,
                arr : Sentry!Field, len : 0..MaxCap, fields : Sentry!Fields]
    BY <1>6, <1>8, <2>2, <2>3
  <2>5. write' = [write EXCEPT ![w] = new]
    BY <1>1, <1>7, <2>2 DEF Sentry!AppendFields
  <2> QED
    BY <2>1, <2>2, <2>4, <2>5
<1>11. /\ overlaps' \in [Writer -> BOOLEAN]
       /\ \A v \in Writer : v # w /\ write[v].pc # "idle" => overlaps'[v]
       /\ ~overlaps'[w] => \A v \in Writer : write[v].pc = "idle"
  <2>1. PICK busy : busy = {v \in Writer : write[v].pc # "idle"}
    OBVIOUS
  <2>2. overlaps' = [v \in Writer |->
                       IF v = w THEN busy # {} ELSE overlaps[v] \/ v \in busy]
    BY <2>1 DEF Sentry!AppendFields
  <2>3. overlaps' \in [Writer -> BOOLEAN]
    BY <2>2
  <2>4. \A v \in Writer : v # w /\ v \in busy => overlaps'[v]
    BY <2>2
  <2>5. ~overlaps'[w] => busy = {}
    BY <2>2
  <2> QED
    BY <2>1, <2>3, <2>4, <2>5
<1>12. Sentry!TypeOK'
  BY <1>2, <1>9, <1>10, <1>11 DEF Sentry!IInv, Sentry!TypeOK
\* No core has the element after the slice of c in its own.
<1>13. ASSUME NEW e \in Core, Sentry!Made(e)
       PROVE  /\ Len(heap'[core[e].arr]) = Len(heap[core[e].arr])
              /\ \A i \in 1..core[e].len : heap'[core[e].arr][i] = heap[core[e].arr][i]
  <2>1. /\ core[e].arr \in Core /\ core[e].arr \in Sentry!Field
        /\ core[e].len \in Nat /\ core[e].len <= Len(heap[core[e].arr])
        /\ Len(heap[core[e].arr]) \in Nat
    BY <1>13, CoreSlice, SentryTypes, CoreConstants DEF Sentry!IInv
  <2>2. CASE core[e].arr # b
    BY <1>9, <2>1, <2>2
  <2>3. CASE core[e].arr = b
    <3>1. b = a /\ core[e].arr = a
      BY <1>8, <2>1, <2>3, CoreConstants
    <3>2. core[e].len = n
      BY <1>1, <1>2, <3>1 DEF Sentry!IInv, Sentry!CoreInv
    <3>3. /\ Len(heap'[a]) = Len(heap[a])
          /\ \A i \in 1..Len(heap[a]) : i # n + 1 => heap'[a][i] = heap[a][i]
      BY <1>9, <3>1
    <3>4. Len(heap[a]) \in Nat
      BY <2>1, <3>1
    <3>5. \A i \in 1..n : i \in 1..Len(heap[a]) /\ i # n + 1
      BY <1>3, <3>4
    <3> QED
      BY <3>1, <3>2, <3>3, <3>5
  <2> QED
    BY <2>2, <2>3
<1>14. Sentry!CoreInv'
  BY <1>2, <1>13 DEF Sentry!IInv, Sentry!CoreInv, Sentry!Made
<1>15. Sentry!InheritedFieldsKept'
  <2>1. ASSUME NEW e \in Core, Sentry!Made(e)
        PROVE  SubSeq(heap'[core[e].arr], 1, core[e].len) = core[e].inherits
    BY <1>2, <1>13, <2>1, SliceKept
  <2> QED
    BY <1>2, <2>1 DEF Sentry!InheritedFieldsKept, Sentry!Elements, Sentry!Made
<1>16. Sentry!WriteInv'
  <2>1. ASSUME NEW v \in Writer, v # w, write[v].pc # "idle"
        PROVE  /\ core[write[v].core].arr # None
               /\ write[v].arr = v \/ (write[v].arr \in Core /\ core[write[v].arr].arr # None)
               /\ write[v].pc = "collect" =>
                    /\ write[v].len <= Len(heap'[write[v].arr])
                    /\ \A i \in 1..write[v].len : heap'[write[v].arr][i] \in Sentry!Field
    <3>1. /\ core[write[v].core].arr # None
          /\ write[v].arr = v \/ (write[v].arr \in Core /\ core[write[v].arr].arr # None)
          /\ write[v].pc = "collect" =>
               /\ write[v].len <= Len(heap[write[v].arr])
               /\ \A i \in 1..write[v].len : heap[write[v].arr][i] \in Sentry!Field
      BY <2>1 DEF Sentry!IInv, Sentry!WriteInv, Sentry!Made
    <3>2. /\ write[v].arr \in Sentry!Field /\ write[v].len \in Nat /\ write[v].arr # w
          /\ Len(heap[write[v].arr]) \in Nat
      BY <2>1, <3>1, SentryTypes, CoreConstants DEF Sentry!IInv
    <3>3. CASE write[v].arr # b
      BY <1>9, <3>1, <3>2, <3>3
    <3>4. CASE write[v].arr = b
      <4>1. b = a /\ write[v].arr = a
        BY <1>8, <3>2, <3>4
      <4>2. /\ Len(heap'[a]) = Len(heap[a])
            /\ \A i \in 1..Len(heap[a]) : i # n + 1 => heap'[a][i] = heap[a][i]
            /\ heap'[a][n + 1] = w
        BY <1>9, <4>1
      <4>3. write[v].pc = "collect" =>
              \A i \in 1..write[v].len : i \in 1..Len(heap[a]) /\ heap[a][i] \in Sentry!Field
        BY <3>1, <3>2, <4>1
      <4> QED
        BY <1>2, <3>1, <4>1, <4>2, <4>3
    <3> QED
      BY <3>3, <3>4
  <2>2. /\ core[c].arr # None
        /\ b = w \/ (b \in Core /\ core[b].arr # None)
        /\ n + 1 <= Len(heap'[b])
        /\ \A i \in 1..(n + 1) : heap'[b][i] \in Sentry!Field
    <3>1. core[c].arr # None /\ (b = w \/ (b \in Core /\ core[b].arr # None))
      BY <1>2, <1>3, <1>8 DEF Sentry!Made
    <3>2. heap'[b] \in Seq(Sentry!Field \cup {None})
      BY <1>8, <1>9, CoreConstants, BoundedSeq DEF Sentry!Array
    <3>3. /\ n + 1 \in Nat
          /\ \A i \in 1..(n + 1) : heap'[b][i] \in Sentry!Field \cup {None}
      BY <1>3, <1>9, <3>2
    <3>4. \A i \in 1..(n + 1) : SubSeq(heap'[b], 1, n + 1)[i] = heap'[b][i]
      BY <3>3, Prefix
    <3>5. \A i \in 1..(n + 1) : own[i] \in Sentry!Field
      BY <1>5
    <3> QED
      BY <1>9, <3>1, <3>4, <3>5
  <2> QED
    BY <1>2, <1>10, <2>1, <2>2 DEF Sentry!WriteInv, Sentry!Made
<1>17. Sentry!ScopeInv'
  <2>1. Sentry!Pushed' = Sentry!Pushed
    BY <1>2, <1>10 DEF Sentry!Pushed
  <2> QED
    BY <1>2, <2>1 DEF Sentry!IInv, Sentry!ScopeInv
<1>18. Sentry!AloneInv'
  <2>1. ASSUME NEW v \in Writer, v # w, write'[v].pc # "idle", ~overlaps'[v] PROVE FALSE
    BY <1>10, <1>11, <2>1
  <2>2. ASSUME ~overlaps'[w] PROVE \A v \in Writer \ {w} : write'[v].pc = "idle"
    BY <1>10, <1>11, <2>2
  <2>3. /\ write'[w].pc = "collect" /\ write'[w].core = c /\ write'[w].arr = b
        /\ write'[w].len = n + 1
    BY <1>10
  <2>4. SubSeq(heap'[b], 1, n + 1) = Append(core'[c].inherits, w)
    BY <1>2, <1>4, <1>9
  <2> QED
    BY <2>1, <2>2, <2>3, <2>4 DEF Sentry!AloneInv, Sentry!Elements
<1> QED
  BY <1>12, <1>14, <1>15, <1>16, <1>17, <1>18 DEF Sentry!IInv

LEMMA CollectKeeps ==
  ASSUME Sentry!IInv, NEW w \in Writer, Sentry!Collect(w)
  PROVE  Sentry!IInv'
<1>1. write[w].pc = "collect" /\ UNCHANGED <<heap, core, sent, overlaps>>
  BY DEF Sentry!Collect
<1>2. PICK got : got = SubSeq(heap[write[w].arr], 1, write[w].len)
  OBVIOUS
<1>3. write \in [Writer -> [pc : {"idle", "collect", "set", "capture", "pop"}, core : Core,
                          arr : Sentry!Field, len : 0..MaxCap, fields : Sentry!Fields]]
  BY DEF Sentry!IInv, Sentry!TypeOK
<1>4. got \in Sentry!Fields
  <2>1. write[w].len \in Nat /\ write[w].len <= MaxCap
    BY <1>3, CoreConstants
  <2>2. \A i \in 1..write[w].len : heap[write[w].arr][i] \in Sentry!Field
    BY <1>1 DEF Sentry!IInv, Sentry!WriteInv
  <2>3. PICK s, n : s = heap[write[w].arr] /\ n = write[w].len
    OBVIOUS
  <2>4. n \in Nat /\ n <= MaxCap /\ \A i \in 1..n : s[i] \in Sentry!Field
    BY <2>1, <2>2, <2>3
  <2>5. got = SubSeq(s, 1, n)
    BY <1>2, <2>3
  <2>6. got \in Seq(Sentry!Field) /\ Len(got) = n
    BY <2>4, <2>5, Prefix
  <2> QED
    BY <2>4, <2>6, CoreConstants, BoundedSeq DEF Sentry!Fields
<1>5. /\ \A v \in Writer : v # w => write'[v] = write[v]
      /\ write'[w].pc = "set" /\ write'[w].core = write[w].core
      /\ write'[w].arr = write[w].arr /\ write'[w].fields = got
      /\ write' \in [Writer -> [pc : {"idle", "collect", "set", "capture", "pop"}, core : Core,
                              arr : Sentry!Field, len : 0..MaxCap, fields : Sentry!Fields]]
  BY <1>2, <1>3, <1>4 DEF Sentry!Collect, Sentry!Elements
<1>6. PICK scope : scope = [of |-> w, fields |-> Sentry!TopContext]
  OBVIOUS
<1>7. /\ scopes \in Seq([of : Writer \cup {None}, fields : Sentry!Fields])
      /\ scope \in [of : Writer \cup {None}, fields : Sentry!Fields]
      /\ scopes' = Append(scopes, scope)
  BY <1>6, SentryScopes DEF Sentry!Collect
<1>8. /\ scopes' \in Seq([of : Writer \cup {None}, fields : Sentry!Fields])
      /\ Len(scopes') = Len(scopes) + 1 /\ scopes'[Len(scopes) + 1] = scope
  BY <1>7, AppendProperties
<1>9. Sentry!TypeOK'
  BY <1>1, <1>5, <1>8 DEF Sentry!IInv, Sentry!TypeOK
<1>10. /\ Sentry!CoreInv' /\ Sentry!InheritedFieldsKept' /\ Sentry!WriteInv'
       /\ \A v \in Writer : v # w /\ write'[v].pc # "idle" => overlaps'[v]
  BY <1>1, <1>5, OthersKeep
<1>11. Sentry!ScopeInv'
  <2>1. Sentry!Pushed' = Sentry!Pushed \cup {w} /\ w \notin Sentry!Pushed
    BY <1>1, <1>5 DEF Sentry!Pushed
  <2>2. IsFiniteSet(Sentry!Pushed) /\ Len(scopes) = Cardinality(Sentry!Pushed)
    BY SentryFiniteSets DEF Sentry!IInv, Sentry!ScopeInv
  <2>3. /\ IsFiniteSet(Sentry!Pushed \cup {w})
        /\ Cardinality(Sentry!Pushed \cup {w}) = Cardinality(Sentry!Pushed) + 1
    BY <2>1, <2>2, FS_AddElement
  <2> QED
    BY <1>8, <2>1, <2>2, <2>3, SentryFiniteSets DEF Sentry!ScopeInv
<1>12. Sentry!AloneInv'
  <2>1. ASSUME ~overlaps'[w]
        PROVE  /\ \A v \in Writer \ {w} : write'[v].pc = "idle"
               /\ got = Append(core'[write'[w].core].inherits, w)
               /\ scopes'[1].of = w
    <3>1. /\ \A v \in Writer \ {w} : write[v].pc = "idle"
          /\ got = Append(core[write[w].core].inherits, w)
      BY <1>1, <1>2, <2>1 DEF Sentry!IInv, Sentry!AloneInv, Sentry!Elements
    <3>2. Len(scopes) = 0
      BY <1>1, <3>1, AloneScope
    <3> QED
      BY <1>1, <1>5, <1>6, <1>8, <3>1, <3>2
  <2> QED
    BY <1>5, <1>10, <2>1 DEF Sentry!AloneInv
<1> QED
  BY <1>9, <1>10, <1>11, <1>12 DEF Sentry!IInv

LEMMA SetKeeps ==
  ASSUME Sentry!IInv, NEW w \in Writer, Sentry!SetContext(w)
  PROVE  Sentry!IInv'
<1>1. write[w].pc = "set" /\ UNCHANGED <<heap, core, sent, overlaps>>
  BY DEF Sentry!SetContext
<1>2. write \in [Writer -> [pc : {"idle", "collect", "set", "capture", "pop"}, core : Core,
                          arr : Sentry!Field, len : 0..MaxCap, fields : Sentry!Fields]]
  BY DEF Sentry!IInv, Sentry!TypeOK
<1>3. /\ \A v \in Writer : v # w => write'[v] = write[v]
      /\ write'[w].pc = "capture" /\ write'[w].core = write[w].core
      /\ write'[w].arr = write[w].arr
      /\ write' \in [Writer -> [pc : {"idle", "collect", "set", "capture", "pop"}, core : Core,
                              arr : Sentry!Field, len : 0..MaxCap, fields : Sentry!Fields]]
  BY <1>2 DEF Sentry!SetContext, Sentry!Goto
<1>4. /\ scopes \in Seq([of : Writer \cup {None}, fields : Sentry!Fields])
      /\ write[w].fields \in Sentry!Fields
  BY <1>2, SentryScopes
<1>5. PICK n \in Nat : /\ n = Len(scopes) /\ DOMAIN scopes = 1..n
                     /\ scopes \in [1..n -> [of : Writer \cup {None}, fields : Sentry!Fields]]
  BY <1>4, LenProperties
<1>6. /\ scopes' \in [1..n -> [of : Writer \cup {None}, fields : Sentry!Fields]]
      /\ \A i \in 1..n : scopes[i].of = w => scopes'[i].fields = write[w].fields
  <2>1. \A i \in 1..n : scopes[i] \in [of : Writer \cup {None}, fields : Sentry!Fields]
    BY <1>5
  <2>2. scopes' = [i \in 1..n |-> IF scopes[i].of = w
                                 THEN [scopes[i] EXCEPT !.fields = write[w].fields]
                                 ELSE scopes[i]]
    BY <1>5 DEF Sentry!SetContext
  <2>3. \A i \in 1..n : /\ [scopes[i] EXCEPT !.fields = write[w].fields]
                             \in [of : Writer \cup {None}, fields : Sentry!Fields]
                       /\ [scopes[i] EXCEPT !.fields = write[w].fields].fields = write[w].fields
    BY <1>4, <2>1
  <2> QED
    BY <2>1, <2>2, <2>3
<1>7. /\ scopes' \in Seq([of : Writer \cup {None}, fields : Sentry!Fields])
      /\ Len(scopes') = Len(scopes)
  <2>1. \A S : scopes' \in [1..n -> S] => scopes' \in Seq(S) /\ Len(scopes') = n
    BY <1>5
  <2> QED
    BY <1>5, <1>6, <2>1
<1>8. Sentry!TypeOK'
  BY <1>1, <1>3, <1>7 DEF Sentry!IInv, Sentry!TypeOK
<1>9. /\ Sentry!CoreInv' /\ Sentry!InheritedFieldsKept' /\ Sentry!WriteInv'
      /\ \A v \in Writer : v # w /\ write'[v].pc # "idle" => overlaps'[v]
  BY <1>1, <1>3, OthersKeep
<1>10. Sentry!ScopeInv'
  <2>1. Sentry!Pushed' = Sentry!Pushed
    BY <1>1, <1>3 DEF Sentry!Pushed
  <2> QED
    BY <1>7, <2>1 DEF Sentry!IInv, Sentry!ScopeInv
<1>11. Sentry!AloneInv'
  <2>1. ASSUME ~overlaps'[w]
        PROVE  /\ \A v \in Writer \ {w} : write'[v].pc = "idle"
               /\ scopes'[1].fields = Append(core'[write'[w].core].inherits, w)
    <3>1. /\ \A v \in Writer \ {w} : write[v].pc = "idle"
          /\ write[w].fields = Append(core[write[w].core].inherits, w)
          /\ scopes[1].of = w
      BY <1>1, <2>1 DEF Sentry!IInv, Sentry!AloneInv
    <3>2. Len(scopes) = 1
      BY <1>1, <3>1, AloneScope
    <3> QED
      BY <1>1, <1>3, <1>5, <1>6, <3>1, <3>2
  <2> QED
    BY <1>3, <1>9, <2>1 DEF Sentry!AloneInv
<1> QED
  BY <1>8, <1>9, <1>10, <1>11 DEF Sentry!IInv

LEMMA CaptureKeeps ==
  ASSUME Sentry!IInv, NEW w \in Writer, Sentry!CaptureEvent(w)
  PROVE  Sentry!IInv'
<1>1. write[w].pc = "capture" /\ UNCHANGED <<heap, core, scopes, overlaps>>
  BY DEF Sentry!CaptureEvent
<1>2. /\ \A v \in Writer : v # w => write'[v] = write[v]
      /\ write'[w].pc = "pop" /\ write'[w].core = write[w].core
      /\ write'[w].arr = write[w].arr
      /\ write' \in [Writer -> [pc : {"idle", "collect", "set", "capture", "pop"}, core : Core,
                              arr : Sentry!Field, len : 0..MaxCap, fields : Sentry!Fields]]
  BY DEF Sentry!IInv, Sentry!TypeOK, Sentry!CaptureEvent, Sentry!Goto
<1>3. sent' \in [Writer -> Sentry!Fields] /\ sent'[w] = Sentry!TopContext
  BY SentryScopes DEF Sentry!IInv, Sentry!TypeOK, Sentry!CaptureEvent
<1>4. Sentry!TypeOK'
  BY <1>1, <1>2, <1>3 DEF Sentry!IInv, Sentry!TypeOK
<1>5. /\ Sentry!CoreInv' /\ Sentry!InheritedFieldsKept' /\ Sentry!WriteInv'
      /\ \A v \in Writer : v # w /\ write'[v].pc # "idle" => overlaps'[v]
  BY <1>1, <1>2, OthersKeep
<1>6. Sentry!ScopeInv'
  <2>1. Sentry!Pushed' = Sentry!Pushed
    BY <1>1, <1>2 DEF Sentry!Pushed
  <2> QED
    BY <1>1, <2>1 DEF Sentry!IInv, Sentry!ScopeInv
<1>7. Sentry!AloneInv'
  <2>1. ASSUME ~overlaps'[w]
        PROVE  /\ \A v \in Writer \ {w} : write'[v].pc = "idle"
               /\ sent'[w] = Append(core'[write'[w].core].inherits, w)
    <3>1. /\ \A v \in Writer \ {w} : write[v].pc = "idle"
          /\ scopes[1].fields = Append(core[write[w].core].inherits, w)
      BY <1>1, <2>1 DEF Sentry!IInv, Sentry!AloneInv
    <3>2. Len(scopes) = 1 /\ scopes # <<>>
      BY <1>1, <3>1, AloneScope, EmptySeq
    <3> QED
      BY <1>1, <1>2, <1>3, <3>1, <3>2 DEF Sentry!TopContext
  <2> QED
    BY <1>2, <1>5, <2>1 DEF Sentry!AloneInv
<1> QED
  BY <1>4, <1>5, <1>6, <1>7 DEF Sentry!IInv

LEMMA PopKeeps ==
  ASSUME Sentry!IInv, NEW w \in Writer, Sentry!PopScope(w)
  PROVE  Sentry!IInv'
<1>1. /\ write[w].pc = "pop" /\ UNCHANGED core
      /\ w \in Sentry!Field /\ <<>> \in Sentry!Fields /\ <<>> \in Sentry!Array
  <2>1. \A S : <<>> \in Seq(S) /\ Len(<<>>) <= MaxCap
    BY CoreConstants, EmptySeq
  <2>2. <<>> \in Sentry!Fields
    BY <2>1, BoundedSeq, CoreConstants DEF Sentry!Fields
  <2>3. <<>> \in Sentry!Array
    BY <2>1, BoundedSeq, CoreConstants DEF Sentry!Array
  <2> QED
    BY <2>2, <2>3 DEF Sentry!PopScope, Sentry!Field
<1>2. /\ heap' \in [Sentry!Field -> Sentry!Array]
      /\ \A a \in Sentry!Field : a # w => heap'[a] = heap[a]
  BY <1>1 DEF Sentry!IInv, Sentry!TypeOK, Sentry!PopScope
<1>3. /\ \A v \in Writer : v # w => write'[v] = write[v]
      /\ write'[w].pc = "idle"
      /\ write' \in [Writer -> [pc : {"idle", "collect", "set", "capture", "pop"}, core : Core,
                              arr : Sentry!Field, len : 0..MaxCap, fields : Sentry!Fields]]
  <2>1. Sentry!Idle(w) \in [pc : {"idle", "collect", "set", "capture", "pop"}, core : Core,
                           arr : Sentry!Field, len : 0..MaxCap, fields : Sentry!Fields]
    BY <1>1, CoreConstants DEF Sentry!Idle
  <2>2. Sentry!Idle(w).pc = "idle"
    BY DEF Sentry!Idle
  <2>3. write' = [write EXCEPT ![w] = Sentry!Idle(w)]
    BY DEF Sentry!PopScope
  <2>4. write \in [Writer -> [pc : {"idle", "collect", "set", "capture", "pop"}, core : Core,
                            arr : Sentry!Field, len : 0..MaxCap, fields : Sentry!Fields]]
    BY DEF Sentry!IInv, Sentry!TypeOK
  <2> QED
    BY <2>1, <2>2, <2>3, <2>4
<1>4. /\ sent' \in [Writer -> Sentry!Fields]
      /\ overlaps' \in [Writer -> BOOLEAN]
      /\ \A v \in Writer : v # w => overlaps'[v] = overlaps[v] /\ sent'[v] = sent[v]
  BY <1>1 DEF Sentry!IInv, Sentry!TypeOK, Sentry!PopScope
<1>5. /\ Sentry!Pushed' = Sentry!Pushed \ {w} /\ w \in Sentry!Pushed
      /\ IsFiniteSet(Sentry!Pushed) /\ Len(scopes) = Cardinality(Sentry!Pushed)
  BY <1>1, <1>3, SentryFiniteSets DEF Sentry!IInv, Sentry!ScopeInv, Sentry!Pushed
<1>6. /\ IsFiniteSet(Sentry!Pushed \ {w})
      /\ Cardinality(Sentry!Pushed \ {w}) = Len(scopes) - 1
  BY <1>5, FS_RemoveElement
<1>7. PICK n \in Nat :
        /\ n + 1 = Len(scopes)
        /\ scopes \in [1..(n + 1) -> [of : Writer \cup {None}, fields : Sentry!Fields]]
  <2>1. /\ Len(scopes) \in Nat
        /\ scopes \in [1..Len(scopes) -> [of : Writer \cup {None}, fields : Sentry!Fields]]
    BY SentryScopes, LenProperties
  <2>2. Len(scopes) # 0
    BY <1>5, FS_EmptySet
  <2>3. Len(scopes) - 1 \in Nat /\ Len(scopes) - 1 + 1 = Len(scopes)
    BY <2>1, <2>2
  <2> QED
    BY <2>1, <2>3
<1>8. /\ scopes' \in Seq([of : Writer \cup {None}, fields : Sentry!Fields])
      /\ Len(scopes') = Len(scopes) - 1
  <2>1. \A i \in 1..n : /\ scopes[i] \in [of : Writer \cup {None}, fields : Sentry!Fields]
                       /\ [scopes[i] EXCEPT !.of = None]
                             \in [of : Writer \cup {None}, fields : Sentry!Fields]
    BY <1>7
  <2>2. scopes' = [i \in 1..n |-> IF scopes[i].of = w THEN [scopes[i] EXCEPT !.of = None]
                                 ELSE scopes[i]]
    BY <1>7 DEF Sentry!PopScope
  <2>3. scopes' \in [1..n -> [of : Writer \cup {None}, fields : Sentry!Fields]]
    BY <2>1, <2>2
  <2>4. \A S : scopes' \in [1..n -> S] => scopes' \in Seq(S) /\ Len(scopes') = n
    BY <1>7
  <2>5. n = Len(scopes) - 1
    BY <1>7
  <2> QED
    BY <2>3, <2>4, <2>5
<1>9. Sentry!TypeOK'
  BY <1>1, <1>2, <1>3, <1>4, <1>8 DEF Sentry!IInv, Sentry!TypeOK
<1>10. ASSUME NEW e \in Core, Sentry!Made(e) PROVE heap'[core[e].arr] = heap[core[e].arr]
  BY <1>2, <1>10, CoreSlice, CoreConstants
<1>11. Sentry!CoreInv'
  BY <1>1, <1>10 DEF Sentry!IInv, Sentry!CoreInv, Sentry!Made
<1>12. Sentry!InheritedFieldsKept'
  BY <1>1, <1>10 DEF Sentry!IInv, Sentry!InheritedFieldsKept, Sentry!Elements, Sentry!Made
<1>13. Sentry!WriteInv'
  <2>1. ASSUME NEW v \in Writer, write'[v].pc # "idle"
        PROVE  /\ write'[v] = write[v] /\ write[v].pc # "idle"
               /\ heap'[write[v].arr] = heap[write[v].arr]
    <3>1. v # w /\ write'[v] = write[v]
      BY <1>3, <2>1
    <3>2. write[v].arr \in Sentry!Field /\ (write[v].arr = v \/ write[v].arr \in Core)
      BY <2>1, <3>1, SentryTypes DEF Sentry!IInv, Sentry!WriteInv
    <3>3. write[v].arr # w
      BY <3>1, <3>2, CoreConstants
    <3> QED
      BY <1>2, <2>1, <3>1, <3>2, <3>3
  <2> QED
    BY <1>1, <2>1 DEF Sentry!IInv, Sentry!WriteInv, Sentry!Made
<1>14. Sentry!ScopeInv'
  BY <1>5, <1>6, <1>8, SentryFiniteSets DEF Sentry!ScopeInv
<1>15. Sentry!AloneInv'
  <2>1. ASSUME NEW v \in Writer, write'[v].pc # "idle", ~overlaps'[v] PROVE FALSE
    <3>1. v # w /\ write[v].pc # "idle" /\ ~overlaps[v]
      BY <1>3, <1>4, <2>1
    <3> QED
      BY <1>1, <3>1 DEF Sentry!IInv, Sentry!AloneInv
  <2> QED
    BY <2>1 DEF Sentry!AloneInv
<1> QED
  BY <1>9, <1>11, <1>12, <1>13, <1>14, <1>15 DEF Sentry!IInv

LEMMA SentryInductive ==
  Sentry!IInv /\ [Sentry!Next]_(Sentry!vars) => Sentry!IInv'
<1>1. ASSUME Sentry!IInv, UNCHANGED Sentry!vars PROVE Sentry!IInv'
  <2> USE <1>1 DEF Sentry!vars, Sentry!IInv
  <2>1. Sentry!TypeOK'
    BY DEF Sentry!TypeOK
  <2>2. Sentry!CoreInv' /\ Sentry!InheritedFieldsKept'
    BY DEF Sentry!CoreInv, Sentry!InheritedFieldsKept, Sentry!Made, Sentry!Elements
  <2>3. Sentry!WriteInv'
    BY DEF Sentry!WriteInv, Sentry!Made
  <2>4. Sentry!ScopeInv'
    BY DEF Sentry!ScopeInv, Sentry!Pushed
  <2>5. Sentry!AloneInv'
    BY DEF Sentry!AloneInv, Sentry!Elements
  <2> QED
    BY <2>1, <2>2, <2>3, <2>4, <2>5
<1> QED
  BY <1>1, WithKeeps, WithNothingKeeps, AppendKeeps, CollectKeeps, SetKeeps, CaptureKeeps,
     PopKeeps
     DEF Sentry!Next

LEMMA SentrySafety == PartsSpec => []Sentry!IInv
<1>1. PartsInit => Sentry!Init
  BY DEF PartsInit
<1>2. [PartsNext]_partVars => [Sentry!Next]_(Sentry!vars)
  BY DEF PartsNext, partVars, sentry, Sentry!vars
<1> QED
  BY <1>1, <1>2, SentryInit, SentryInductive, PTL DEF PartsSpec

(* Whatever clones are made and whatever is written at the same time, a    *)
(* core keeps what it inherited in the arrays it shares; a Write that met  *)
(* no other sends the fields of its own logger and entry; and once none is *)
(* under way the hub has the scopes it had before.                         *)
THEOREM PartsFieldsStay == PartsSpec => []FieldsStayWithTheirLogger
<1>1. Sentry!IInv => Sentry!ReportsOwnFields
  <2> SUFFICES ASSUME Sentry!IInv PROVE Sentry!ReportsOwnFields
    OBVIOUS
  <2>1. \A w \in Writer : write[w].pc = "pop" /\ ~overlaps[w] =>
          sent[w] = Append(core[write[w].core].inherits, w)
    BY DEF Sentry!IInv, Sentry!AloneInv
  <2>2. ASSUME \A w \in Writer : write[w].pc = "idle" PROVE scopes = <<>>
    <3>1. Sentry!Pushed = {}
      BY <2>2 DEF Sentry!Pushed
    <3>2. Len(scopes) = 0
      BY <3>1, SentryFiniteSets, FS_EmptySet DEF Sentry!IInv, Sentry!ScopeInv
    <3> QED
      BY <3>2, SentryScopes, EmptySeq
  <2> QED
    BY <2>1, <2>2 DEF Sentry!ReportsOwnFields
<1> QED
  BY <1>1, SentrySafety, PTL
     DEF FieldsStayWithTheirLogger, Sentry!FieldsStayWithTheirLogger, Sentry!IInv

--------------------------------------------------------------------------
(* All of them                                                             *)

(* Every part keeps its types, whichever of them moves.                    *)
THEOREM PartsTypes == PartsSpec => []PartsTypeOK
<1>1. PartsSpec => [](part \in Part)
  <2>1. part \in Part /\ [PartsNext]_partVars => (part \in Part)'
    BY DEF PartsNext, partVars
  <2> QED
    BY <2>1, PTL DEF PartsSpec, PartsInit
<1> QED
  BY <1>1, ResolverIsAPart, ResolverTypes, EtcdSafety, ConsulSafety, ConnSafety,
     SettingsSafety, SentrySafety, PTL
     DEF PartsTypeOK, RustEtcd!IInv, RustConsul!IInv, Connections!IInv, Sections!IInv,
         Sentry!IInv
==========================================================================
