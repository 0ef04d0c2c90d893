----------------------------- MODULE Device_proofs -----------------------------
(* Machine-checked proofs about SettingsFlash and Device, for any layout of  *)
(* the settings sector that meets the assumption, any number of entries,     *)
(* attempts, menu commands and starts.                                       *)
EXTENDS Device, WellFoundedInduction, TLAPS

USE SettingsFlashAssumption, DeviceAssumption

-----------------------------------------------------------------------------
(* The layout of the sector.                                               *)

LEMMA ProductGrows ==
  ASSUME NEW a \in Nat, NEW b \in Nat, a <= b, NEW c \in Nat
  PROVE  a * c \in Nat /\ b * c \in Nat /\ a * c <= b * c
OBVIOUS

LEMMA DivProperties ==
  ASSUME NEW a \in Nat, NEW d \in Nat \ {0}
  PROVE  /\ a \div d \in Nat
         /\ (a \div d) * d <= a /\ a < (a \div d) * d + d
OBVIOUS

LEMMA DivGrows ==
  ASSUME NEW a \in Nat, NEW b \in Nat, a <= b, NEW d \in Nat \ {0}
  PROVE  a \div d <= b \div d
<1> DEFINE m == a \div d
           n == b \div d
<1>1. m \in Nat /\ n \in Nat /\ m * d <= a /\ b < n * d + d
  BY DivProperties
<1> HIDE DEF m, n
<1>2. SUFFICES ASSUME n + 1 <= m PROVE FALSE
  BY <1>1 DEF m, n
<1>3. (n + 1) * d <= m * d /\ m * d \in Nat
  BY <1>1, <1>2, ProductGrows
<1>4. (n + 1) * d = n * d + d /\ n * d \in Nat
  BY <1>1
<1> QED BY <1>1, <1>3, <1>4

(* Every entry lies within the pages. *)
LEMMA Layout ==
  /\ NPages \in Nat \ {0}
  /\ \A i \in Entries : /\ FirstPage(i) \in Nat /\ LastPage(i) \in Pages
                        /\ FirstPage(i) <= LastPage(i)
<1> DEFINE size == NEntries * EntryBytes
<1>0. EntryBytes \in Nat \ {0} /\ NEntries \in Nat \ {0} /\ PageBytes \in Nat \ {0}
  OBVIOUS
<1>1. size \in Nat /\ size >= 1
  <2>1. 1 * EntryBytes <= size /\ size \in Nat
    BY <1>0, ProductGrows
  <2> QED BY <1>0, <2>1
<1>2. NPages = (size + PageBytes - 1) \div PageBytes
  BY DEF NPages
<1> HIDE DEF size
<1>3. NPages \in Nat /\ size - 1 \in Nat /\ size + PageBytes - 1 \in Nat
  BY <1>0, <1>1, <1>2, DivProperties
<1>4. NPages = (size - 1) \div PageBytes + 1
  <2>1. size + PageBytes - 1 = (size - 1) + 1 * PageBytes
    BY <1>0, <1>1
  <2> DEFINE q == (size - 1) \div PageBytes
  <2>3. q \in Nat /\ q * PageBytes <= size - 1 /\ size - 1 < q * PageBytes + PageBytes
    BY <1>0, <1>3, DivProperties
  <2>4. /\ NPages * PageBytes <= size + PageBytes - 1
        /\ size + PageBytes - 1 < NPages * PageBytes + PageBytes
    BY <1>0, <1>2, <1>3, DivProperties
  <2> HIDE DEF q
  <2>5. ~(NPages >= q + 2)
    <3> SUFFICES ASSUME q + 2 <= NPages PROVE FALSE
      BY <1>3, <2>3
    <3>1. (q + 2) * PageBytes <= NPages * PageBytes /\ NPages * PageBytes \in Nat
      BY <1>0, <1>3, <2>3, ProductGrows
    <3>2. (q + 2) * PageBytes = q * PageBytes + PageBytes + PageBytes /\ q * PageBytes \in Nat
      BY <1>0, <2>3
    <3> QED BY <1>0, <1>1, <2>3, <2>4, <3>1, <3>2
  <2>6. ~(NPages <= q)
    <3> SUFFICES ASSUME NPages <= q PROVE FALSE
      OBVIOUS
    <3>1. NPages * PageBytes <= q * PageBytes /\ q * PageBytes \in Nat /\ NPages * PageBytes \in Nat
      BY <1>0, <1>3, <2>3, ProductGrows
    <3> QED BY <1>0, <1>1, <2>3, <2>4, <3>1
  <2> QED BY <1>3, <2>3, <2>5, <2>6 DEF q
<1>5. NPages \in Nat \ {0}
  <2>1. (size - 1) \div PageBytes \in Nat
    BY <1>0, <1>3, DivProperties
  <2> QED BY <1>4, <2>1
<1>6. ASSUME NEW i \in Entries
      PROVE  /\ FirstPage(i) \in Nat /\ LastPage(i) \in Pages
             /\ FirstPage(i) <= LastPage(i)
  <2>1. i \in Nat /\ i + 1 <= NEntries
    BY <1>0 DEF Entries
  <2> DEFINE a == i * EntryBytes
             b == i * EntryBytes + EntryBytes - 1
  <2>2. (i + 1) * EntryBytes <= size
    BY <1>0, <2>1, ProductGrows DEF size
  <2>3. (i + 1) * EntryBytes = i * EntryBytes + EntryBytes /\ i * EntryBytes \in Nat
    BY <1>0, <2>1
  <2>4. a \in Nat /\ b \in Nat /\ a <= b /\ b <= size - 1
    BY <1>0, <1>1, <2>2, <2>3
  <2>5. FirstPage(i) = a \div PageBytes /\ LastPage(i) = b \div PageBytes
    BY DEF FirstPage, LastPage
  <2> HIDE DEF a, b
  <2>6. a \div PageBytes \in Nat /\ b \div PageBytes \in Nat
    BY <1>0, <2>4, DivProperties
  <2>7. a \div PageBytes <= b \div PageBytes
    BY <1>0, <2>4, DivGrows
  <2>8. b \div PageBytes <= (size - 1) \div PageBytes
    BY <1>0, <1>3, <2>4, DivGrows
  <2>9. LastPage(i) \in 0..(NPages - 1)
    <3>1. (size - 1) \div PageBytes \in Nat
      BY <1>0, <1>3, DivProperties
    <3> QED BY <1>4, <2>5, <2>6, <2>8, <3>1
  <2> QED BY <2>5, <2>6, <2>7, <2>9 DEF Pages
<1> QED BY <1>5, <1>6

-----------------------------------------------------------------------------
(* Loading.                                                                *)

(* A sector the first n pages of which are programmed with b. *)
Programmed(b, n) == [p \in Pages |-> IF p < n THEN b ELSE Blank]

(* The first m entries of b, and the defaults behind them. *)
Prefix(b, m) == [i \in Entries |-> IF i < m THEN b[i] ELSE 0]

LEMMA Smallest ==
  ASSUME NEW T \in SUBSET Nat, T # {}
  PROVE  \E x \in T : \A y \in T : x <= y
<1> DEFINE R == OpToRel(<, Nat)
<1>1. IsWellFoundedOn(R, Nat)
  BY NatLessThanWellFounded
<1> HIDE DEF R
<1>2. PICK x \in T : \A y \in T : ~ (<<y, x>> \in R)
  BY <1>1, WFMin
<1>3. \A y \in T : y < x => <<y, x>> \in R
  BY DEF R, OpToRel
<1>4. \A y \in T : ~ (y < x)
  BY <1>2, <1>3
<1>5. \A y \in T : x <= y
  BY <1>4
<1> QED BY <1>5

LEMMA FullIsNotBlank ==
  ASSUME NEW b \in [Entries -> Nat]
  PROVE  b # Blank
<1>1. 0 \in Entries
  BY DEF Entries
<1>2. DOMAIN b = Entries /\ DOMAIN Blank = {}
  BY DEF Blank
<1> QED BY <1>1, <1>2

(* Whatever the number of programmed pages, loading finds the first entries *)
(* of what was being saved; with all of them, everything.                   *)
LEMMA LoadedIsPrefix ==
  ASSUME NEW b \in [Entries -> Nat], NEW n \in 0..NPages
  PROVE  /\ \E m \in 0..NEntries : Loaded(Programmed(b, n)) = Prefix(b, m)
         /\ n = NPages => Loaded(Programmed(b, n)) = b
         /\ Loaded(Programmed(b, n)) \in [Entries -> Nat]
<1> DEFINE f == Programmed(b, n)
<1>0. /\ NPages \in Nat \ {0} /\ n \in Nat /\ NEntries \in Nat \ {0}
      /\ Pages = 0..(NPages - 1) /\ Entries = 0..(NEntries - 1)
  BY Layout DEF Pages, Entries
<1>1. \A p \in Pages : f[p] = (IF p < n THEN b ELSE Blank)
  BY DEF Programmed
<1>2. b # Blank
  BY FullIsNotBlank
<1> HIDE DEF f
<1>3. \A i \in Entries : Readable(f, i) => f[LastPage(i)] = b
  <2> SUFFICES ASSUME NEW i \in Entries, Readable(f, i) PROVE f[LastPage(i)] = b
    OBVIOUS
  <2>1. LastPage(i) \in FirstPage(i)..LastPage(i) /\ LastPage(i) \in Pages
    BY <1>0, Layout
  <2>2. f[LastPage(i)] # Blank
    BY <2>1 DEF Readable
  <2> QED BY <1>1, <2>1, <2>2
<1> DEFINE good(i) == \A j \in 0..i : Readable(f, j)
<1>4. Loaded(f) = [i \in Entries |-> IF good(i) THEN b[i] ELSE 0]
  <2>1. \A i \in Entries : good(i) => Readable(f, i)
    BY <1>0
  <2> QED BY <1>3, <2>1 DEF Loaded
<1>5. \E m \in 0..NEntries : \A i \in Entries : good(i) <=> i < m
  <2> DEFINE T == {j \in 0..NEntries : j = NEntries \/ ~Readable(f, j)}
  <2>0. 0..NEntries \subseteq Nat /\ NEntries \in 0..NEntries
    BY <1>0
  <2>1. T \in SUBSET Nat /\ T # {}
    BY <2>0
  <2>2. PICK m \in T : \A y \in T : m <= y
    BY <2>1, Smallest
  <2>3. m \in 0..NEntries /\ m \in Nat
    BY <1>0
  <2>4. ASSUME NEW i \in Entries PROVE good(i) <=> i < m
    <3>1. CASE i < m
      <4>1. \A j \in 0..i : j \in 0..NEntries /\ ~(m <= j)
        BY <1>0, <2>3, <3>1
      <4>2. \A j \in 0..i : Readable(f, j)
        BY <2>2, <4>1
      <4> QED BY <3>1, <4>2
    <3>2. CASE ~(i < m)
      <4>1. m # NEntries /\ m \in 0..i
        BY <1>0, <2>3, <3>2
      <4>2. ~Readable(f, m)
        BY <2>2, <4>1
      <4> QED BY <3>2, <4>1, <4>2
    <3> QED BY <3>1, <3>2
  <2> QED BY <2>3, <2>4
<1>6. n = NPages => \A i \in Entries : good(i)
  <2> SUFFICES ASSUME n = NPages, NEW i \in Entries, NEW j \in 0..i,
                      NEW p \in FirstPage(j)..LastPage(j)
               PROVE  f[p] # Blank
    BY DEF Readable
  <2>1. j \in Entries
    BY <1>0
  <2>2. FirstPage(j) \in Nat /\ LastPage(j) \in Pages
    BY <2>1, Layout
  <2>3. p \in Pages /\ p < n
    BY <1>0, <2>2
  <2> QED BY <1>1, <1>2, <2>3
<1> HIDE DEF good
<1>7. \E m \in 0..NEntries : Loaded(f) = Prefix(b, m)
  <2>1. PICK m \in 0..NEntries : \A i \in Entries : good(i) <=> i < m
    BY <1>5
  <2>2. Loaded(f) = Prefix(b, m)
    BY <1>4, <2>1 DEF Prefix
  <2> QED BY <2>2
<1>8. n = NPages => Loaded(f) = b
  BY <1>4, <1>6
<1>9. Loaded(f) \in [Entries -> Nat]
  BY <1>4
<1> QED BY <1>7, <1>8, <1>9 DEF f

-----------------------------------------------------------------------------
(* The invariant.                                                          *)

HIDE SettingsFlashAssumption

Values == [Entries -> 0..MaxEdits]

Places == {"gconfig", "aconfig", "erase", "program", "net", "connect", "wait",
           "wait_poll", "loop", "loop_poll", "booster"}

BootTypes ==
  /\ owner \in {"this", "other", "none"} /\ mode \in {"sta", "ap"}
  /\ known \in BOOLEAN /\ dhcp \in BOOLEAN
  /\ place \in Places /\ boots \in 1..MaxBoots

SettingsTypes ==
  /\ config \in Values /\ buffer \in Values
  /\ done \in BOOLEAN /\ page \in Pages
  /\ ret \in {"gconfig", "net", "loop", "booster"} /\ edits \in 0..MaxEdits

WifiTypes ==
  /\ late \in BOOLEAN /\ ip \in BOOLEAN /\ reapply \in BOOLEAN
  /\ asked \in BOOLEAN /\ link \in BOOLEAN /\ saving \in BOOLEAN
  /\ addr \in BOOLEAN
  /\ seen \in {"down", "noip", "ip"} /\ status \in {"down", "noip", "ip"}

(* The sector holds the first pages of the last save that erased it: as     *)
(* many as have been programmed, all of them once it is complete; and what  *)
(* is being programmed is what the app has in RAM.                          *)
FlashShape ==
  /\ \E n \in 0..NPages :
       /\ flash = Programmed(buffer, n)
       /\ place = "program" => n = page
       /\ done => n = NPages
  /\ place = "program" => config = buffer

(* Before the Wi-Fi is up no attempt has been counted, whether or not the   *)
(* way there leads through a save; a further one is begun only if there is  *)
(* one left.                                                                *)
AttemptShape ==
  /\ attempt \in 0..MaxAttempts
  /\ (place \in {"gconfig", "aconfig", "net"}
      \/ (place \in {"erase", "program"} /\ ret \in {"gconfig", "net"}))
       => attempt = 0
  /\ place = "connect" => attempt < MaxAttempts

(* An associated chip that saves power has its callback behind it and the   *)
(* end of the poll before it.                                               *)
PowerShape == (link /\ saving) => (reapply /\ Polling)

SettingsShape == BootTypes /\ SettingsTypes /\ FlashShape /\ LoadsLastSave

DeviceShape == SettingsShape /\ WifiTypes /\ AttemptShape

-----------------------------------------------------------------------------
(* The settings.                                                           *)

LEMMA SectorTypes ==
  ASSUME SettingsTypes, FlashShape
  PROVE  \A p \in Pages : flash[p] = Blank \/ flash[p] \in [Entries -> 0..MaxEdits]
<1>1. PICK n \in 0..NPages : flash = Programmed(buffer, n)
  BY DEF FlashShape
<1>2. buffer \in [Entries -> 0..MaxEdits]
  BY DEF SettingsTypes, Values
<1> QED BY <1>1, <1>2 DEF Programmed

(* What the app loads: a prefix of the last save, of the right type. *)
LEMMA LoadedFromSector ==
  ASSUME SettingsTypes, FlashShape
  PROVE  /\ Loaded(flash) \in Values
         /\ \E m \in 0..NEntries : Loaded(flash) = Prefix(buffer, m)
         /\ done => Loaded(flash) = buffer
<1>1. buffer \in Values /\ buffer \in [Entries -> Nat]
  BY DEF SettingsTypes, Values
<1>2. PICK n \in 0..NPages : flash = Programmed(buffer, n) /\ (done => n = NPages)
  BY DEF FlashShape
<1>3. /\ \E m \in 0..NEntries : Loaded(flash) = Prefix(buffer, m)
      /\ n = NPages => Loaded(flash) = buffer
  BY <1>1, <1>2, LoadedIsPrefix
<1>4. Loaded(flash) \in Values
  <2>1. PICK m \in 0..NEntries : Loaded(flash) = Prefix(buffer, m)
    BY <1>3
  <2>2. Prefix(buffer, m) \in Values
    BY <1>1 DEF Prefix, Values
  <2> QED BY <2>1, <2>2
<1> QED BY <1>2, <1>3, <1>4

LEMMA WholePrefix ==
  ASSUME NEW b \in Values
  PROVE  b = Prefix(b, NEntries)
<1>1. \A i \in Entries : i < NEntries
  BY SettingsFlashAssumption DEF Entries
<1> QED BY <1>1 DEF Prefix, Values

(* LoadsLastSave, by the name of its prefix. *)
LEMMA LoadsParts ==
  /\ LoadsLastSave <=>
       (place = "net" => /\ done => config = buffer
                         /\ \E m \in 0..NEntries : config = Prefix(buffer, m))
  /\ LoadsLastSave' <=>
       (place' = "net" => /\ done' => config' = buffer'
                          /\ \E m \in 0..NEntries : config' = Prefix(buffer', m))
BY DEF LoadsLastSave, Prefix

LEMMA EraseSettings ==
  ASSUME SettingsShape, Erase
  PROVE  SettingsShape'
<1> USE DEF SettingsShape
<1>1. /\ place' = "program" /\ page' = 0 /\ buffer' = config /\ done' = FALSE
      /\ config' = config /\ ret' = ret /\ edits' = edits /\ flash' = Erased
  BY DEF Erase
<1>2. NPages \in Nat \ {0} /\ 0 \in Pages
  BY Layout DEF Pages
<1>3. BootTypes'
  BY DEF Erase, BootTypes, gconfVars, Places
<1>4. SettingsTypes'
  BY <1>1, <1>2 DEF SettingsTypes
<1>5. Erased = Programmed(config, 0)
  BY <1>2 DEF Erased, Programmed, Pages
<1>6. FlashShape'
  BY <1>1, <1>2, <1>5 DEF FlashShape
<1>7. LoadsLastSave'
  BY <1>1 DEF LoadsLastSave
<1> QED BY <1>3, <1>4, <1>6, <1>7

LEMMA ProgramSettings ==
  ASSUME SettingsShape, Program
  PROVE  SettingsShape'
<1> USE DEF SettingsShape
<1>1. /\ place = "program" /\ flash' = [flash EXCEPT ![page] = buffer]
      /\ config' = config /\ ret' = ret /\ buffer' = buffer /\ edits' = edits
      /\ UNCHANGED <<gconfVars, boots>>
  BY DEF Program
<1>2. NPages \in Nat \ {0} /\ page \in Pages /\ page \in Nat /\ Pages = 0..(NPages - 1)
  BY Layout DEF Pages, SettingsTypes
<1>3. flash = Programmed(buffer, page) /\ config = buffer /\ (done => page = NPages)
  BY <1>1 DEF FlashShape
<1>4. flash' = Programmed(buffer, page + 1)
  <2>1. \A p \in Pages : p < page + 1 <=> p < page \/ p = page
    BY <1>2
  <2> QED BY <1>1, <1>2, <1>3, <2>1 DEF Programmed
<1>5. CASE page + 1 \in Pages
  <2>1. page' = page + 1 /\ place' = place /\ done' = done
    BY <1>5 DEF Program
  <2>2. ~done
    BY <1>2, <1>3
  <2>3. FlashShape'
    <3>1. page + 1 \in 0..NPages
      BY <1>2, <1>5
    <3>2. /\ flash' = Programmed(buffer', page + 1)
          /\ place' = "program" => page + 1 = page'
          /\ ~done' /\ config' = buffer'
      BY <1>1, <1>3, <1>4, <2>1, <2>2
    <3>3. \E n \in 0..NPages :
            /\ flash' = Programmed(buffer', n)
            /\ place' = "program" => n = page'
            /\ done' => n = NPages
      BY <3>1, <3>2
    <3> QED BY <3>2, <3>3 DEF FlashShape
  <2>4. BootTypes' /\ SettingsTypes' /\ LoadsLastSave'
    BY <1>1, <1>5, <2>1 DEF BootTypes, SettingsTypes, LoadsLastSave, gconfVars
  <2> QED BY <2>3, <2>4
<1>6. CASE page + 1 \notin Pages
  <2>1. place' = ret /\ done' = TRUE /\ page' = page
    BY <1>6 DEF Program
  <2>2. page + 1 = NPages
    BY <1>2, <1>6
  <2>3. ret \in {"gconfig", "net", "loop", "booster"}
    BY DEF SettingsTypes
  <2>4. FlashShape'
    BY <1>1, <1>2, <1>4, <2>1, <2>2, <2>3 DEF FlashShape
  <2>5. BootTypes' /\ SettingsTypes'
    BY <1>1, <2>1, <2>3 DEF BootTypes, SettingsTypes, gconfVars, Places
  <2>6. LoadsLastSave'
    <3>1. config = Prefix(buffer, NEntries) /\ NEntries \in 0..NEntries
      BY <1>3, WholePrefix, SettingsFlashAssumption DEF SettingsTypes
    <3> QED BY <1>1, <1>3, <2>1, <3>1, LoadsParts
  <2> QED BY <2>4, <2>5, <2>6
<1> QED BY <1>5, <1>6

(* A save that may begin, from a place where nothing is being programmed.  *)
LEMMA SaveSettings ==
  ASSUME SettingsShape, NEW to \in {"net", "loop", "booster"}, Save(to),
         place \in {"aconfig", "loop"}, to = "net" => place = "aconfig",
         config' \in Values, edits' \in 0..MaxEdits,
         UNCHANGED <<gconfVars, boots>>
  PROVE  SettingsShape'
<1> USE DEF SettingsShape
<1>1. /\ buffer' = buffer /\ done' = done /\ flash' = flash /\ page' = page
      /\ ret' \in {"gconfig", "net", "loop", "booster"}
      /\ place' \in {"erase", "booster", "loop"}
  BY DEF Save, saveVars, SettingsTypes
<1>2. BootTypes' /\ SettingsTypes' /\ LoadsLastSave'
  BY <1>1 DEF BootTypes, SettingsTypes, LoadsLastSave, gconfVars, Places
<1>3. FlashShape'
  BY <1>1 DEF FlashShape
<1> QED BY <1>2, <1>3

LEMMA AconfigSettings ==
  ASSUME SettingsShape, AconfigInit
  PROVE  SettingsShape'
<1> USE DEF SettingsShape
<1>1. /\ place = "aconfig" /\ config' = IF known THEN Loaded(flash) ELSE config
      /\ edits' = edits /\ UNCHANGED <<gconfVars, boots>>
  BY DEF AconfigInit
<1>2. /\ Loaded(flash) \in Values
      /\ \E m \in 0..NEntries : Loaded(flash) = Prefix(buffer, m)
      /\ done => Loaded(flash) = buffer
  BY LoadedFromSector
<1>3. config' \in Values /\ edits' \in 0..MaxEdits
  BY <1>1, <1>2 DEF SettingsTypes
<1>4. CASE known /\ ~HasMagic(flash)
  <2>1. Save("net")
    BY <1>4 DEF AconfigInit
  <2> QED BY <1>1, <1>3, <2>1, SaveSettings
<1>5. CASE ~(known /\ ~HasMagic(flash))
  <2>1. /\ place' = IF known THEN "net" ELSE "booster"
        /\ UNCHANGED <<saveVars, flash>>
    BY <1>5 DEF AconfigInit
  <2>2. BootTypes' /\ SettingsTypes'
    BY <1>1, <1>3, <2>1 DEF BootTypes, SettingsTypes, gconfVars, saveVars, Places
  <2>3. FlashShape'
    BY <1>1, <2>1 DEF FlashShape, saveVars
  <2>4. LoadsLastSave'
    BY <1>1, <1>2, <2>1, LoadsParts DEF saveVars
  <2> QED BY <2>2, <2>3, <2>4
<1> QED BY <1>4, <1>5

(* Every other step leaves the sector and the settings alone, and goes      *)
(* neither to "net" nor to "program".                                      *)
LEMMA OtherSettings ==
  ASSUME SettingsShape, UNCHANGED <<flash, saveVars, edits>>,
         config' \in Values, BootTypes',
         \/ place' \notin {"net", "program"}
         \/ place' = place /\ config' = config
  PROVE  SettingsShape'
<1> USE DEF SettingsShape
<1>1. /\ buffer' = buffer /\ done' = done /\ flash' = flash /\ page' = page
      /\ ret' = ret /\ edits' = edits
  BY DEF saveVars
<1>2. SettingsTypes' /\ LoadsLastSave'
  BY <1>1 DEF SettingsTypes, LoadsLastSave
<1>3. FlashShape'
  BY <1>1 DEF FlashShape
<1> QED BY <1>2, <1>3

LEMMA SettingsInit == Init => SettingsShape
<1> SUFFICES ASSUME Init PROVE SettingsShape
  OBVIOUS
<1>1. NPages \in Nat \ {0} /\ Pages = 0..(NPages - 1) /\ 0 \in Pages
  BY Layout DEF Pages
<1>2. Default \in Values
  BY DEF Default, Values
<1>3. BootTypes /\ SettingsTypes /\ LoadsLastSave
  BY <1>1, <1>2 DEF Init, BootTypes, SettingsTypes, LoadsLastSave, Places
<1>4. /\ place = "gconfig" /\ buffer = Default /\ done = (flash # Erased)
      /\ flash \in {Erased, [p \in Pages |-> Default]}
  BY DEF Init
<1>5. CASE flash = Erased
  <2>1. Erased = Programmed(Default, 0)
    BY <1>1 DEF Erased, Programmed
  <2>2. /\ done = (flash # Erased) /\ flash = Programmed(buffer, 0)
        /\ 0 \in 0..NPages /\ place # "program"
    BY <1>1, <1>4, <1>5, <2>1
  <2>3. FlashShape
    BY <1>5, <2>2 DEF FlashShape
  <2> QED BY <1>3, <2>3 DEF SettingsShape
<1>6. CASE flash = [p \in Pages |-> Default]
  <2>1. \A p \in Pages : p < NPages
    BY <1>1
  <2>2. [p \in Pages |-> Default] = Programmed(Default, NPages)
    BY <2>1 DEF Programmed
  <2> QED BY <1>1, <1>3, <1>4, <1>6, <2>2 DEF FlashShape, SettingsShape
<1> QED BY <1>4, <1>5, <1>6

LEMMA SettingsStep ==
  ASSUME SettingsShape, [Next]_vars
  PROVE  SettingsShape'
<1>0. BootTypes /\ SettingsTypes /\ config \in Values
  BY DEF SettingsShape, SettingsTypes
<1>1. CASE GconfigInit
  BY <1>0, <1>1, OtherSettings DEF GconfigInit, BootTypes, gconfVars, Places
<1>2. CASE AconfigInit
  BY <1>2, AconfigSettings
<1>3. CASE Erase
  BY <1>3, EraseSettings
<1>4. CASE Program
  BY <1>4, ProgramSettings
<1>5. CASE WifiInit
  BY <1>0, <1>5, OtherSettings DEF WifiInit, BootTypes, gconfVars, Places
<1>6. CASE Connect
  BY <1>0, <1>6, OtherSettings DEF Connect, BootTypes, gconfVars, Places
<1>7. CASE CheckStatus
  BY <1>0, <1>7, OtherSettings DEF CheckStatus, BootTypes, gconfVars, Places
<1>8. CASE WaitOver
  BY <1>0, <1>8, OtherSettings DEF WaitOver, TimedOut, BootTypes, gconfVars, Places
<1>9. CASE WaitPolled
  BY <1>0, <1>9, OtherSettings DEF WaitPolled, TimedOut, BootTypes, gconfVars, Places
<1>10. CASE DeadlinePasses
  BY <1>0, <1>10, OtherSettings DEF DeadlinePasses, BootTypes, gconfVars
<1>11. CASE Callback
  BY <1>0, <1>11, OtherSettings
     DEF Callback, LinkUp, LinkDown, Leased, LeaseLost, BootTypes, gconfVars
<1>12. CASE LoopPoll \/ LoopPolled
  BY <1>0, <1>12, OtherSettings DEF LoopPoll, LoopPolled, BootTypes, gconfVars, Places
<1>13. ASSUME NEW i \in Edited, Edit(i) PROVE SettingsShape'
  <2>1. /\ place = "loop" /\ edits' = edits + 1 /\ edits < MaxEdits
        /\ config' = [config EXCEPT ![i] = edits + 1] /\ Save("loop")
        /\ UNCHANGED <<gconfVars, boots>>
    BY <1>13 DEF Edit
  <2>2. edits + 1 \in 0..MaxEdits
    BY <1>0, <2>1 DEF SettingsTypes
  <2>3. config' \in Values
    BY <1>0, <2>1, <2>2 DEF Values
  <2> QED BY <2>1, <2>2, <2>3, SaveSettings
<1>14. CASE ToBooster
  <2>1. /\ place = "loop" /\ edits' = edits /\ Save("booster")
        /\ config' = [config EXCEPT ![Mode] = 0] /\ UNCHANGED <<gconfVars, boots>>
    BY <1>14 DEF ToBooster
  <2>2. config' \in Values
    BY <1>0, <2>1 DEF Values
  <2> QED BY <1>0, <2>1, <2>2, SaveSettings DEF SettingsTypes
<1>15. CASE Restart /\ (UNCHANGED gconfVars \/ BoosterLaunches)
  <2>1. /\ boots' \in 1..MaxBoots /\ place' = "gconfig" /\ config' = Default
        /\ UNCHANGED <<flash, saveVars, edits>>
    BY <1>0, <1>15 DEF Restart, BootTypes
  <2>2. BootTypes'
    BY <1>0, <1>15, <2>1 DEF BoosterLaunches, BootTypes, gconfVars, Places
  <2>3. Default \in Values
    BY DEF Default, Values
  <2> QED BY <2>1, <2>2, <2>3, OtherSettings
<1>16. CASE UNCHANGED vars
  BY <1>0, <1>16, OtherSettings DEF vars, BootTypes, gconfVars
<1> QED BY <1>1, <1>2, <1>3, <1>4, <1>5, <1>6, <1>7, <1>8, <1>9, <1>10, <1>11,
           <1>12, <1>13, <1>14, <1>15, <1>16
        DEF Next, Boot, MainLoop, PowerCut, BoosterLaunches

-----------------------------------------------------------------------------
(* The Wi-Fi.                                                              *)

LEMMA WifiStep ==
  ASSUME BootTypes, WifiTypes, [Next]_vars
  PROVE  WifiTypes'
<1>1. CASE GconfigInit \/ AconfigInit \/ Erase \/ Program
  BY <1>1 DEF GconfigInit, AconfigInit, Erase, Program, WifiTypes, wifiVars,
              waitVars, chipVars
<1>2. CASE WifiInit
  BY <1>2 DEF WifiInit, WifiTypes, waitVars
<1>3. CASE Connect
  BY <1>3 DEF Connect, WifiTypes, BootTypes
<1>4. CASE CheckStatus
  BY <1>4 DEF CheckStatus, LinkStatus, WifiTypes, chipVars
<1>5. CASE WaitOver \/ LoopPoll
  BY <1>5 DEF WaitOver, LoopPoll, WifiTypes, wifiVars, waitVars, chipVars
<1>6. CASE WaitPolled \/ LoopPolled
  BY <1>6 DEF WaitPolled, LoopPolled, ApplyPm, WifiTypes, waitVars
<1>7. CASE DeadlinePasses
  BY <1>7 DEF DeadlinePasses, WifiTypes, chipVars
<1>8. CASE Callback
  BY <1>8 DEF Callback, LinkUp, LinkDown, Leased, LeaseLost, WifiTypes, waitVars
<1>9. CASE \/ ToBooster
           \/ \E i \in Edited : Edit(i)
  BY <1>9 DEF ToBooster, Edit, WifiTypes, wifiVars, waitVars, chipVars
<1>10. CASE PowerCut \/ BoosterLaunches
  BY <1>10 DEF PowerCut, BoosterLaunches, Restart, WifiOff, WifiTypes
<1>11. CASE UNCHANGED vars
  BY <1>11 DEF vars, WifiTypes, wifiVars, waitVars, chipVars
<1> QED BY <1>1, <1>2, <1>3, <1>4, <1>5, <1>6, <1>7, <1>8, <1>9, <1>10, <1>11
        DEF Next, Boot, MainLoop

LEMMA AttemptStep ==
  ASSUME SettingsTypes, AttemptShape, [Next]_vars
  PROVE  AttemptShape'
<1> USE DEF AttemptShape
<1>1. CASE GconfigInit
  BY <1>1 DEF GconfigInit, saveVars, wifiVars, waitVars
<1>2. CASE AconfigInit
  BY <1>2 DEF AconfigInit, Save, saveVars, wifiVars, waitVars
<1>3. CASE Erase \/ Program
  BY <1>3 DEF Erase, Program, SettingsTypes, wifiVars, waitVars
<1>4. CASE WifiInit
  BY <1>4 DEF WifiInit, saveVars, waitVars
<1>5. CASE Connect
  BY <1>5 DEF Connect, saveVars
<1>6. CASE CheckStatus
  BY <1>6 DEF CheckStatus, saveVars
<1>7. CASE WaitOver
  BY <1>7 DEF WaitOver, TimedOut, saveVars, wifiVars, waitVars
<1>8. CASE WaitPolled
  BY <1>8 DEF WaitPolled, TimedOut, saveVars, waitVars
<1>9. CASE DeadlinePasses
  BY <1>9 DEF DeadlinePasses, saveVars
<1>10. CASE Callback
  BY <1>10 DEF Callback, LinkUp, LinkDown, Leased, LeaseLost, saveVars, waitVars
<1>11. CASE LoopPoll \/ LoopPolled
  BY <1>11 DEF LoopPoll, LoopPolled, saveVars, wifiVars, waitVars
<1>12. CASE \/ ToBooster
            \/ \E i \in Edited : Edit(i)
  BY <1>12 DEF ToBooster, Edit, Save, saveVars, wifiVars, waitVars
<1>13. CASE PowerCut \/ BoosterLaunches
  BY <1>13 DEF PowerCut, BoosterLaunches, Restart, WifiOff, saveVars
<1>14. CASE UNCHANGED vars
  BY <1>14 DEF vars, saveVars, wifiVars, waitVars
<1> QED BY <1>1, <1>2, <1>3, <1>4, <1>5, <1>6, <1>7, <1>8, <1>9, <1>10, <1>11,
           <1>12, <1>13, <1>14 DEF Next, Boot, MainLoop

LEMMA DeviceShapeInvariant == Spec => []DeviceShape
<1>1. Init => DeviceShape
  <2> SUFFICES ASSUME Init PROVE DeviceShape
    OBVIOUS
  <2>1. WifiTypes
    BY DEF Init, WifiTypes
  <2>2. AttemptShape
    BY DEF Init, AttemptShape
  <2> QED BY <2>1, <2>2, SettingsInit DEF DeviceShape
<1>2. DeviceShape /\ [Next]_vars => DeviceShape'
  <2> SUFFICES ASSUME DeviceShape, [Next]_vars PROVE DeviceShape'
    OBVIOUS
  <2>1. SettingsShape /\ BootTypes /\ SettingsTypes /\ WifiTypes /\ AttemptShape
    BY DEF DeviceShape, SettingsShape
  <2> QED BY <2>1, SettingsStep, WifiStep, AttemptStep DEF DeviceShape
<1> QED BY <1>1, <1>2, PTL DEF Spec

-----------------------------------------------------------------------------
(* The theorems.                                                           *)

(* main: what aconfig_init loads is the last complete save, and after a     *)
(* power cut within settings_save its first entries with the defaults       *)
(* behind them, wherever in the sector the cut came; emul_start makes no    *)
(* attempt too many; every variable has its type.                           *)
THEOREM DeviceCorrect == Spec => []DeviceInv
<1>1. DeviceShape => DeviceInv
  <2> SUFFICES ASSUME DeviceShape PROVE DeviceInv
    OBVIOUS
  <2>1. /\ BootTypes /\ SettingsTypes /\ FlashShape /\ LoadsLastSave
        /\ WifiTypes /\ attempt \in 0..MaxAttempts
    BY DEF DeviceShape, SettingsShape, AttemptShape
  <2>2. \A p \in Pages : flash[p] = Blank \/ flash[p] \in [Entries -> 0..MaxEdits]
    BY <2>1, SectorTypes
  <2>3. TypeOK
    BY <2>1, <2>2 DEF TypeOK, BootTypes, SettingsTypes, WifiTypes, Values, Places
  <2> QED BY <2>1, <2>3 DEF DeviceInv
<1> QED BY <1>1, DeviceShapeInvariant, PTL

(* network_safePoll: when the poll is over, an associated chip does not     *)
(* save power, however often the link went and came within it.              *)
THEOREM PowerSaveStaysOff == Spec => []PowerSaveOff
<1>1. Init => PowerShape
  BY DEF Init, PowerShape
<1>2. WifiTypes /\ PowerShape /\ [Next]_vars => PowerShape'
  <2> SUFFICES ASSUME WifiTypes, PowerShape, [Next]_vars PROVE PowerShape'
    OBVIOUS
  <2> USE DEF PowerShape, Polling
  <2>1. CASE GconfigInit \/ AconfigInit \/ Erase \/ Program
    BY <2>1 DEF GconfigInit, AconfigInit, Erase, Program, wifiVars, chipVars
  <2>2. CASE WifiInit
    BY <2>2 DEF WifiInit
  <2>3. CASE Connect
    BY <2>3 DEF Connect
  <2>4. CASE CheckStatus
    BY <2>4 DEF CheckStatus, chipVars
  <2>5. CASE WaitOver \/ LoopPoll
    BY <2>5 DEF WaitOver, LoopPoll, wifiVars, chipVars
  <2>6. CASE WaitPolled \/ LoopPolled
    BY <2>6 DEF WaitPolled, LoopPolled, ApplyPm
  <2>7. CASE DeadlinePasses
    BY <2>7 DEF DeadlinePasses, chipVars
  <2>8. CASE Callback
    BY <2>8 DEF Callback, LinkUp, LinkDown, Leased, LeaseLost
  <2>9. CASE \/ ToBooster
             \/ \E i \in Edited : Edit(i)
    BY <2>9 DEF ToBooster, Edit, wifiVars, chipVars
  <2>10. CASE PowerCut \/ BoosterLaunches
    BY <2>10 DEF PowerCut, BoosterLaunches, Restart, WifiOff
  <2>11. CASE UNCHANGED vars
    BY <2>11 DEF vars, wifiVars, chipVars
  <2> QED BY <2>1, <2>2, <2>3, <2>4, <2>5, <2>6, <2>7, <2>8, <2>9, <2>10, <2>11
          DEF Next, Boot, MainLoop
<1>3. PowerShape => PowerSaveOff
  BY DEF PowerShape, PowerSaveOff
<1>4. DeviceShape => WifiTypes
  BY DEF DeviceShape
<1> QED BY <1>1, <1>2, <1>3, <1>4, DeviceShapeInvariant, PTL DEF Spec

(* network_getCurrentIp: a leased address is never that of a link that is   *)
(* gone.                                                                    *)
THEOREM LeasedIpMeansLink == Spec => []IpMeansLink
<1>1. Init => IpMeansLink
  BY DEF Init, IpMeansLink
<1>2. BootTypes /\ IpMeansLink /\ [Next]_vars => IpMeansLink'
  <2> SUFFICES ASSUME BootTypes, IpMeansLink, [Next]_vars PROVE IpMeansLink'
    OBVIOUS
  <2> USE DEF IpMeansLink, gconfVars
  <2>1. CASE GconfigInit \/ AconfigInit \/ Erase \/ Program
    BY <2>1 DEF GconfigInit, AconfigInit, Erase, Program, wifiVars, chipVars
  <2>2. CASE WifiInit
    BY <2>2 DEF WifiInit
  <2>3. CASE Connect
    BY <2>3 DEF Connect, BootTypes
  <2>4. CASE CheckStatus
    BY <2>4 DEF CheckStatus, chipVars
  <2>5. CASE WaitOver \/ LoopPoll
    BY <2>5 DEF WaitOver, LoopPoll, wifiVars, chipVars
  <2>6. CASE WaitPolled \/ LoopPolled
    BY <2>6 DEF WaitPolled, LoopPolled
  <2>7. CASE DeadlinePasses
    BY <2>7 DEF DeadlinePasses, chipVars
  <2>8. CASE Callback
    BY <2>8 DEF Callback, LinkUp, LinkDown, Leased, LeaseLost
  <2>9. CASE \/ ToBooster
             \/ \E i \in Edited : Edit(i)
    BY <2>9 DEF ToBooster, Edit, wifiVars, chipVars
  <2>10. CASE PowerCut \/ BoosterLaunches
    BY <2>10 DEF PowerCut, BoosterLaunches, Restart, WifiOff
  <2>11. CASE UNCHANGED vars
    BY <2>11 DEF vars, wifiVars, chipVars
  <2> QED BY <2>1, <2>2, <2>3, <2>4, <2>5, <2>6, <2>7, <2>8, <2>9, <2>10, <2>11
          DEF Next, Boot, MainLoop
<1>3. DeviceShape => BootTypes
  BY DEF DeviceShape, SettingsShape
<1> QED BY <1>1, <1>2, <1>3, DeviceShapeInvariant, PTL DEF Spec

===============================================================================
