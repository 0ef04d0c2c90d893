---------------------------- MODULE SettingsFlash ----------------------------
(***************************************************************************)
(* What rp/src/settings/settings.c finds in the flash sector of the app's  *)
(* settings.  The sector holds the entries one behind the other, the       *)
(* MAGICVERSION entry first, in the order of the defaults (aconfig.c).  It *)
(* is programmed page by page, and a page that is not (yet) programmed     *)
(* reads 0xFF.  An entry's value is abstracted to a number, 0 for the      *)
(* default; a page to the configuration it was programmed from.            *)
(***************************************************************************)
EXTENDS Naturals

CONSTANTS NEntries,   \* entries, MAGICVERSION included
          EntryBytes, \* sizeof(SettingsConfigEntry)
          KeyBytes,   \* offset of its value: the key and the type
          PageBytes   \* the unit in which the flash is programmed

(* No page ends within a value: the part of an entry that is missing       *)
(* always begins in its key or its type, which are checked.                *)
ASSUME SettingsFlashAssumption ==
  /\ {NEntries, EntryBytes, KeyBytes, PageBytes} \subseteq Nat \ {0}
  /\ KeyBytes < EntryBytes /\ EntryBytes <= PageBytes
  /\ \A p \in 1..NEntries : (p * PageBytes) % EntryBytes < KeyBytes

Entries == 0..(NEntries - 1)
NPages == (NEntries * EntryBytes + PageBytes - 1) \div PageBytes
Pages == 0..(NPages - 1)
Default == [i \in Entries |-> 0]
Blank == [i \in {} |-> 0]
Erased == [p \in Pages |-> Blank]

FirstPage(i) == (i * EntryBytes) \div PageBytes
LastPage(i) == (i * EntryBytes + EntryBytes - 1) \div PageBytes

(* An entry whose key and type pass checkKeyFormat and checkTypeFormat. *)
Readable(flash, i) == \A p \in FirstPage(i)..LastPage(i) : flash[p] # Blank

(* settingsLoadAllEntries: without the magic value the defaults, else each *)
(* entry up to the first that does not pass.                               *)
HasMagic(flash) == Readable(flash, 0)
LoadedOneShort(flash) ==
  [i \in Entries |->
     IF \A j \in 0..(i + 1) : j < NEntries /\ Readable(flash, j)
     THEN flash[LastPage(i)][i] ELSE 0]

Loaded(flash) ==
  [i \in Entries |->
     IF \A j \in 0..i : Readable(flash, j) THEN flash[LastPage(i)][i] ELSE 0]
=============================================================================
