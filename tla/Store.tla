--------------------------------- MODULE Store ---------------------------------
(***************************************************************************)
(* What the flash keeps: the stored networks (net_config.cpp), the stored  *)
(* texts (memory_store.cpp) and the settings, and the operations of        *)
(* loop() that save them: the keyboard's, the web page's and WifiMgr's.    *)
(*                                                                         *)
(* A save is a sequence of writes, one key after another.  The power may   *)
(* be cut between any two, and a namespace may fail to open for writing;   *)
(* one that fails to open for reading is empty.  The flash writes one key  *)
(* whole or not at all.  Only loop() saves, so no two saves overlap.       *)
(*                                                                         *)
(* Of the settings, one number stands for wpm, freq and vol, and one flag  *)
(* for keying, polarity and keytype.  The reserved addressing fields and   *)
(* the network slots past the first keep their defaults, for nothing       *)
(* writes them; netConfigClearAp() and memoryBankClear() have no caller.   *)
(***************************************************************************)
EXTENDS Integers, Sequences

CONSTANTS
  SlotKeys,  \* the keys of the slots, in their order
  Texts,     \* the texts of a slot
  Ssids,     \* the networks in reach
  Passes,    \* the passphrases that are typed
  Numbers,   \* the values of a number that the web page sends
  Low, High, \* the least and the greatest value the model takes
  MaxFaults, \* bound: power cuts and failures to open
  MaxSaves   \* bound: operations

Empty == ""   \* an empty text, name or passphrase

NetKeys == {"n", "ssid", "pass", "mode", "ap_pass"}
SettingKeys == {"number", "flag"}
Slots == {SlotKeys[i] : i \in DOMAIN SlotKeys}
Keys == NetKeys \union SettingKeys \union Slots

ASSUME SlotsType ==
  /\ SlotKeys \in Seq(Slots)
  /\ \A i, j \in DOMAIN SlotKeys : SlotKeys[i] = SlotKeys[j] => i = j
  /\ Slots \intersect (NetKeys \union SettingKeys) = {}

ASSUME StoreBounds ==
  /\ Empty \in Texts /\ Empty \in Passes /\ Empty \notin Ssids
  /\ Numbers \subseteq Int /\ Low \in Int /\ High \in Int /\ Low <= High
  /\ {MaxFaults, MaxSaves} \subseteq Nat

VARIABLES
  flash,  \* the keys and their values, without those that are absent
  on,     \* the device is powered and has booted
  bank,   \* MorseModel::_memory
  model,  \* MorseModel: the settings in force
  wifi,   \* WifiMgr: s_mode, s_ssid, s_pass
  job,    \* the writes that the save under way has left, as <<key, value>>
  mine,   \* history: the keys that this save is about
  asked,  \* history: what the operator last asked to be stored
  torn,   \* history: the keys whose last save was cut short or failed to open
  owed,   \* history: the texts of this session that are not in the flash
  dirty,  \* history: the settings that were changed and not saved
  faults,
  saves

ram == <<bank, model, wifi>>
bounds == <<faults, saves>>
vars == <<flash, on, ram, job, mine, asked, torn, owed, dirty, bounds>>

\* What a key reads as; an absent one has its default.
Default ==
  [k \in Keys |->
     CASE k = "n" -> 0
       [] k = "mode" -> "station"
       [] k = "number" -> Low
       [] k = "flag" -> FALSE
       [] OTHER -> Empty]

Stored(k) == IF k \in DOMAIN flash THEN flash[k] ELSE Default[k]

Clamp(x) == IF x < Low THEN Low ELSE IF x > High THEN High ELSE x

\* The setters of the model.
InForce(k, v) == IF k = "number" THEN Clamp(v) ELSE v

\* netConfigLoad() and WifiMgr::begin().
Begun ==
  IF Stored("mode") = "ap"
  THEN [mode |-> "ap", ssid |-> Empty, pass |-> Stored("ap_pass")]
  ELSE IF Stored("n") > 0 /\ Stored("ssid") # Empty
  THEN [mode |-> "station", ssid |-> Stored("ssid"), pass |-> Stored("pass")]
  ELSE [mode |-> "station", ssid |-> Empty, pass |-> Empty]

\* memoryBankLoad().
BankLoad == [s \in Slots |-> Stored(s)]

Init ==
  /\ flash = [k \in {} |-> Empty]
  /\ on = TRUE
  /\ bank = [s \in Slots |-> Empty]
  /\ model = [k \in SettingKeys |-> Default[k]]
  /\ wifi = [mode |-> "station", ssid |-> Empty, pass |-> Empty]
  /\ job = <<>>
  /\ mine = {}
  /\ asked = Default
  /\ torn = {}
  /\ owed = {}
  /\ dirty = {}
  /\ faults = 0
  /\ saves = 0

-----------------------------------------------------------------------------
(* Saving.                                                                 *)

\* loop() is between two operations.
Free == on /\ job = <<>> /\ saves < MaxSaves

\* The save of some writes begins; those of the keys in about carry what the
\* operator asks for, the others what was loaded.
Open(writes, about) ==
  /\ job' = writes
  /\ mine' = about
  /\ UNCHANGED faults

\* The namespace does not open: the operation goes on without the save.
FailsToOpen(about) ==
  /\ faults < MaxFaults
  /\ faults' = faults + 1
  /\ torn' = torn \union about
  /\ UNCHANGED <<job, mine>>

Asks(values) == asked' = [k \in Keys |-> IF k \in DOMAIN values THEN values[k] ELSE asked[k]]

\* A save that leaves all else as it is in the flash.
Save(writes, values) ==
  /\ Free
  /\ saves' = saves + 1
  /\ Asks(values)
  /\ \/ Open(writes, DOMAIN values) /\ UNCHANGED torn
     \/ FailsToOpen(DOMAIN values)
  /\ UNCHANGED <<flash, on>>

\* Fault: the passphrase is written before the name.
NetConfigSavePassFirst(cfg) ==
  <<<<"n", cfg.n>>, <<"pass", cfg.pass>>, <<"ssid", cfg.ssid>>,
    <<"mode", cfg.mode>>, <<"ap_pass", cfg.ap_pass>>>>

\* The writes of netConfigSave(), in their order.
NetConfigSave(cfg) ==
  (IF cfg.n > 0
   THEN <<<<"n", cfg.n>>, <<"ssid", cfg.ssid>>, <<"pass", cfg.pass>>>>
   ELSE <<<<"n", cfg.n>>>>)
    \o <<<<"mode", cfg.mode>>, <<"ap_pass", cfg.ap_pass>>>>

NetConfigLoad ==
  [n |-> Stored("n"), ssid |-> Stored("ssid"), pass |-> Stored("pass"),
   mode |-> Stored("mode"), ap_pass |-> Stored("ap_pass")]

\* Fault: what is not about the new network is not loaded first.
NetConfigSaveSingleFresh(ssid, pass) ==
  NetConfigSave([n |-> 1, ssid |-> ssid, pass |-> pass, mode |-> "station",
                 ap_pass |-> Empty])

NetConfigSaveSingle(ssid, pass) ==
  NetConfigSave([NetConfigLoad EXCEPT !.n = 1, !.ssid = ssid, !.pass = pass])

NetConfigSaveAp(pass) ==
  NetConfigSave([NetConfigLoad EXCEPT !.ap_pass = pass, !.mode = "ap"])

\* connect(): the credentials are saved before they are tried.
Connect ==
  \E ssid \in Ssids, pass \in Passes :
    /\ Save(NetConfigSaveSingle(ssid, pass), [n |-> 1, ssid |-> ssid, pass |-> pass])
    /\ wifi' = [wifi EXCEPT !.ssid = ssid, !.pass = pass]
    /\ UNCHANGED <<bank, model, owed, dirty>>

\* startAp(), whose access point may fail to start.
StartAp ==
  \E pass \in Passes, mode \in {wifi.mode, "ap"} :
    /\ Save(NetConfigSaveAp(pass), [ap_pass |-> pass, mode |-> "ap"])
    /\ wifi' = [wifi EXCEPT !.pass = pass, !.mode = mode]
    /\ UNCHANGED <<bank, model, owed, dirty>>

\* disconnectAndForget(): netConfigClear() erases the namespace at once, and no
\* one looks whether it could.
Forget ==
  /\ Free
  /\ wifi.mode = "station"
  /\ saves' = saves + 1
  /\ wifi' = [wifi EXCEPT !.ssid = Empty, !.pass = Empty]
  /\ Asks([k \in NetKeys |-> Default[k]])
  /\ \/ /\ flash' = [k \in DOMAIN flash \ NetKeys |-> flash[k]]
        /\ torn' = torn \ NetKeys
        /\ UNCHANGED <<job, mine, faults>>
     \/ FailsToOpen(NetKeys) /\ UNCHANGED flash
  /\ UNCHANGED <<on, bank, model, owed, dirty>>

\* memoryBankSave(): every slot.
MemoryBankSave(b) ==
  [i \in 1 .. Len(SlotKeys) |-> <<SlotKeys[i], b[SlotKeys[i]]>>]

\* A bank that is saved, the edit of a slot in it; the edits that were not saved
\* before and are still in it go with it.
SaveBank(b, about) ==
  /\ Save(MemoryBankSave(b), [s \in about |-> b[s]])
  /\ owed' = IF faults' > faults THEN about ELSE {}
  /\ bank' = b
  /\ UNCHANGED <<model, wifi, dirty>>

\* Enter in the editor, x in the picker: the model's bank is saved.
EditMemory ==
  \E s \in Slots, t \in Texts : SaveBank([bank EXCEPT ![s] = t], owed \union {s})

\* Fault: the model's bank keeps what the flash does not have.
WebBankKept(s, t) == [bank EXCEPT ![s] = t]

\* The bank that the web page's edit makes: the stored one, with the edit.
WebBank(s, t) == [BankLoad EXCEPT ![s] = t]

\* /api/memory: the stored bank replaces the model's, and an edit that was not
\* saved is gone from both.
WebMemory ==
  \E s \in Slots, t \in Texts : SaveBank(WebBank(s, t), {s})

-----------------------------------------------------------------------------
(* The settings.                                                           *)

Values(k) == IF k = "flag" THEN BOOLEAN ELSE Numbers

\* The keys, a host of the WinKeyer: in force, and not saved.
Adjust ==
  /\ Free
  /\ saves' = saves + 1
  /\ \E k \in SettingKeys : \E v \in Values(k) :
       /\ model' = [model EXCEPT ![k] = InForce(k, v)]
       /\ dirty' = dirty \union {k}
  /\ UNCHANGED <<flash, on, bank, wifi, job, mine, asked, torn, owed, faults>>

\* The setting that a screen's Enter writes, and the web page.
Persist(k, v) ==
  /\ Save(<<<<k, v>>>>, [x \in {k} |-> v])
  /\ model' = [model EXCEPT ![k] = InForce(k, v)]
  /\ dirty' = IF faults' > faults THEN dirty \union {k} ELSE dirty \ {k}
  /\ UNCHANGED <<bank, wifi, owed>>

\* Enter on a settings screen saves what is in force.
SaveSetting == \E k \in SettingKeys : Persist(k, model[k])

\* /api/settings saves what it was sent, also when the model clamped it.
WebSettings ==
  \E k \in SettingKeys : \E v \in Values(k) : Persist(k, v)

-----------------------------------------------------------------------------
(* The flash and the power.                                                *)

\* The next key is written.
Put ==
  /\ on
  /\ job # <<>>
  /\ LET k == job[1][1] IN
       /\ flash' = [x \in DOMAIN flash \union {k} |-> IF x = k THEN job[1][2] ELSE flash[x]]
       /\ torn' = torn \ ({k} \intersect mine)
       /\ mine' = mine \ {k}
  /\ job' = Tail(job)
  /\ UNCHANGED <<on, ram, asked, owed, dirty, bounds>>

\* The power is cut: the writes that are left are lost.
Cut ==
  /\ on
  /\ faults < MaxFaults
  /\ faults' = faults + 1
  /\ on' = FALSE
  /\ torn' = torn \union mine
  /\ job' = <<>>
  /\ mine' = {}
  /\ UNCHANGED <<flash, ram, asked, owed, dirty, saves>>

LoadSetting(k) == InForce(k, Stored(k))

\* setup(): all is loaded, and what was not saved is gone.
Boot ==
  /\ ~on
  /\ on' = TRUE
  /\ bank' = BankLoad
  /\ model' = [k \in SettingKeys |-> LoadSetting(k)]
  /\ wifi' = Begun
  /\ owed' = {}
  /\ dirty' = {}
  /\ UNCHANGED <<flash, job, mine, asked, torn, bounds>>

Next ==
  \/ Connect \/ StartAp \/ Forget
  \/ EditMemory \/ WebMemory
  \/ Adjust \/ SaveSetting \/ WebSettings
  \/ Put \/ Cut \/ Boot

Spec == Init /\ [][Next]_vars

-----------------------------------------------------------------------------
(* Properties.                                                             *)

\* Every variable has its type: proved in StoreProofs.
TypeOK ==
  /\ DOMAIN flash \subseteq Keys
  /\ bank \in [Slots -> Texts]
  /\ model.number \in Low .. High /\ model.flag \in BOOLEAN
  /\ wifi \in [mode : {"station", "ap"}, ssid : Ssids \union {Empty}, pass : Passes]
  /\ mine \subseteq Keys /\ torn \subseteq Keys
  /\ owed \subseteq Slots /\ dirty \subseteq SettingKeys

\* A save touches what it is about and nothing else, wherever the power is cut:
\* the flash holds what the operator last asked for, except under the keys of the
\* save under way and those whose own last save was cut short.  Storing a network
\* keeps the access point's passphrase, editing a text the other texts
\* (net_config.cpp:114-118, main.cpp:621-623).
SavedAsAsked ==
  \A k \in Keys \ (torn \union mine) : Stored(k) = asked[k]

\* A passphrase is never stored under the name of the network it replaces: a cut
\* leaves the old pair, the new one, or the new name with the old passphrase.
NameBeforePass == "ssid" \in torn \union mine => "pass" \in torn \union mine

\* What is in force is what a reboot would find, but for the texts that were not
\* saved and the settings that were only adjusted.
RebootChangesNothing ==
  on /\ job = <<>> =>
    /\ \A s \in Slots \ owed : bank[s] = Stored(s)
    /\ \A k \in SettingKeys \ dirty : model[k] = InForce(k, Stored(k))
    /\ wifi.ssid # Empty /\ {"n", "ssid"} \intersect torn = {} =>
         Stored("n") > 0 /\ wifi.ssid = Stored("ssid")
=============================================================================
