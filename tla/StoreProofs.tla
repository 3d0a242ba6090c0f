------------------------------ MODULE StoreProofs ------------------------------
(***************************************************************************)
(* What the flash promises, for every set of slots, texts, networks and    *)
(* values, and any number of cuts.  The invariant has four parts: the      *)
(* types (TypeInv), what the writes of the save under way carry (JobInv),  *)
(* the order of the name and the passphrase (OrderInv), and what is in     *)
(* force compared with what the flash will hold once that save is through  *)
(* (KeptInv).                                                              *)
(***************************************************************************)
EXTENDS Store, TLAPS

\* What a key may be stored as.
ValuesOf(k) ==
  IF k = "n" THEN Nat
  ELSE IF k = "mode" THEN {"station", "ap"}
  ELSE IF k = "number" THEN Int
  ELSE IF k = "flag" THEN BOOLEAN
  ELSE IF k = "ssid" THEN Ssids \union {Empty}
  ELSE IF k \in Slots THEN Texts
  ELSE Passes

Vals == UNION {ValuesOf(k) : k \in Keys}

\* Writes are of keys of the flash, each with a value of its own kind, and no
\* key is written twice.
WellTyped(writes) ==
  /\ writes \in Seq(Keys \X Vals)
  /\ \A i \in DOMAIN writes : writes[i][2] \in ValuesOf(writes[i][1])

Distinct(writes) ==
  \A i, j \in DOMAIN writes : writes[i][1] = writes[j][1] => i = j

Written(k, writes) == \E i \in DOMAIN writes : writes[i][1] = k

NameFirst(writes) ==
  \A i, j \in DOMAIN writes : writes[i][1] = "ssid" /\ writes[j][1] = "pass" => i < j

Only(writes, S) == \A i \in DOMAIN writes : writes[i][1] \in S

TypeInv ==
  /\ DOMAIN flash \subseteq Keys
  /\ \A k \in DOMAIN flash : flash[k] \in ValuesOf(k)
  /\ on \in BOOLEAN
  /\ bank \in [Slots -> Texts]
  /\ model \in [SettingKeys -> Int \union BOOLEAN]
  /\ model["number"] \in Low .. High /\ model["flag"] \in BOOLEAN
  /\ wifi \in [mode : {"station", "ap"}, ssid : Ssids \union {Empty}, pass : Passes]
  /\ WellTyped(job)
  /\ asked \in [Keys -> Vals]
  /\ mine \subseteq Keys /\ torn \subseteq Keys
  /\ owed \subseteq Slots /\ dirty \subseteq SettingKeys
  /\ faults \in Nat /\ saves \in Nat

\* A write that is about its key carries what was asked, another what is there.
JobInv ==
  /\ Distinct(job)
  /\ \A k \in mine : Written(k, job)
  /\ \A i \in DOMAIN job :
       job[i][2] = IF job[i][1] \in mine THEN asked[job[i][1]] ELSE Stored(job[i][1])
  /\ ~on => job = <<>>

OrderInv ==
  /\ NameFirst(job)
  /\ "ssid" \in mine => "pass" \in mine
  /\ "pass" \in mine /\ "ssid" \in torn => "ssid" \in mine

KeptInv ==
  on =>
    /\ \A s \in Slots \ owed :
         /\ \A i \in DOMAIN job : job[i][1] = s => job[i][2] = bank[s]
         /\ ~Written(s, job) => Stored(s) = bank[s]
    /\ \A k \in SettingKeys \ dirty :
         /\ \A i \in DOMAIN job : job[i][1] = k => model[k] = InForce(k, job[i][2])
         /\ ~Written(k, job) => model[k] = InForce(k, Stored(k))
    /\ wifi.ssid # Empty /\ {"n", "ssid"} \intersect (torn \ mine) = {} =>
         asked["n"] > 0 /\ wifi.ssid = asked["ssid"]

Inv ==
  /\ TypeInv /\ JobInv /\ OrderInv /\ KeptInv
  /\ SavedAsAsked /\ NameBeforePass

-----------------------------------------------------------------------------
(* The writes of each save.                                                *)

\* The kinds of keys have nothing in common.
LEMMA KeysApart ==
  /\ NetKeys \subseteq Keys /\ SettingKeys \subseteq Keys /\ Slots \subseteq Keys
  /\ NetKeys \intersect SettingKeys = {}
  /\ Slots \intersect (NetKeys \union SettingKeys) = {}
  /\ \A k \in Keys : ValuesOf(k) \subseteq Vals
BY SlotsType DEF Keys, NetKeys, SettingKeys, Vals

LEMMA KindsOf ==
  /\ ValuesOf("n") = Nat /\ ValuesOf("mode") = {"station", "ap"}
  /\ ValuesOf("ssid") = Ssids \union {Empty}
  /\ ValuesOf("pass") = Passes /\ ValuesOf("ap_pass") = Passes
  /\ ValuesOf("number") = Int /\ ValuesOf("flag") = BOOLEAN
  /\ \A s \in Slots : ValuesOf(s) = Texts
BY KeysApart DEF ValuesOf, NetKeys, SettingKeys

\* What is read from the flash has the kind of its key, present or not.
LEMMA StoredTyped ==
  ASSUME TypeInv, NEW k \in Keys PROVE Stored(k) \in ValuesOf(k)
<1>1. CASE k \in DOMAIN flash  BY <1>1 DEF Stored, TypeInv
<1>2. CASE k \notin DOMAIN flash
  <2>1. Stored(k) = Default[k]  BY <1>2 DEF Stored
  <2>2. CASE k = "n"  BY <2>1, <2>2, KindsOf DEF Default
  <2>3. CASE k = "mode"  BY <2>1, <2>3, KindsOf DEF Default
  <2>4. CASE k = "number"  BY <2>1, <2>4, KindsOf, StoreBounds DEF Default
  <2>5. CASE k = "flag"  BY <2>1, <2>5, KindsOf DEF Default
  <2>6. CASE k \notin {"n", "mode", "number", "flag"}
    <3>1. Stored(k) = Empty  BY <2>1, <2>6 DEF Default
    <3>2. QED  BY <3>1, <2>6, StoreBounds DEF ValuesOf
  <2>7. QED  BY <2>2, <2>3, <2>4, <2>5, <2>6
<1>3. QED  BY <1>1, <1>2

LEMMA ClampTyped ==
  ASSUME NEW x \in Int PROVE Clamp(x) \in Low .. High
BY StoreBounds DEF Clamp

LEMMA InForceTyped ==
  /\ \A v \in Int : InForce("number", v) \in Low .. High
  /\ \A v \in BOOLEAN : InForce("flag", v) \in BOOLEAN
BY ClampTyped DEF InForce

\* What a save is made of: writes that carry the values it is about, and the
\* stored values under the other keys.
Made(writes, values) ==
  /\ WellTyped(writes) /\ Distinct(writes) /\ NameFirst(writes)
  /\ \A k \in DOMAIN values : Written(k, writes)
  /\ \A i \in DOMAIN writes :
       writes[i][2] = IF writes[i][1] \in DOMAIN values THEN values[writes[i][1]]
                      ELSE Stored(writes[i][1])
  /\ "ssid" \in DOMAIN values <=> "pass" \in DOMAIN values

\* The writes of a configuration, one by one.
NetWrites(w, cfg) ==
  /\ w \in Seq(Keys \X Vals)
  /\ cfg.n > 0 => Len(w) = 5 /\ w[1] = <<"n", cfg.n>> /\ w[2] = <<"ssid", cfg.ssid>>
                    /\ w[3] = <<"pass", cfg.pass>> /\ w[4] = <<"mode", cfg.mode>>
                    /\ w[5] = <<"ap_pass", cfg.ap_pass>>
  /\ ~(cfg.n > 0) => Len(w) = 3 /\ w[1] = <<"n", cfg.n>> /\ w[2] = <<"mode", cfg.mode>>
                    /\ w[3] = <<"ap_pass", cfg.ap_pass>>

Cfgs == [n : Nat, ssid : Ssids \union {Empty}, pass : Passes,
         mode : {"station", "ap"}, ap_pass : Passes]

LEMMA NetWritesAre ==
  ASSUME NEW cfg \in Cfgs PROVE NetWrites(NetConfigSave(cfg), cfg)
<1> DEFINE E == Keys \X Vals
<1>1. /\ <<"n", cfg.n>> \in E /\ <<"ssid", cfg.ssid>> \in E /\ <<"pass", cfg.pass>> \in E
      /\ <<"mode", cfg.mode>> \in E /\ <<"ap_pass", cfg.ap_pass>> \in E
  <2>1. {"n", "ssid", "pass", "mode", "ap_pass"} \subseteq Keys  BY DEF Keys, NetKeys
  <2>2. /\ cfg.n \in Vals /\ cfg.ssid \in Vals /\ cfg.pass \in Vals
        /\ cfg.mode \in Vals /\ cfg.ap_pass \in Vals
    BY <2>1, KeysApart, KindsOf DEF Cfgs
  <2>3. QED  BY <2>1, <2>2
<1> DEFINE tail == <<<<"mode", cfg.mode>>, <<"ap_pass", cfg.ap_pass>>>>
           long == <<<<"n", cfg.n>>, <<"ssid", cfg.ssid>>, <<"pass", cfg.pass>>>>
           short == <<<<"n", cfg.n>>>>
<1> HIDE DEF E
<1>2. tail \in Seq(E) /\ long \in Seq(E) /\ short \in Seq(E)  BY <1>1
<1>3. CASE cfg.n > 0
  <2>1. NetConfigSave(cfg) = long \o tail  BY <1>3 DEF NetConfigSave
  <2>2. /\ long \o tail \in Seq(E)
        /\ Len(long \o tail) = 5
        /\ \A i \in 1 .. 5 : (long \o tail)[i] = IF i <= 3 THEN long[i] ELSE tail[i - 3]
    BY <1>2
  <2>3. QED  BY <2>1, <2>2, <1>3 DEF NetWrites, E
<1>4. CASE ~(cfg.n > 0)
  <2>1. NetConfigSave(cfg) = short \o tail  BY <1>4 DEF NetConfigSave
  <2>2. /\ short \o tail \in Seq(E)
        /\ Len(short \o tail) = 3
        /\ \A i \in 1 .. 3 : (short \o tail)[i] = IF i <= 1 THEN short[i] ELSE tail[i - 1]
    BY <1>2
  <2>3. QED  BY <2>1, <2>2, <1>4 DEF NetWrites, E
<1>5. QED  BY <1>3, <1>4

\* Writes of a configuration that carries the asked values and, elsewhere, the
\* stored ones, make a save.
LEMMA NetMade ==
  ASSUME TypeInv, NEW cfg \in Cfgs, NEW values,
         DOMAIN values \subseteq NetKeys,
         cfg.n = IF "n" \in DOMAIN values THEN values["n"] ELSE Stored("n"),
         cfg.ssid = IF "ssid" \in DOMAIN values THEN values["ssid"] ELSE Stored("ssid"),
         cfg.pass = IF "pass" \in DOMAIN values THEN values["pass"] ELSE Stored("pass"),
         cfg.mode = IF "mode" \in DOMAIN values THEN values["mode"] ELSE Stored("mode"),
         cfg.ap_pass = IF "ap_pass" \in DOMAIN values THEN values["ap_pass"]
                       ELSE Stored("ap_pass"),
         "ssid" \in DOMAIN values <=> "pass" \in DOMAIN values,
         "ssid" \in DOMAIN values => cfg.n > 0
  PROVE  Made(NetConfigSave(cfg), values) /\ Only(NetConfigSave(cfg), NetKeys)
<1> DEFINE w == NetConfigSave(cfg)
<1>1. NetWrites(w, cfg)  BY NetWritesAre
<1> HIDE DEF w
<1>2. CASE cfg.n > 0
  <2>1. /\ w \in Seq(Keys \X Vals) /\ Len(w) = 5 /\ DOMAIN w = 1 .. 5
        /\ w[1] = <<"n", cfg.n>> /\ w[2] = <<"ssid", cfg.ssid>>
        /\ w[3] = <<"pass", cfg.pass>> /\ w[4] = <<"mode", cfg.mode>>
        /\ w[5] = <<"ap_pass", cfg.ap_pass>>
    BY <1>1, <1>2 DEF NetWrites
  <2>2. WellTyped(w)  BY <2>1, KindsOf DEF WellTyped, Cfgs
  <2>3. Distinct(w) /\ NameFirst(w)  BY <2>1 DEF Distinct, NameFirst
  <2>4. \A k \in NetKeys : Written(k, w)  BY <2>1 DEF Written, NetKeys
  <2>5. \A i \in DOMAIN w :
          w[i][2] = IF w[i][1] \in DOMAIN values THEN values[w[i][1]] ELSE Stored(w[i][1])
    BY <2>1
  <2>6. Only(w, NetKeys)  BY <2>1 DEF Only, NetKeys
  <2>7. QED  BY <2>2, <2>3, <2>4, <2>5, <2>6 DEF Made, w
<1>3. CASE ~(cfg.n > 0)
  <2>1. /\ w \in Seq(Keys \X Vals) /\ Len(w) = 3 /\ DOMAIN w = 1 .. 3
        /\ w[1] = <<"n", cfg.n>> /\ w[2] = <<"mode", cfg.mode>>
        /\ w[3] = <<"ap_pass", cfg.ap_pass>>
    BY <1>1, <1>3 DEF NetWrites
  <2>2. WellTyped(w)  BY <2>1, KindsOf DEF WellTyped, Cfgs
  <2>3. Distinct(w) /\ NameFirst(w)  BY <2>1 DEF Distinct, NameFirst
  <2>4. \A k \in NetKeys \ {"ssid", "pass"} : Written(k, w)  BY <2>1 DEF Written, NetKeys
  <2>5. \A i \in DOMAIN w :
          w[i][2] = IF w[i][1] \in DOMAIN values THEN values[w[i][1]] ELSE Stored(w[i][1])
    BY <2>1
  <2>6. DOMAIN values \subseteq NetKeys \ {"ssid", "pass"}  BY <1>3
  <2>7. Only(w, NetKeys)  BY <2>1 DEF Only, NetKeys
  <2>8. QED  BY <2>2, <2>3, <2>4, <2>5, <2>6, <2>7 DEF Made, w
<1>4. QED  BY <1>2, <1>3

LEMMA LoadTyped ==
  ASSUME TypeInv PROVE NetConfigLoad \in Cfgs
<1>1. NetKeys \subseteq Keys  BY KeysApart
<1>2. /\ Stored("n") \in Nat /\ Stored("ssid") \in Ssids \union {Empty}
      /\ Stored("pass") \in Passes /\ Stored("mode") \in {"station", "ap"}
      /\ Stored("ap_pass") \in Passes
  BY <1>1, StoredTyped, KindsOf DEF NetKeys
<1>3. QED  BY <1>2 DEF NetConfigLoad, Cfgs

LEMMA SingleMade ==
  ASSUME TypeInv, NEW ssid \in Ssids, NEW pass \in Passes
  PROVE  /\ Made(NetConfigSaveSingle(ssid, pass), [n |-> 1, ssid |-> ssid, pass |-> pass])
         /\ Only(NetConfigSaveSingle(ssid, pass), NetKeys)
<1> DEFINE cfg == [NetConfigLoad EXCEPT !.n = 1, !.ssid = ssid, !.pass = pass]
           values == [n |-> 1, ssid |-> ssid, pass |-> pass]
<1>1. /\ cfg.n = 1 /\ cfg.ssid = ssid /\ cfg.pass = pass
      /\ cfg.mode = Stored("mode") /\ cfg.ap_pass = Stored("ap_pass")
      /\ cfg \in Cfgs
  BY LoadTyped DEF NetConfigLoad, Cfgs
<1>2. /\ DOMAIN values = {"n", "ssid", "pass"}
      /\ values["n"] = 1 /\ values["ssid"] = ssid /\ values["pass"] = pass
  OBVIOUS
<1>3. DOMAIN values \subseteq NetKeys  BY <1>2 DEF NetKeys
<1> HIDE DEF cfg, values
<1>4. Made(NetConfigSave(cfg), values) /\ Only(NetConfigSave(cfg), NetKeys)
  BY <1>1, <1>2, <1>3, NetMade
<1>5. QED  BY <1>4 DEF NetConfigSaveSingle, cfg, values

LEMMA ApMade ==
  ASSUME TypeInv, NEW pass \in Passes
  PROVE  /\ Made(NetConfigSaveAp(pass), [ap_pass |-> pass, mode |-> "ap"])
         /\ Only(NetConfigSaveAp(pass), NetKeys)
<1> DEFINE cfg == [NetConfigLoad EXCEPT !.ap_pass = pass, !.mode = "ap"]
           values == [ap_pass |-> pass, mode |-> "ap"]
<1>1. /\ cfg.n = Stored("n") /\ cfg.ssid = Stored("ssid") /\ cfg.pass = Stored("pass")
      /\ cfg.mode = "ap" /\ cfg.ap_pass = pass
      /\ cfg \in Cfgs
  BY LoadTyped DEF NetConfigLoad, Cfgs
<1>2. /\ DOMAIN values = {"ap_pass", "mode"}
      /\ values["ap_pass"] = pass /\ values["mode"] = "ap"
  OBVIOUS
<1>3. DOMAIN values \subseteq NetKeys  BY <1>2 DEF NetKeys
<1> HIDE DEF cfg, values
<1>4. Made(NetConfigSave(cfg), values) /\ Only(NetConfigSave(cfg), NetKeys)
  BY <1>1, <1>2, <1>3, NetMade
<1>5. QED  BY <1>4 DEF NetConfigSaveAp, cfg, values

\* A bank is written slot by slot; a slot that the save is not about must hold
\* what the flash has.
LEMMA BankMade ==
  ASSUME TypeInv, NEW b \in [Slots -> Texts], NEW about \in SUBSET Slots,
         \A s \in Slots \ about : b[s] = Stored(s)
  PROVE  /\ Made(MemoryBankSave(b), [s \in about |-> b[s]])
         /\ \A i \in DOMAIN MemoryBankSave(b) :
              LET e == MemoryBankSave(b)[i] IN e[1] \in Slots /\ e[2] = b[e[1]]
<1> DEFINE w == MemoryBankSave(b)  values == [s \in about |-> b[s]]
<1>1. SlotKeys \in Seq(Slots) /\ DOMAIN SlotKeys = 1 .. Len(SlotKeys) /\ Len(SlotKeys) \in Nat
  BY SlotsType
<1>2. /\ DOMAIN w = 1 .. Len(SlotKeys)
      /\ \A i \in DOMAIN w :
           /\ SlotKeys[i] \in Slots
           /\ w[i] = <<SlotKeys[i], b[SlotKeys[i]]>>
           /\ w[i][1] = SlotKeys[i] /\ w[i][2] = b[SlotKeys[i]]
  <2>1. w = [i \in 1 .. Len(SlotKeys) |-> <<SlotKeys[i], b[SlotKeys[i]]>>]
    BY DEF MemoryBankSave
  <2>2. \A i \in 1 .. Len(SlotKeys) : SlotKeys[i] \in Slots  BY <1>1
  <2> HIDE DEF w
  <2>3. QED  BY <2>1, <2>2
<1>3. \A s \in Slots : s \in Keys /\ b[s] \in Vals /\ b[s] \in ValuesOf(s)
  BY KeysApart, KindsOf
<1>4. w \in Seq(Keys \X Vals)
  <2> DEFINE E == Keys \X Vals  n == Len(SlotKeys)
  <2>1. w = [i \in 1 .. n |-> <<SlotKeys[i], b[SlotKeys[i]]>>]  BY DEF MemoryBankSave
  <2>2. \A i \in 1 .. n : <<SlotKeys[i], b[SlotKeys[i]]>> \in E  BY <1>1, <1>3
  <2>3. w \in [1 .. n -> E]  BY <2>1, <2>2
  <2> HIDE DEF E, w, n
  <2>4. n \in Nat  BY <1>1 DEF n
  <2>5. w \in Seq(E)  BY <2>3, <2>4
  <2>6. QED  BY <2>5 DEF E
<1> HIDE DEF w
<1>5. WellTyped(w)  BY <1>2, <1>3, <1>4 DEF WellTyped
<1>6. Distinct(w)  BY <1>1, <1>2, SlotsType DEF Distinct
<1>7. "ssid" \notin Slots /\ "pass" \notin Slots  BY KeysApart DEF NetKeys
<1>8. NameFirst(w)  BY <1>2, <1>7 DEF NameFirst
<1>9. DOMAIN values = about /\ \A s \in about : values[s] = b[s]  OBVIOUS
<1>10. \A k \in about : Written(k, w)
  <2>1. \A k \in Slots : \E i \in DOMAIN SlotKeys : SlotKeys[i] = k  BY DEF Slots
  <2>2. QED  BY <1>1, <1>2, <2>1 DEF Written
<1>11. \A i \in DOMAIN w :
         w[i][2] = IF w[i][1] \in DOMAIN values THEN values[w[i][1]] ELSE Stored(w[i][1])
  BY <1>2, <1>9
<1>12. "ssid" \notin about /\ "pass" \notin about  BY <1>7
<1> HIDE DEF values
<1>13. Made(w, values)  BY <1>5, <1>6, <1>8, <1>9, <1>10, <1>11, <1>12 DEF Made
<1>14. \A i \in DOMAIN w : w[i][1] \in Slots /\ w[i][2] = b[w[i][1]]  BY <1>2
<1>15. QED  BY <1>13, <1>14 DEF w, values

LEMMA SettingMade ==
  ASSUME TypeInv, NEW k \in SettingKeys, NEW v \in ValuesOf(k)
  PROVE  Made(<<<<k, v>>>>, [x \in {k} |-> v])
<1> DEFINE w == <<<<k, v>>>>  values == [x \in {k} |-> v]
<1>1. k \in Keys /\ v \in Vals /\ k # "ssid" /\ k # "pass"
  BY KeysApart DEF SettingKeys
<1>2. w \in Seq(Keys \X Vals) /\ DOMAIN w = {1} /\ w[1] = <<k, v>>
  BY <1>1
<1>3. DOMAIN values = {k} /\ values[k] = v  OBVIOUS
<1> HIDE DEF w, values
<1>4. WellTyped(w) /\ Distinct(w)  BY <1>2 DEF WellTyped, Distinct
<1>5. NameFirst(w)  BY <1>1, <1>2 DEF NameFirst
<1>6. Written(k, w)  BY <1>2 DEF Written
<1>7. QED  BY <1>1, <1>2, <1>3, <1>4, <1>5, <1>6 DEF Made, w, values

-----------------------------------------------------------------------------
(* A save that begins, or fails to.                                        *)

\* A save begins with all its writes to do, or does not begin.
LEMMA SaveDoes ==
  ASSUME Inv, NEW writes, NEW values, Save(writes, values)
  PROVE  /\ on /\ on' = on /\ job = <<>> /\ mine = {} /\ flash' = flash
         /\ saves' \in Nat /\ faults' \in Nat
         /\ asked' = [k \in Keys |-> IF k \in DOMAIN values THEN values[k] ELSE asked[k]]
         /\ \A k : Stored(k)' = Stored(k)
         /\ \/ /\ job' = writes /\ mine' = DOMAIN values /\ torn' = torn
               /\ ~(faults' > faults)
            \/ /\ job' = <<>> /\ mine' = {} /\ torn' = torn \union DOMAIN values
               /\ faults' > faults
<1>1. /\ on /\ job = <<>> /\ saves \in Nat /\ faults \in Nat /\ saves' = saves + 1
      /\ flash' = flash /\ on' = on
      /\ asked' = [k \in Keys |-> IF k \in DOMAIN values THEN values[k] ELSE asked[k]]
  BY DEF Save, Free, Asks, Inv, TypeInv
<1>2. mine = {}  BY <1>1 DEF Inv, JobInv, Written
<1>3. \/ job' = writes /\ mine' = DOMAIN values /\ torn' = torn /\ faults' = faults
      \/ /\ job' = job /\ mine' = mine /\ torn' = torn \union DOMAIN values
         /\ faults' = faults + 1
  BY DEF Save, Open, FailsToOpen
<1>4. \A k : Stored(k)' = Stored(k)  BY <1>1 DEF Stored
<1>5. QED  BY <1>1, <1>2, <1>3, <1>4

\* Whatever is saved, the operations that save differ only in what is in force.
LEMMA SaveKeeps ==
  ASSUME Inv, NEW writes, NEW values, Made(writes, values), Save(writes, values),
         DOMAIN values \subseteq Keys,
         \A k \in DOMAIN values : values[k] \in Vals
  PROVE  /\ WellTyped(job)' /\ asked' \in [Keys -> Vals]
         /\ mine' \subseteq Keys /\ torn' \subseteq Keys
         /\ JobInv' /\ OrderInv' /\ SavedAsAsked' /\ NameBeforePass'
<1> DEFINE about == DOMAIN values
<1>1. /\ on /\ on' = on /\ job = <<>> /\ mine = {}
      /\ \A k : Stored(k)' = Stored(k)
  BY SaveDoes
<1>2. /\ \A k \in about : asked'[k] = values[k]
      /\ \A k \in Keys \ about : asked'[k] = asked[k]
      /\ asked' \in [Keys -> Vals]
  BY SaveDoes DEF Inv, TypeInv
<1>3. "ssid" \in about <=> "pass" \in about  BY DEF Made
<1>4. CASE job' = writes /\ mine' = about /\ torn' = torn
  <2>1. WellTyped(job)' BY <1>4 DEF Made, WellTyped
  <2>2. JobInv'
    <3>1. Distinct(job)'  BY <1>4 DEF Made, Distinct
    <3>2. \A k \in mine' : Written(k, job)'  BY <1>4 DEF Made, Written
    <3>3. (\A i \in DOMAIN job :
             job[i][2] = IF job[i][1] \in mine THEN asked[job[i][1]] ELSE Stored(job[i][1]))'
      BY <1>1, <1>2, <1>4 DEF Made
    <3>4. QED  BY <3>1, <3>2, <3>3, <1>1 DEF JobInv
  <2>3. NameFirst(job)'  BY <1>4 DEF Made, NameFirst
  <2>4. OrderInv'  BY <2>3, <1>3, <1>4 DEF OrderInv
  <2>5. SavedAsAsked'  BY <1>1, <1>2, <1>4 DEF Inv, SavedAsAsked
  <2>6. NameBeforePass'  BY <1>1, <1>3, <1>4 DEF Inv, NameBeforePass
  <2>7. QED  BY <1>2, <1>4, <2>1, <2>2, <2>4, <2>5, <2>6 DEF Inv, TypeInv
<1>5. CASE job' = <<>> /\ mine' = {} /\ torn' = torn \union about
  <2>1. WellTyped(job)'  BY <1>1, <1>5 DEF Inv, TypeInv, WellTyped
  <2>2. Distinct(job)' /\ NameFirst(job)' /\ DOMAIN job' = {}
    BY <1>5 DEF Distinct, NameFirst
  <2>3. JobInv'  BY <2>2, <1>1, <1>5 DEF JobInv
  <2>4. OrderInv'  BY <2>2, <1>5 DEF OrderInv
  <2>5. SavedAsAsked'  BY <1>1, <1>2, <1>5 DEF Inv, SavedAsAsked
  <2>6. NameBeforePass'  BY <1>1, <1>3, <1>5 DEF Inv, NameBeforePass
  <2>7. QED  BY <1>2, <1>5, <2>1, <2>3, <2>4, <2>5, <2>6 DEF Inv, TypeInv
<1>6. QED  BY <1>4, <1>5, SaveDoes

\* Storing a network leaves what is in force elsewhere as it was.
LEMMA NetSaveKeeps ==
  ASSUME Inv, NEW writes, NEW values, Save(writes, values), Only(writes, NetKeys),
         UNCHANGED <<bank, model, owed, dirty>>
  PROVE  /\ (\A s \in Slots \ owed :
                /\ \A i \in DOMAIN job : job[i][1] = s => job[i][2] = bank[s]
                /\ ~Written(s, job) => Stored(s) = bank[s])'
         /\ (\A k \in SettingKeys \ dirty :
                /\ \A i \in DOMAIN job : job[i][1] = k => model[k] = InForce(k, job[i][2])
                /\ ~Written(k, job) => model[k] = InForce(k, Stored(k)))'
<1>1. /\ on /\ job = <<>> /\ \A k : Stored(k)' = Stored(k)
      /\ job' = writes \/ job' = <<>>
  BY SaveDoes
<1>2. ~\E k \in Slots \union SettingKeys : Written(k, job)  BY <1>1 DEF Written
<1>3. \A i \in DOMAIN job' : job'[i][1] \in NetKeys  BY <1>1 DEF Only
<1>4. \A k, v : InForce(k, v)' = InForce(k, v)  BY DEF InForce, Clamp
<1>5. \A s \in Slots \ owed : Stored(s) = bank[s]  BY <1>1, <1>2 DEF Inv, KeptInv
<1>6. \A k \in SettingKeys \ dirty : model[k] = InForce(k, Stored(k))
  BY <1>1, <1>2 DEF Inv, KeptInv
<1>7. QED  BY <1>1, <1>3, <1>4, <1>5, <1>6, KeysApart

\* TypeInv after a save, from what it does to the rest.
LEMMA SaveTyped ==
  ASSUME Inv, NEW writes, NEW values, Made(writes, values), Save(writes, values),
         DOMAIN values \subseteq Keys,
         \A k \in DOMAIN values : values[k] \in Vals,
         bank' \in [Slots -> Texts], model' \in [SettingKeys -> Int \union BOOLEAN],
         model'["number"] \in Low .. High, model'["flag"] \in BOOLEAN,
         wifi' \in [mode : {"station", "ap"}, ssid : Ssids \union {Empty}, pass : Passes],
         owed' \subseteq Slots, dirty' \subseteq SettingKeys
  PROVE  TypeInv'
<1>1. /\ flash' = flash /\ on' = on /\ faults' \in Nat /\ saves' \in Nat
  BY SaveDoes
<1>2. /\ WellTyped(job)' /\ asked' \in [Keys -> Vals]
      /\ mine' \subseteq Keys /\ torn' \subseteq Keys
  BY SaveKeeps
<1>3. \A k : ValuesOf(k)' = ValuesOf(k)  BY DEF ValuesOf
<1>4. QED  BY <1>1, <1>2, <1>3 DEF Inv, TypeInv

-----------------------------------------------------------------------------
(* The operations.                                                         *)

LEMMA ConnectStep ==
  ASSUME Inv, Connect PROVE Inv'
<1> PICK ssid \in Ssids, pass \in Passes :
      /\ Save(NetConfigSaveSingle(ssid, pass), [n |-> 1, ssid |-> ssid, pass |-> pass])
      /\ wifi' = [wifi EXCEPT !.ssid = ssid, !.pass = pass]
      /\ UNCHANGED <<bank, model, owed, dirty>>
  BY DEF Connect
<1> DEFINE writes == NetConfigSaveSingle(ssid, pass)
           values == [n |-> 1, ssid |-> ssid, pass |-> pass]
<1>1. Made(writes, values) /\ Only(writes, NetKeys)  BY SingleMade DEF Inv
<1>2. /\ DOMAIN values = {"n", "ssid", "pass"} /\ DOMAIN values \subseteq Keys
      /\ values["n"] = 1 /\ values["ssid"] = ssid /\ values["pass"] = pass
      /\ \A k \in DOMAIN values : values[k] \in Vals
  BY KeysApart, KindsOf DEF NetKeys
<1>3. Save(writes, values)  OBVIOUS
<1> HIDE DEF writes, values
<1>4. TypeInv'
  <2>1. wifi' \in [mode : {"station", "ap"}, ssid : Ssids \union {Empty}, pass : Passes]
    BY DEF Inv, TypeInv
  <2>2. QED  BY <1>1, <1>2, <1>3, <2>1, SaveTyped DEF Inv, TypeInv
<1>5. JobInv' /\ OrderInv' /\ SavedAsAsked' /\ NameBeforePass'
  BY <1>1, <1>2, <1>3, SaveKeeps
<1>6. KeptInv'
  <2>1. asked'["n"] = 1 /\ asked'["ssid"] = ssid
    BY <1>2, <1>3, SaveDoes, KeysApart DEF NetKeys
  <2>2. wifi'.ssid = ssid  BY DEF Inv, TypeInv
  <2>3. QED  BY <1>1, <1>3, <2>1, <2>2, NetSaveKeeps DEF KeptInv
<1>7. QED  BY <1>4, <1>5, <1>6 DEF Inv

LEMMA StartApStep ==
  ASSUME Inv, StartAp PROVE Inv'
<1> PICK pass \in Passes, mode \in {wifi.mode, "ap"} :
      /\ Save(NetConfigSaveAp(pass), [ap_pass |-> pass, mode |-> "ap"])
      /\ wifi' = [wifi EXCEPT !.pass = pass, !.mode = mode]
      /\ UNCHANGED <<bank, model, owed, dirty>>
  BY DEF StartAp
<1> DEFINE writes == NetConfigSaveAp(pass)
           values == [ap_pass |-> pass, mode |-> "ap"]
<1>1. Made(writes, values) /\ Only(writes, NetKeys)  BY ApMade DEF Inv
<1>2. /\ DOMAIN values = {"ap_pass", "mode"} /\ DOMAIN values \subseteq Keys
      /\ \A k \in DOMAIN values : values[k] \in Vals
  BY KeysApart, KindsOf DEF NetKeys
<1>3. Save(writes, values)  OBVIOUS
<1> HIDE DEF writes, values
<1>4. TypeInv'
  <2>1. wifi' \in [mode : {"station", "ap"}, ssid : Ssids \union {Empty}, pass : Passes]
    BY DEF Inv, TypeInv
  <2>2. QED  BY <1>1, <1>2, <1>3, <2>1, SaveTyped DEF Inv, TypeInv
<1>5. JobInv' /\ OrderInv' /\ SavedAsAsked' /\ NameBeforePass'
  BY <1>1, <1>2, <1>3, SaveKeeps
<1>6. KeptInv'
  <2>1. asked'["n"] = asked["n"] /\ asked'["ssid"] = asked["ssid"]
    BY <1>2, <1>3, SaveDoes, KeysApart DEF NetKeys
  <2>2. wifi'.ssid = wifi.ssid  BY DEF Inv, TypeInv
  <2>3. /\ on /\ mine = {}
        /\ {"n", "ssid"} \intersect (torn' \ mine') = {} => {"n", "ssid"} \intersect torn = {}
    BY <1>2, <1>3, SaveDoes
  <2>4. QED  BY <1>1, <1>3, <2>1, <2>2, <2>3, NetSaveKeeps DEF KeptInv, Inv
<1>7. QED  BY <1>4, <1>5, <1>6 DEF Inv

\* netConfigClear() erases the network keys, and only those.
LEMMA ForgetStep ==
  ASSUME Inv, Forget PROVE Inv'
<1>1. /\ on /\ on' = on /\ job = <<>> /\ saves' \in Nat
      /\ asked' = [k \in Keys |-> IF k \in NetKeys THEN Default[k] ELSE asked[k]]
      /\ UNCHANGED <<bank, model, owed, dirty>>
  BY DEF Forget, Free, Asks, Inv, TypeInv
<1>2. mine = {}  BY <1>1 DEF Inv, JobInv, Written
<1>3. /\ wifi' \in [mode : {"station", "ap"}, ssid : Ssids \union {Empty}, pass : Passes]
      /\ wifi'.ssid = Empty
  BY StoreBounds DEF Forget, Inv, TypeInv
<1>4. asked' \in [Keys -> Vals]
  <2>1. \A k \in NetKeys : Default[k] \in Vals
    BY StoreBounds, KeysApart, KindsOf DEF Default, NetKeys
  <2>2. QED  BY <1>1, <2>1 DEF Inv, TypeInv
<1>5. \A k : ValuesOf(k)' = ValuesOf(k)  BY DEF ValuesOf
<1>6. ~\E k : Written(k, job)  BY <1>1 DEF Written
<1>7. /\ \A s \in Slots \ owed : Stored(s) = bank[s]
      /\ \A k \in SettingKeys \ dirty : model[k] = InForce(k, Stored(k))
  BY <1>1, <1>6 DEF Inv, KeptInv
<1>8. CASE /\ flash' = [k \in DOMAIN flash \ NetKeys |-> flash[k]]
           /\ torn' = torn \ NetKeys /\ UNCHANGED <<job, mine, faults>>
  <2>1. /\ \A k \in NetKeys : Stored(k)' = Default[k]
        /\ \A k \in Keys \ NetKeys : Stored(k)' = Stored(k)
    BY <1>8, KeysApart DEF Stored, Default
  <2>2. TypeInv'
    BY <1>1, <1>3, <1>4, <1>5, <1>8 DEF Inv, TypeInv, WellTyped
  <2>3. JobInv' /\ OrderInv'
    BY <1>1, <1>2, <1>8 DEF JobInv, OrderInv, Distinct, NameFirst
  <2>4. SavedAsAsked'  BY <1>1, <1>2, <1>8, <2>1 DEF Inv, SavedAsAsked
  <2>5. NameBeforePass'  BY <1>2, <1>8 DEF NameBeforePass, NetKeys
  <2>6. KeptInv'
    BY <1>1, <1>3, <1>6, <1>7, <1>8, <2>1, KeysApart DEF KeptInv, InForce, Clamp
  <2>7. QED  BY <2>2, <2>3, <2>4, <2>5, <2>6 DEF Inv
<1>9. CASE FailsToOpen(NetKeys) /\ UNCHANGED flash
  <2>1. /\ job' = job /\ mine' = mine /\ torn' = torn \union NetKeys /\ faults' \in Nat
        /\ flash' = flash
    BY <1>9 DEF FailsToOpen, Inv, TypeInv
  <2>2. \A k : Stored(k)' = Stored(k)  BY <2>1 DEF Stored
  <2>3. TypeInv'
    BY <1>1, <1>3, <1>4, <1>5, <2>1, KeysApart DEF Inv, TypeInv, WellTyped
  <2>4. JobInv' /\ OrderInv'
    BY <1>1, <1>2, <2>1 DEF JobInv, OrderInv, Distinct, NameFirst
  <2>5. SavedAsAsked'  BY <1>1, <1>2, <2>1, <2>2 DEF Inv, SavedAsAsked
  <2>6. NameBeforePass'  BY <2>1 DEF NameBeforePass, NetKeys
  <2>7. KeptInv'
    BY <1>1, <1>3, <1>6, <1>7, <2>1, <2>2 DEF KeptInv, InForce, Clamp
  <2>8. QED  BY <2>3, <2>4, <2>5, <2>6, <2>7 DEF Inv
<1>10. QED  BY <1>8, <1>9 DEF Forget

\* A bank is saved whole; what was not about the edit must be what is stored.
LEMMA SaveBankStep ==
  ASSUME Inv, NEW b \in [Slots -> Texts], NEW about \in SUBSET Slots,
         \A s \in Slots \ about : b[s] = Stored(s), SaveBank(b, about)
  PROVE  Inv'
<1> DEFINE writes == MemoryBankSave(b)  values == [s \in about |-> b[s]]
<1>1. /\ Made(writes, values)
      /\ \A i \in DOMAIN writes : writes[i][1] \in Slots /\ writes[i][2] = b[writes[i][1]]
  BY BankMade DEF Inv
<1>2. /\ DOMAIN values = about /\ DOMAIN values \subseteq Keys
      /\ \A k \in DOMAIN values : values[k] = b[k] /\ values[k] \in Vals
  BY KeysApart, KindsOf
<1>3. Save(writes, values) /\ owed' = (IF faults' > faults THEN about ELSE {})
      /\ bank' = b /\ UNCHANGED <<model, wifi, dirty>>
  BY DEF SaveBank
<1>4. \A s \in Slots : Written(s, writes)
  <2>1. Slots = {SlotKeys[i] : i \in DOMAIN SlotKeys}  BY DEF Slots
  <2>2. /\ DOMAIN writes = DOMAIN SlotKeys
        /\ \A i \in DOMAIN SlotKeys : writes[i][1] = SlotKeys[i]
    <3>1. SlotKeys \in Seq(Slots)  BY SlotsType
    <3>2. DOMAIN SlotKeys = 1 .. Len(SlotKeys)  BY <3>1
    <3>3. writes = [i \in 1 .. Len(SlotKeys) |-> <<SlotKeys[i], b[SlotKeys[i]]>>]
      BY DEF MemoryBankSave
    <3> HIDE DEF writes
    <3>4. QED  BY <3>2, <3>3
  <2>3. QED  BY <2>1, <2>2 DEF Written
<1> HIDE DEF writes, values
<1>5. TypeInv'
  <2>1. owed' \subseteq Slots  BY <1>3
  <2>2. bank' \in [Slots -> Texts]  BY <1>3
  <2>3. QED  BY <1>1, <1>2, <1>3, <2>1, <2>2, SaveTyped DEF Inv, TypeInv
<1>6. JobInv' /\ OrderInv' /\ SavedAsAsked' /\ NameBeforePass'
  BY <1>1, <1>2, <1>3, SaveKeeps
<1>7. /\ on /\ job = <<>> /\ mine = {} /\ \A k : Stored(k)' = Stored(k)
      /\ asked' = [k \in Keys |-> IF k \in DOMAIN values THEN values[k] ELSE asked[k]]
      /\ \/ job' = writes /\ mine' = about /\ torn' = torn /\ owed' = {}
         \/ job' = <<>> /\ mine' = {} /\ torn' = torn \union about /\ owed' = about
  BY <1>2, <1>3, SaveDoes
<1>8. KeptInv'
  <2>1. (\A s \in Slots \ owed :
           /\ \A i \in DOMAIN job : job[i][1] = s => job[i][2] = bank[s]
           /\ ~Written(s, job) => Stored(s) = bank[s])'
    <3>1. CASE job' = writes /\ owed' = {}
      <4>1. \A s \in Slots : Written(s, job)'  BY <3>1, <1>4 DEF Written
      <4>2. QED  BY <3>1, <4>1, <1>1, <1>3
    <3>2. CASE job' = <<>> /\ owed' = about  BY <3>2, <1>3, <1>7
    <3>3. QED  BY <3>1, <3>2, <1>7
  <2>2. (\A k \in SettingKeys \ dirty :
           /\ \A i \in DOMAIN job : job[i][1] = k => model[k] = InForce(k, job[i][2])
           /\ ~Written(k, job) => model[k] = InForce(k, Stored(k)))'
    <3>1. \A k \in SettingKeys : ~Written(k, job)  BY <1>7 DEF Written
    <3>2. \A k \in SettingKeys \ dirty : model[k] = InForce(k, Stored(k))
      BY <3>1, <1>7 DEF Inv, KeptInv
    <3>3. \A i \in DOMAIN job' : job'[i][1] \in Slots  BY <1>1, <1>7
    <3>4. \A k, v : InForce(k, v)' = InForce(k, v)  BY DEF InForce, Clamp
    <3>5. QED  BY <1>3, <1>7, <3>2, <3>3, <3>4, KeysApart
  <2>3. (wifi.ssid # Empty /\ {"n", "ssid"} \intersect (torn \ mine) = {} =>
           asked["n"] > 0 /\ wifi.ssid = asked["ssid"])'
    <3>1. "n" \in Keys /\ "ssid" \in Keys /\ "n" \notin about /\ "ssid" \notin about
      BY KeysApart DEF NetKeys
    <3>2. asked'["n"] = asked["n"] /\ asked'["ssid"] = asked["ssid"]  BY <3>1, <1>2, <1>7
    <3>3. {"n", "ssid"} \intersect (torn' \ mine') = {"n", "ssid"} \intersect torn
      BY <3>1, <1>7
    <3>4. QED  BY <1>3, <1>7, <3>2, <3>3 DEF Inv, KeptInv
  <2>4. QED  BY <2>1, <2>2, <2>3 DEF KeptInv
<1>9. QED  BY <1>5, <1>6, <1>8 DEF Inv

\* A text that was not saved is owed, so the others are what is stored.
LEMMA EditMemoryStep ==
  ASSUME Inv, EditMemory PROVE Inv'
<1> PICK s \in Slots, t \in Texts : SaveBank([bank EXCEPT ![s] = t], owed \union {s})
  BY DEF EditMemory
<1>1. on /\ job = <<>>  BY DEF SaveBank, Save, Free
<1>2. \A x \in Slots \ owed : Stored(x) = bank[x]
  BY <1>1 DEF Inv, KeptInv, Written
<1> DEFINE b == [bank EXCEPT ![s] = t]  about == owed \union {s}
<1>3. b \in [Slots -> Texts] /\ about \in SUBSET Slots
      /\ \A x \in Slots \ about : b[x] = Stored(x)
  BY <1>2 DEF Inv, TypeInv
<1>4. SaveBank(b, about)  OBVIOUS
<1> HIDE DEF b, about
<1>5. QED  BY <1>3, <1>4, SaveBankStep

LEMMA WebMemoryStep ==
  ASSUME Inv, WebMemory PROVE Inv'
<1> PICK s \in Slots, t \in Texts : SaveBank(WebBank(s, t), {s})
  BY DEF WebMemory
<1>1. BankLoad \in [Slots -> Texts]
  BY StoredTyped, KindsOf, KeysApart DEF BankLoad, Inv
<1>2. WebBank(s, t) \in [Slots -> Texts]
      /\ \A x \in Slots \ {s} : WebBank(s, t)[x] = Stored(x)
  BY <1>1 DEF WebBank, BankLoad
<1>3. QED  BY <1>2, SaveBankStep

LEMMA AdjustStep ==
  ASSUME Inv, Adjust PROVE Inv'
<1> PICK k \in SettingKeys : \E v \in Values(k) :
      /\ model' = [model EXCEPT ![k] = InForce(k, v)]
      /\ dirty' = dirty \union {k}
  BY DEF Adjust
<1> PICK v \in Values(k) : /\ model' = [model EXCEPT ![k] = InForce(k, v)]
                           /\ dirty' = dirty \union {k}
  OBVIOUS
<1>1. /\ saves' \in Nat
      /\ UNCHANGED <<flash, on, bank, wifi, job, mine, asked, torn, owed, faults>>
  BY DEF Adjust, Free, Inv, TypeInv
<1>2. k = "number" \/ k = "flag"  BY DEF SettingKeys
<1>3. v \in ValuesOf(k)  BY <1>2, KindsOf, StoreBounds DEF Values
<1>4. /\ InForce(k, v) \in Int \union BOOLEAN
      /\ k = "number" => InForce(k, v) \in Low .. High
      /\ k = "flag" => InForce(k, v) \in BOOLEAN
  BY <1>2, <1>3, KindsOf, InForceTyped, StoreBounds
<1>5. /\ model' \in [SettingKeys -> Int \union BOOLEAN]
      /\ model'["number"] \in Low .. High /\ model'["flag"] \in BOOLEAN
      /\ \A x \in SettingKeys \ {k} : model'[x] = model[x]
  BY <1>2, <1>4 DEF Inv, TypeInv, SettingKeys
<1>6. \A x : Stored(x)' = Stored(x) /\ ValuesOf(x)' = ValuesOf(x)
  BY <1>1 DEF Stored, ValuesOf
<1>7. TypeInv'  BY <1>1, <1>5, <1>6 DEF Inv, TypeInv, WellTyped
<1>8. JobInv' /\ OrderInv' /\ SavedAsAsked' /\ NameBeforePass'
  BY <1>1, <1>6 DEF Inv, JobInv, OrderInv, SavedAsAsked, NameBeforePass, Distinct,
                    NameFirst, Written
<1>9. KeptInv'
  BY <1>1, <1>5, <1>6 DEF Inv, KeptInv, Written, InForce, Clamp
<1>10. QED  BY <1>7, <1>8, <1>9 DEF Inv

\* A setting that is saved is in force as the model takes it.
LEMMA PersistStep ==
  ASSUME Inv, NEW k \in SettingKeys, NEW v \in ValuesOf(k), Persist(k, v) PROVE Inv'
<1> DEFINE writes == <<<<k, v>>>>  values == [x \in {k} |-> v]
<1>1. Made(writes, values)  BY SettingMade DEF Inv
<1>2. k = "number" \/ k = "flag"  BY DEF SettingKeys
<1>3. /\ DOMAIN values = {k} /\ values[k] = v /\ DOMAIN values \subseteq Keys
      /\ \A x \in DOMAIN values : values[x] \in Vals
      /\ DOMAIN writes = {1} /\ writes[1][1] = k /\ writes[1][2] = v
  BY KeysApart
<1>4. /\ Save(writes, values)
      /\ model' = [model EXCEPT ![k] = InForce(k, v)]
      /\ dirty' = (IF faults' > faults THEN dirty \union {k} ELSE dirty \ {k})
      /\ UNCHANGED <<bank, wifi, owed>>
  BY DEF Persist
<1> HIDE DEF writes, values
<1>5. /\ InForce(k, v) \in Int \union BOOLEAN
      /\ k = "number" => InForce(k, v) \in Low .. High
      /\ k = "flag" => InForce(k, v) \in BOOLEAN
  BY <1>2, KindsOf, InForceTyped, StoreBounds
<1>6. /\ model' \in [SettingKeys -> Int \union BOOLEAN]
      /\ model'["number"] \in Low .. High /\ model'["flag"] \in BOOLEAN
      /\ model'[k] = InForce(k, v)
      /\ \A x \in SettingKeys \ {k} : model'[x] = model[x]
  BY <1>2, <1>4, <1>5 DEF Inv, TypeInv, SettingKeys
<1>7. TypeInv'
  <2>1. dirty' \subseteq SettingKeys  BY <1>4 DEF Inv, TypeInv
  <2>2. QED  BY <1>1, <1>3, <1>4, <1>6, <2>1, SaveTyped DEF Inv, TypeInv
<1>8. JobInv' /\ OrderInv' /\ SavedAsAsked' /\ NameBeforePass'
  BY <1>1, <1>3, <1>4, SaveKeeps
<1>9. /\ on /\ job = <<>> /\ mine = {} /\ \A x : Stored(x)' = Stored(x)
      /\ asked' = [x \in Keys |-> IF x \in DOMAIN values THEN values[x] ELSE asked[x]]
      /\ \/ job' = writes /\ mine' = {k} /\ torn' = torn /\ dirty' = dirty \ {k}
         \/ job' = <<>> /\ mine' = {} /\ torn' = torn \union {k} /\ dirty' = dirty \union {k}
  BY <1>3, <1>4, SaveDoes
<1>10. KeptInv'
  <2>1. (\A s \in Slots \ owed :
           /\ \A i \in DOMAIN job : job[i][1] = s => job[i][2] = bank[s]
           /\ ~Written(s, job) => Stored(s) = bank[s])'
    <3>1. \A s \in Slots \ owed : Stored(s) = bank[s]
      BY <1>9 DEF Inv, KeptInv, Written
    <3>2. \A i \in DOMAIN job' : job'[i][1] = k  BY <1>3, <1>9
    <3>3. k \notin Slots  BY KeysApart
    <3>4. QED  BY <1>4, <1>9, <3>1, <3>2, <3>3
  <2>2. (\A x \in SettingKeys \ dirty :
           /\ \A i \in DOMAIN job : job[i][1] = x => model[x] = InForce(x, job[i][2])
           /\ ~Written(x, job) => model[x] = InForce(x, Stored(x)))'
    <3>1. \A x \in SettingKeys \ dirty : model[x] = InForce(x, Stored(x))
      BY <1>9 DEF Inv, KeptInv, Written
    <3>2. \A x, y : InForce(x, y)' = InForce(x, y)  BY DEF InForce, Clamp
    <3>3. CASE job' = writes /\ dirty' = dirty \ {k}
      <4>1. \A i \in DOMAIN job' : job'[i][1] = k /\ job'[i][2] = v  BY <1>3, <3>3
      <4>2. Written(k, job)'  BY <1>3, <3>3 DEF Written
      <4>3. QED  BY <1>6, <1>9, <3>1, <3>2, <3>3, <4>1, <4>2
    <3>4. CASE job' = <<>> /\ dirty' = dirty \union {k}
      BY <1>6, <1>9, <3>1, <3>2, <3>4
    <3>5. QED  BY <1>9, <3>3, <3>4
  <2>3. (wifi.ssid # Empty /\ {"n", "ssid"} \intersect (torn \ mine) = {} =>
           asked["n"] > 0 /\ wifi.ssid = asked["ssid"])'
    <3>1. "n" \in Keys /\ "ssid" \in Keys /\ "n" # k /\ "ssid" # k
      BY KeysApart DEF NetKeys, SettingKeys
    <3>2. asked'["n"] = asked["n"] /\ asked'["ssid"] = asked["ssid"]  BY <3>1, <1>3, <1>9
    <3>3. {"n", "ssid"} \intersect (torn' \ mine') = {"n", "ssid"} \intersect torn
      BY <3>1, <1>9
    <3>4. QED  BY <1>4, <1>9, <3>2, <3>3 DEF Inv, KeptInv
  <2>4. QED  BY <2>1, <2>2, <2>3 DEF KeptInv
<1>11. QED  BY <1>7, <1>8, <1>10 DEF Inv

LEMMA SaveSettingStep ==
  ASSUME Inv, SaveSetting PROVE Inv'
<1> PICK k \in SettingKeys : Persist(k, model[k])  BY DEF SaveSetting
<1>1. k = "number" \/ k = "flag"  BY DEF SettingKeys
<1>2. model[k] \in ValuesOf(k)  BY <1>1, KindsOf, StoreBounds DEF Inv, TypeInv
<1>3. QED  BY <1>2, PersistStep

LEMMA WebSettingsStep ==
  ASSUME Inv, WebSettings PROVE Inv'
<1> PICK k \in SettingKeys : \E v \in Values(k) : Persist(k, v)  BY DEF WebSettings
<1> PICK v \in Values(k) : Persist(k, v)  OBVIOUS
<1>1. k = "number" \/ k = "flag"  BY DEF SettingKeys
<1>2. v \in ValuesOf(k)  BY <1>1, KindsOf, StoreBounds DEF Values
<1>3. QED  BY <1>2, PersistStep

-----------------------------------------------------------------------------
(* The flash and the power.                                                *)

\* A key that is written is written once, so what is left does not touch it.
LEMMA PutStep ==
  ASSUME Inv, Put PROVE Inv'
<1>0. /\ on /\ job \in Seq(Keys \X Vals) /\ Len(job) \in Nat /\ Len(job) > 0
      /\ DOMAIN job = 1 .. Len(job)
      /\ job[1][1] \in Keys /\ job[1][2] \in ValuesOf(job[1][1])
  BY DEF Put, Inv, TypeInv, WellTyped
<1> PICK k, v, n : k = job[1][1] /\ v = job[1][2] /\ n = Len(job)
  OBVIOUS
<1>1. /\ on /\ job \in Seq(Keys \X Vals) /\ n \in Nat /\ n > 0 /\ DOMAIN job = 1 .. n
      /\ k \in Keys /\ v \in ValuesOf(k) /\ job[1][1] = k /\ job[1][2] = v
      /\ 1 \in DOMAIN job
  BY <1>0
<1>2. /\ flash' = [x \in DOMAIN flash \union {k} |-> IF x = k THEN v ELSE flash[x]]
      /\ torn' = torn \ ({k} \intersect mine) /\ mine' = mine \ {k}
      /\ job' = Tail(job)
      /\ UNCHANGED <<on, bank, model, wifi, asked, owed, dirty, faults, saves>>
  BY DEF Put, ram, bounds
<1>3. /\ job' \in Seq(Keys \X Vals) /\ DOMAIN job' = 1 .. n - 1
      /\ \A i \in DOMAIN job' : /\ i \in Int /\ i > 0 /\ i + 1 \in DOMAIN job
                                /\ job'[i] = job[i + 1]
  BY <1>1, <1>2
<1>4. Stored(k)' = v /\ \A x : x # k => Stored(x)' = Stored(x)
  BY <1>2 DEF Stored
<1>5. \A i \in DOMAIN job' : job'[i][1] # k
  <2>1. Distinct(job)  BY DEF Inv, JobInv
  <2>2. SUFFICES ASSUME NEW i \in DOMAIN job', job[i + 1][1] = job[1][1] PROVE FALSE
    BY <1>1, <1>3
  <2>3. i + 1 = 1  BY <2>1, <2>2, <1>1, <1>3 DEF Distinct
  <2>4. QED  BY <2>2, <2>3, <1>3
<1>6. \A x : x # k => (Written(x, job) <=> Written(x, job)')
  <2>1. SUFFICES ASSUME NEW x, x # k PROVE Written(x, job) <=> Written(x, job)'
    OBVIOUS
  <2>2. ASSUME NEW i \in DOMAIN job, job[i][1] = x PROVE Written(x, job)'
    <3>1. i # 1 /\ i - 1 \in 1 .. n - 1 /\ job'[i - 1] = job[i]
      BY <2>1, <2>2, <1>1, <1>3
    <3>2. QED  BY <3>1, <2>2, <1>3 DEF Written
  <2>3. ASSUME NEW i \in DOMAIN job', job'[i][1] = x PROVE Written(x, job)
    BY <2>3, <1>1, <1>3 DEF Written
  <2>4. QED  BY <2>2, <2>3 DEF Written
<1>7. TypeInv'
  <2>1. \A x : ValuesOf(x)' = ValuesOf(x)  BY DEF ValuesOf
  <2>2. DOMAIN flash' \subseteq Keys /\ \A x \in DOMAIN flash' : flash'[x] \in ValuesOf(x)
    BY <1>1, <1>2 DEF Inv, TypeInv
  <2>3. WellTyped(job)'  BY <1>1, <1>3, <2>1 DEF Inv, TypeInv, WellTyped
  <2>4. QED  BY <1>2, <2>1, <2>2, <2>3 DEF Inv, TypeInv
<1>8. JobInv'
  <2>1. Distinct(job)'
    <3>1. Distinct(job)  BY DEF Inv, JobInv
    <3>2. SUFFICES ASSUME NEW i \in DOMAIN job', NEW j \in DOMAIN job',
                          job'[i][1] = job'[j][1]
                   PROVE  i = j
      BY DEF Distinct
    <3>3. i + 1 = j + 1  BY <3>1, <3>2, <1>3 DEF Distinct
    <3>4. QED  BY <3>2, <3>3, <1>3
  <2>2. \A x \in mine' : Written(x, job)'  BY <1>2, <1>6 DEF Inv, JobInv
  <2>3. (\A i \in DOMAIN job :
           job[i][2] = IF job[i][1] \in mine THEN asked[job[i][1]] ELSE Stored(job[i][1]))'
    BY <1>1, <1>2, <1>3, <1>4, <1>5 DEF Inv, JobInv
  <2>4. QED  BY <1>1, <1>2, <2>1, <2>2, <2>3 DEF JobInv
<1>9. OrderInv' /\ NameBeforePass'
  <2>1. NameFirst(job)'  BY <1>1, <1>3 DEF Inv, OrderInv, NameFirst
  <2>2. k = "pass" => "ssid" \notin mine
    <3>1. SUFFICES ASSUME k = "pass", "ssid" \in mine PROVE FALSE  OBVIOUS
    <3>2. PICK i \in DOMAIN job : job[i][1] = "ssid"
      BY <3>1 DEF Inv, JobInv, Written
    <3>3. i < 1
      <4>1. NameFirst(job)  BY DEF Inv, OrderInv
      <4>2. QED  BY <4>1, <3>1, <3>2, <1>1 DEF NameFirst
    <3>4. QED  BY <3>3, <1>1
  <2>3. "ssid" \in mine' => "pass" \in mine'
    BY <1>2, <2>2 DEF Inv, OrderInv
  <2>4. "pass" \in mine' /\ "ssid" \in torn' => "ssid" \in mine'
    BY <1>2 DEF Inv, OrderInv
  <2>5. NameBeforePass'
    BY <1>2, <2>2 DEF Inv, OrderInv, NameBeforePass
  <2>6. QED  BY <2>1, <2>3, <2>4, <2>5 DEF OrderInv
<1>10. v = IF k \in mine THEN asked[k] ELSE Stored(k)
  BY <1>1 DEF Inv, JobInv
<1>11. SavedAsAsked'
  BY <1>2, <1>4, <1>10 DEF Inv, SavedAsAsked
<1>12. KeptInv'
  <2>1. (\A s \in Slots \ owed :
           /\ \A i \in DOMAIN job : job[i][1] = s => job[i][2] = bank[s]
           /\ ~Written(s, job) => Stored(s) = bank[s])'
    <3>1. SUFFICES ASSUME NEW s \in Slots \ owed
                   PROVE  /\ \A i \in DOMAIN job' : job'[i][1] = s => job'[i][2] = bank[s]
                          /\ ~Written(s, job)' => Stored(s)' = bank[s]
      BY <1>2
    <3>2. \A i \in DOMAIN job' : job'[i][1] = s => job'[i][2] = bank[s]
      <4>1. \A i \in DOMAIN job : job[i][1] = s => job[i][2] = bank[s]
        BY <1>1 DEF Inv, KeptInv
      <4>2. QED  BY <4>1, <1>3
    <3>3. CASE s = k  BY <3>2, <3>3, <1>1, <1>4 DEF Inv, KeptInv
    <3>4. CASE s # k  BY <3>2, <3>4, <1>1, <1>4, <1>6 DEF Inv, KeptInv
    <3>5. QED  BY <3>3, <3>4
  <2>2. (\A x \in SettingKeys \ dirty :
           /\ \A i \in DOMAIN job : job[i][1] = x => model[x] = InForce(x, job[i][2])
           /\ ~Written(x, job) => model[x] = InForce(x, Stored(x)))'
    <3>1. SUFFICES ASSUME NEW x \in SettingKeys \ dirty
                   PROVE  /\ \A i \in DOMAIN job' :
                               job'[i][1] = x => model[x] = InForce(x, job'[i][2])
                          /\ ~Written(x, job)' => model[x] = InForce(x, Stored(x)')
      BY <1>2 DEF InForce, Clamp
    <3>2. \A i \in DOMAIN job' : job'[i][1] = x => model[x] = InForce(x, job'[i][2])
      <4>1. \A i \in DOMAIN job : job[i][1] = x => model[x] = InForce(x, job[i][2])
        BY <1>1 DEF Inv, KeptInv
      <4>2. QED  BY <4>1, <1>3
    <3>3. CASE x = k  BY <3>2, <3>3, <1>1, <1>4 DEF Inv, KeptInv
    <3>4. CASE x # k  BY <3>2, <3>4, <1>1, <1>4, <1>6 DEF Inv, KeptInv
    <3>5. QED  BY <3>3, <3>4
  <2>3. torn' \ mine' = torn \ mine  BY <1>2
  <2>4. QED  BY <1>1, <1>2, <2>1, <2>2, <2>3 DEF Inv, KeptInv
<1>13. QED  BY <1>7, <1>8, <1>9, <1>11, <1>12 DEF Inv

LEMMA CutStep ==
  ASSUME Inv, Cut PROVE Inv'
<1>1. /\ on' = FALSE /\ torn' = torn \union mine /\ job' = <<>> /\ mine' = {}
      /\ faults' \in Nat
      /\ UNCHANGED <<flash, bank, model, wifi, asked, owed, dirty, saves>>
  BY DEF Cut, ram, Inv, TypeInv
<1>2. \A x : Stored(x)' = Stored(x) /\ ValuesOf(x)' = ValuesOf(x)
  BY <1>1 DEF Stored, ValuesOf
<1>3. TypeInv'
  <2>1. WellTyped(job)'  BY <1>1 DEF WellTyped
  <2>2. QED  BY <1>1, <1>2, <2>1 DEF Inv, TypeInv
<1>4. JobInv' /\ OrderInv'
  BY <1>1 DEF JobInv, OrderInv, Distinct, NameFirst
<1>5. SavedAsAsked' /\ NameBeforePass'
  BY <1>1, <1>2 DEF Inv, SavedAsAsked, NameBeforePass
<1>6. KeptInv'  BY <1>1 DEF KeptInv
<1>7. QED  BY <1>3, <1>4, <1>5, <1>6 DEF Inv

\* A boot takes what the flash has, so nothing is owed and nothing dirty.
LEMMA BootStep ==
  ASSUME Inv, Boot PROVE Inv'
<1>1. /\ ~on /\ on' = TRUE /\ bank' = BankLoad
      /\ model' = [k \in SettingKeys |-> LoadSetting(k)]
      /\ wifi' = Begun /\ owed' = {} /\ dirty' = {}
      /\ UNCHANGED <<flash, job, mine, asked, torn, faults, saves>>
  BY DEF Boot, bounds
<1>2. job = <<>> /\ mine = {}  BY <1>1 DEF Inv, JobInv, Written
<1>3. \A x : Stored(x)' = Stored(x) /\ ValuesOf(x)' = ValuesOf(x)
  BY <1>1 DEF Stored, ValuesOf
<1>4. NetKeys \subseteq Keys /\ SettingKeys \subseteq Keys  BY KeysApart
<1>5. /\ model' \in [SettingKeys -> Int \union BOOLEAN]
      /\ model'["number"] \in Low .. High /\ model'["flag"] \in BOOLEAN
  <2>1. Stored("number") \in Int /\ Stored("flag") \in BOOLEAN
    BY <1>4, StoredTyped, KindsOf DEF Inv, SettingKeys
  <2>2. InForce("number", Stored("number")) \in Low .. High
        /\ InForce("flag", Stored("flag")) \in BOOLEAN
    BY <2>1, InForceTyped
  <2>3. QED  BY <1>1, <2>2, StoreBounds DEF LoadSetting, SettingKeys
<1>6. wifi' \in [mode : {"station", "ap"}, ssid : Ssids \union {Empty}, pass : Passes]
  <2>1. /\ Stored("ssid") \in Ssids \union {Empty}
        /\ Stored("pass") \in Passes /\ Stored("ap_pass") \in Passes
    BY <1>4, StoredTyped, KindsOf DEF Inv, NetKeys
  <2>2. QED  BY <1>1, <2>1, StoreBounds DEF Begun
<1>7. bank' \in [Slots -> Texts]
  BY <1>1, StoredTyped, KindsOf, KeysApart DEF BankLoad, Inv
<1>8. TypeInv'
  BY <1>1, <1>3, <1>5, <1>6, <1>7 DEF Inv, TypeInv, WellTyped
<1>9. JobInv' /\ OrderInv' /\ SavedAsAsked' /\ NameBeforePass'
  BY <1>1, <1>2, <1>3 DEF Inv, JobInv, OrderInv, SavedAsAsked, NameBeforePass, Distinct,
                          NameFirst
<1>10. KeptInv'
  <2>1. DOMAIN job' = {}  BY <1>1, <1>2
  <2>2. \A s \in Slots : Stored(s)' = bank'[s]  BY <1>1, <1>3 DEF BankLoad
  <2>3. \A k \in SettingKeys : model'[k] = InForce(k, Stored(k))'
    BY <1>1, <1>3 DEF LoadSetting, InForce, Clamp
  <2>4. wifi'.ssid # Empty => Stored("n") > 0 /\ wifi'.ssid = Stored("ssid")
    BY <1>1 DEF Begun
  <2>5. {"n", "ssid"} \intersect torn = {} =>
          Stored("n") = asked["n"] /\ Stored("ssid") = asked["ssid"]
    BY <1>2, <1>4 DEF Inv, SavedAsAsked, NetKeys
  <2>6. QED  BY <1>1, <1>2, <2>1, <2>2, <2>3, <2>4, <2>5 DEF KeptInv
<1>11. QED  BY <1>8, <1>9, <1>10 DEF Inv

-----------------------------------------------------------------------------

LEMMA InitInv ==
  ASSUME Init PROVE Inv
<1>1. /\ flash = [k \in {} |-> Empty] /\ on = TRUE
      /\ bank = [s \in Slots |-> Empty] /\ model = [k \in SettingKeys |-> Default[k]]
      /\ wifi = [mode |-> "station", ssid |-> Empty, pass |-> Empty]
      /\ job = <<>> /\ mine = {} /\ asked = Default /\ torn = {} /\ owed = {} /\ dirty = {}
      /\ faults = 0 /\ saves = 0
  BY DEF Init
<1>2. \A k \in Keys : Stored(k) = Default[k]  BY <1>1 DEF Stored
<1>3. TypeInv
  <2>1. DOMAIN flash = {} /\ WellTyped(job)  BY <1>1 DEF WellTyped
  <2>2. \A k \in Keys : Default[k] \in Vals
    BY StoreBounds, KeysApart, KindsOf DEF Default, Keys, NetKeys, SettingKeys
  <2>3. asked \in [Keys -> Vals]  BY <1>1, <2>2 DEF Default
  <2>4. /\ model \in [SettingKeys -> Int \union BOOLEAN]
        /\ model["number"] \in Low .. High /\ model["flag"] \in BOOLEAN
    BY <1>1, StoreBounds, KeysApart DEF Default, SettingKeys
  <2>5. /\ wifi \in [mode : {"station", "ap"}, ssid : Ssids \union {Empty}, pass : Passes]
        /\ bank \in [Slots -> Texts]
    BY <1>1, StoreBounds
  <2>6. QED  BY <1>1, <2>1, <2>3, <2>4, <2>5 DEF TypeInv
<1>4. JobInv /\ OrderInv /\ NameBeforePass
  BY <1>1 DEF JobInv, OrderInv, NameBeforePass, Distinct, NameFirst
<1>5. SavedAsAsked  BY <1>1, <1>2 DEF SavedAsAsked
<1>6. KeptInv
  <2>1. \A s \in Slots : Stored(s) = bank[s]
    BY <1>1, <1>2, KeysApart DEF Default, NetKeys, SettingKeys
  <2>2. \A k \in SettingKeys : model[k] = InForce(k, Stored(k))
    <3>1. \A k \in SettingKeys : Stored(k) = Default[k] /\ model[k] = Default[k]
      BY <1>1, <1>2, KeysApart
    <3>2. Default["number"] = Low /\ "number" \in Keys
      BY KeysApart DEF Default, SettingKeys
    <3>3. InForce("number", Low) = Low  BY StoreBounds DEF InForce, Clamp
    <3>4. QED  BY <3>1, <3>2, <3>3 DEF InForce, SettingKeys
  <2>3. QED  BY <1>1, <2>1, <2>2 DEF KeptInv
<1>7. QED  BY <1>3, <1>4, <1>5, <1>6 DEF Inv

LEMMA NextInv ==
  ASSUME Inv, [Next]_vars PROVE Inv'
<1>1. CASE Connect  BY <1>1, ConnectStep
<1>2. CASE StartAp  BY <1>2, StartApStep
<1>3. CASE Forget  BY <1>3, ForgetStep
<1>4. CASE EditMemory  BY <1>4, EditMemoryStep
<1>5. CASE WebMemory  BY <1>5, WebMemoryStep
<1>6. CASE Adjust  BY <1>6, AdjustStep
<1>7. CASE SaveSetting  BY <1>7, SaveSettingStep
<1>8. CASE WebSettings  BY <1>8, WebSettingsStep
<1>9. CASE Put  BY <1>9, PutStep
<1>10. CASE Cut  BY <1>10, CutStep
<1>11. CASE Boot  BY <1>11, BootStep
<1>12. CASE UNCHANGED vars
  <2>1. UNCHANGED <<flash, on, bank, model, wifi, job, mine, asked, torn, owed, dirty,
                    faults, saves>>
    BY <1>12 DEF vars, ram, bounds
  <2>2. \A x : Stored(x)' = Stored(x) /\ ValuesOf(x)' = ValuesOf(x)
    BY <2>1 DEF Stored, ValuesOf
  <2>3. QED
    BY <2>1, <2>2 DEF Inv, TypeInv, JobInv, OrderInv, KeptInv, SavedAsAsked,
       NameBeforePass, WellTyped, Distinct, NameFirst, Written, InForce, Clamp
<1>13. QED
  BY <1>1, <1>2, <1>3, <1>4, <1>5, <1>6, <1>7, <1>8, <1>9, <1>10, <1>11, <1>12 DEF Next

\* The invariant holds throughout.
LEMMA AlwaysInv == Spec => []Inv
<1>1. Init => Inv  BY InitInv
<1>2. Inv /\ [Next]_vars => Inv'  BY NextInv
<1>3. QED  BY <1>1, <1>2, PTL DEF Spec

\* Type correctness, for every set of slots, texts, networks and values.
THEOREM TypeCorrect == Spec => []TypeOK
<1>1. Inv => TypeOK
  BY DEF Inv, TypeInv, TypeOK
<1>2. QED  BY <1>1, AlwaysInv, PTL

\* Wherever the power is cut, the flash holds what was last asked for, except
\* under the keys whose own last save is under way or was cut short
\* (net_config.cpp:61-128, memory_store.cpp:48-65).
THEOREM AlwaysSavedAsAsked == Spec => []SavedAsAsked
<1>1. Inv => SavedAsAsked  BY DEF Inv
<1>2. QED  BY <1>1, AlwaysInv, PTL

\* A passphrase is never stored under the name of the network it replaces
\* (net_config.cpp:74-82).
THEOREM NameAlwaysFirst == Spec => []NameBeforePass
<1>1. Inv => NameBeforePass  BY DEF Inv
<1>2. QED  BY <1>1, AlwaysInv, PTL

\* What is in force between two operations is what a reboot would find
\* (main.cpp:1275-1337, web_ui.cpp:405-418).
THEOREM RebootNeverChanges == Spec => []RebootChangesNothing
<1>1. Inv => RebootChangesNothing
  <2>1. SUFFICES ASSUME Inv, on, job = <<>> PROVE RebootChangesNothing
    BY DEF RebootChangesNothing
  <2>2. mine = {} /\ ~\E k : Written(k, job)  BY <2>1 DEF Inv, JobInv, Written
  <2>3. /\ \A s \in Slots \ owed : bank[s] = Stored(s)
        /\ \A k \in SettingKeys \ dirty : model[k] = InForce(k, Stored(k))
    BY <2>1, <2>2 DEF Inv, KeptInv
  <2>4. wifi.ssid # Empty /\ {"n", "ssid"} \intersect torn = {} =>
          Stored("n") > 0 /\ wifi.ssid = Stored("ssid")
    BY <2>1, <2>2, KeysApart DEF Inv, KeptInv, SavedAsAsked, NetKeys
  <2>5. QED  BY <2>3, <2>4 DEF RebootChangesNothing
<1>2. QED  BY <1>1, AlwaysInv, PTL

=============================================================================
