----------------------- MODULE InterfaceControllerProofs -----------------------
(***************************************************************************)
(* The safety of InterfaceController for any set of interfaces that come   *)
(* and go, any number of writes that fail and any number of restarts.      *)
(***************************************************************************)
EXTENDS InterfaceController, FiniteSetTheorems, TLAPS

MinPlen == "accept_ra_rt_info_min_plen"
MaxPlen == "accept_ra_rt_info_max_plen"
Values == {"kernel", "netd", "caller"}

SettingsTypeOK ==
    /\ sysctl \in [DOMAIN sysctl -> [Parameters -> Values]]
    /\ DOMAIN sysctl \subseteq InterfaceNames \cup {"default"} /\ "default" \in DOMAIN sysctl
    /\ setup \in [at : 1 .. 9, phase : {"default", "list", "interfaces"}, todo : SUBSET InterfaceNames]
    /\ interfaceFaults \in Nat

(* No parameter of a setting has the value of the kernel. *)
Written(i, setting) == \A p \in ParametersOf(setting) : sysctl[i][p] # KernelDefault

(* What initializeAll has done, when no write has failed and netd was not restarted. *)
SetupDone ==
    /\ \A s \in 1 .. setup.at - 1 : \A i \in DOMAIN sysctl : Written(i, s)
    /\ setup.phase # "default" => Written("default", setup.at)
    /\ setup.phase = "interfaces" => \A i \in existing \ setup.todo : Written(i, setup.at)

RouteInfoInOrder(i) == sysctl[i][MaxPlen] = "netd" => sysctl[i][MinPlen] # KernelDefault

(***************************************************************************)
(* The inductive invariant of the settings.  A setting that is done holds  *)
(* for "default" too, which is why an interface that appears later has it. *)
(***************************************************************************)
SettingsInv ==
    /\ SettingsTypeOK
    /\ setup.at = 9 => setup.phase = "default"
    /\ interfaceFaults = 0 => SetupDone
    /\ \A i \in DOMAIN sysctl : RouteInfoInOrder(i)

(* A call of enableStablePrivacyAddresses in progress. *)
PrivacyCalls == [pc : {"write", "persist"}, oldSecret : Nat, secret : Nat \ {kUninitialized}]

PrivacyTypeOK ==
    /\ secret \in [property : Nat, of : [InterfaceNames -> Nat], generated : Nat, done : SUBSET InterfaceNames]
    /\ privacyCall \in [InterfaceNames -> {NoPrivacyCall} \cup PrivacyCalls]

(* What a call knows is what the property says, and it writes the secret before it persists it. *)
CallInStep(i) ==
    privacyCall[i] # NoPrivacyCall =>
        /\ i \notin secret.done
        /\ privacyCall[i].oldSecret = secret.property
        /\ secret.property # kUninitialized => privacyCall[i].secret = secret.property
        /\ privacyCall[i].pc = "persist" => secret.of[i] = privacyCall[i].secret

(***************************************************************************)
(* The inductive invariant of the secret, for one call at a time: the      *)
(* property is set as soon as one call has succeeded, and never changes    *)
(* once it is.                                                             *)
(***************************************************************************)
PrivacyInv ==
    /\ PrivacyTypeOK
    /\ \A i, j \in InterfaceNames : privacyCall[i] # NoPrivacyCall /\ privacyCall[j] # NoPrivacyCall => i = j
    /\ \A i \in InterfaceNames : CallInStep(i)
    /\ \A i \in secret.done : secret.of[i] = secret.property /\ secret.property # kUninitialized

-----------------------------------------------------------------------------
(* The settings of initializeAll: setAcceptIPv6RIO writes the minimum before the maximum. *)
LEMMA SettingsShape ==
    /\ Len(Settings) = 8
    /\ MinPlen \in Parameters /\ MaxPlen \in Parameters
    /\ \A s \in 1 .. 8 : ParametersOf(s) \subseteq Parameters
    /\ \A p \in Parameters : \E s \in 1 .. 8 : p \in ParametersOf(s)
    /\ \A s \in 1 .. 8 : MaxPlen \in ParametersOf(s) => MinPlen \in ParametersOf(s)
    /\ \A s \in 1 .. 8 : \A n \in 0 .. Len(Settings[s]) - 1 :
          MaxPlen \notin {Settings[s][j] : j \in 1 .. n}
<1>1. Len(Settings) = 8 /\ DOMAIN Settings = 1 .. 8
  BY DEF Settings
<1>2. /\ Settings[1] = <<"accept_ra">> /\ Settings[2] = <<MinPlen, MaxPlen>>
      /\ Settings[3] = <<"accept_ra_rt_table">> /\ Settings[4] = <<"optimistic_dad">>
      /\ Settings[5] = <<"use_optimistic">> /\ Settings[6] = <<"base_reachable_time_ms">>
      /\ Settings[7] = <<"use_oif_addrs_only">> /\ Settings[8] = <<"accept_redirects">>
  BY DEF Settings, MinPlen, MaxPlen
<1>3. \A s \in 1 .. 8 : s # 2 => Len(Settings[s]) = 1 /\ Settings[s][1] # MaxPlen
  <2> SUFFICES ASSUME NEW s \in 1 .. 8, s # 2 PROVE Len(Settings[s]) = 1 /\ Settings[s][1] # MaxPlen
    OBVIOUS
  <2>1. s = 1 \/ s = 3 \/ s = 4 \/ s = 5 \/ s = 6 \/ s = 7 \/ s = 8
    OBVIOUS
  <2> QED
    BY <1>2, <2>1 DEF MaxPlen
<1>4. \A s \in 1 .. 8 : ParametersOf(s) \subseteq Parameters
  BY <1>1 DEF ParametersOf, Parameters
<1>5. \A p \in Parameters : \E s \in 1 .. 8 : p \in ParametersOf(s)
  BY <1>1 DEF ParametersOf, Parameters
<1>6. /\ DOMAIN Settings[2] = 1 .. 2 /\ Len(Settings[2]) = 2
      /\ Settings[2][1] = MinPlen /\ Settings[2][2] = MaxPlen
  BY <1>2
<1>7. MinPlen \in ParametersOf(2) /\ MaxPlen \in ParametersOf(2)
  BY <1>6 DEF ParametersOf
<1>8. \A s \in 1 .. 8 : s # 2 => DOMAIN Settings[s] = 1 .. 1
  <2> SUFFICES ASSUME NEW s \in 1 .. 8, s # 2 PROVE DOMAIN Settings[s] = 1 .. 1
    OBVIOUS
  <2>1. s = 1 \/ s = 3 \/ s = 4 \/ s = 5 \/ s = 6 \/ s = 7 \/ s = 8
    OBVIOUS
  <2> QED
    BY <1>2, <2>1
<1>9. \A s \in 1 .. 8 : MaxPlen \in ParametersOf(s) => s = 2
  BY <1>3, <1>8 DEF ParametersOf
<1>10. ASSUME NEW s \in 1 .. 8, NEW n \in 0 .. Len(Settings[s]) - 1, NEW j \in 1 .. n
       PROVE  Settings[s][j] # MaxPlen
  <2>1. CASE s = 2
    <3>1. Len(Settings[s]) = 2
      BY <1>6, <2>1
    <3>2. j = 1
      BY <3>1
    <3> QED
      BY <1>6, <2>1, <3>2 DEF MinPlen, MaxPlen
  <2>2. CASE s # 2
    BY <1>3, <2>2
  <2> QED
    BY <2>1, <2>2
<1>11. \A s \in 1 .. 8 : \A n \in 0 .. Len(Settings[s]) - 1 :
          MaxPlen \notin {Settings[s][j] : j \in 1 .. n}
  BY <1>10
<1>12. MinPlen \in Parameters /\ MaxPlen \in Parameters
  BY <1>4, <1>7
<1>13. \A s \in 1 .. 8 : MaxPlen \in ParametersOf(s) => MinPlen \in ParametersOf(s)
  BY <1>7, <1>9
<1> QED
  BY <1>1, <1>4, <1>5, <1>11, <1>12, <1>13

(* What writeValueToPath for some parameters of an interface does. *)
LEMMA WriteEffect ==
    ASSUME SettingsTypeOK, NEW name \in DOMAIN sysctl, NEW W, WriteSetting(name, W)
    PROVE  /\ DOMAIN sysctl' = DOMAIN sysctl
           /\ sysctl' \in [DOMAIN sysctl' -> [Parameters -> Values]]
           /\ \A p \in Parameters : sysctl'[name][p] = IF p \in W THEN "netd" ELSE sysctl[name][p]
           /\ \A i \in DOMAIN sysctl \ {name} : sysctl'[i] = sysctl[i]
<1> DEFINE new == [p \in Parameters |-> IF p \in W THEN "netd" ELSE sysctl[name][p]]
<1>1. sysctl' = [sysctl EXCEPT ![name] = new]
  BY DEF WriteSetting
<1>2. sysctl[name] \in [Parameters -> Values]
  BY DEF SettingsTypeOK
<1>3. new \in [Parameters -> Values]
  BY <1>2 DEF Values
<1>4. \A p \in Parameters : new[p] = IF p \in W THEN "netd" ELSE sysctl[name][p]
  OBVIOUS
<1> HIDE DEF new
<1> QED
  BY <1>1, <1>3, <1>4 DEF SettingsTypeOK

(* A setting stays written as long as no parameter gets the kernel's value back. *)
LEMMA WrittenKept ==
    ASSUME NEW i, NEW s \in 1 .. 8, Written(i, s),
           \A p \in Parameters : sysctl[i][p] # KernelDefault => sysctl'[i][p] # KernelDefault
    PROVE  Written(i, s)'
BY SettingsShape DEF Written

(***************************************************************************)
(* A write to one interface, or to "default", and where it leaves          *)
(* initializeAll.                                                          *)
(***************************************************************************)
LEMMA WritePreserves ==
    ASSUME SettingsInv, NEW name \in DOMAIN sysctl, NEW W, WriteSetting(name, W),
           MaxPlen \in W => MinPlen \in W
    PROVE  /\ \A i \in DOMAIN sysctl, s \in 1 .. 8 : Written(i, s) => Written(i, s)'
           /\ \A s \in 1 .. 8 : ParametersOf(s) \subseteq W => Written(name, s)'
           /\ \A i \in DOMAIN sysctl' : RouteInfoInOrder(i)'
<1>1. /\ DOMAIN sysctl' = DOMAIN sysctl
      /\ \A p \in Parameters : sysctl'[name][p] = IF p \in W THEN "netd" ELSE sysctl[name][p]
      /\ \A i \in DOMAIN sysctl \ {name} : sysctl'[i] = sysctl[i]
  BY WriteEffect DEF SettingsInv
<1>2. ASSUME NEW i \in DOMAIN sysctl, NEW s \in 1 .. 8, Written(i, s) PROVE Written(i, s)'
  BY <1>1, <1>2, WrittenKept DEF KernelDefault
<1>3. ASSUME NEW s \in 1 .. 8, ParametersOf(s) \subseteq W PROVE Written(name, s)'
  BY <1>1, <1>3, SettingsShape DEF Written, KernelDefault
<1>4. ASSUME NEW i \in DOMAIN sysctl' PROVE RouteInfoInOrder(i)'
  <2>1. RouteInfoInOrder(i)
    BY <1>1 DEF SettingsInv
  <2> QED
    BY <1>1, <2>1, SettingsShape DEF RouteInfoInOrder, KernelDefault
<1> QED
  BY <1>2, <1>3, <1>4

(* netd starts. *)
LEMMA SettingsInitially == InterfaceInit => SettingsInv
<1> SUFFICES ASSUME InterfaceInit PROVE SettingsInv
  OBVIOUS
<1>1. PICK present \in SUBSET InterfaceNames :
         sysctl = [i \in present \cup {"default"} |-> [p \in Parameters |-> KernelDefault]]
  BY DEF InterfaceInit
<1>2. setup = [at |-> 1, phase |-> "default", todo |-> {}] /\ interfaceFaults = 0
  BY DEF InterfaceInit
<1>3. SettingsTypeOK
  BY <1>1, <1>2 DEF SettingsTypeOK, Values, KernelDefault
<1>4. \A i \in DOMAIN sysctl : RouteInfoInOrder(i)
  BY <1>1, SettingsShape DEF RouteInfoInOrder, KernelDefault
<1>5. SetupDone
  BY <1>2 DEF SetupDone
<1> QED
  BY <1>2, <1>3, <1>4, <1>5 DEF SettingsInv

-----------------------------------------------------------------------------
(* forEachInterface writes "default" ... *)
LEMMA WriteDefaultPreserves == SettingsInv /\ writeDefault => SettingsInv'
<1> SUFFICES ASSUME SettingsInv, writeDefault PROVE SettingsInv'
  OBVIOUS
<1>0. PICK at \in 1 .. 8 : at = setup.at
  BY SettingsShape DEF writeDefault, SettingsInv, SettingsTypeOK
<1>1. /\ setup.phase = "default"
      /\ WriteSetting("default", ParametersOf(at))
      /\ setup' = [setup EXCEPT !.phase = "list"] /\ interfaceFaults' = interfaceFaults
      /\ "default" \in DOMAIN sysctl
  BY <1>0 DEF writeDefault, SettingsInv, SettingsTypeOK
<1>2. setup'.at = at /\ setup'.phase = "list" /\ setup'.todo = setup.todo
  BY <1>0, <1>1 DEF SettingsInv, SettingsTypeOK
<1>3. DOMAIN sysctl' = DOMAIN sysctl /\ sysctl' \in [DOMAIN sysctl' -> [Parameters -> Values]]
  BY <1>1, WriteEffect DEF SettingsInv
<1>4. SettingsTypeOK'
  <2>1. setup' \in [at : 1 .. 9, phase : {"default", "list", "interfaces"}, todo : SUBSET InterfaceNames]
    BY <1>0, <1>1 DEF SettingsInv, SettingsTypeOK
  <2> QED
    BY <1>1, <1>3, <2>1 DEF SettingsInv, SettingsTypeOK
<1>5. /\ \A i \in DOMAIN sysctl, s \in 1 .. 8 : Written(i, s) => Written(i, s)'
      /\ Written("default", at)'
      /\ \A i \in DOMAIN sysctl' : RouteInfoInOrder(i)'
  <2>1. MaxPlen \in ParametersOf(at) => MinPlen \in ParametersOf(at)
    BY <1>1, SettingsShape
  <2> QED
    BY <1>1, <2>1, WritePreserves
<1>6. ASSUME interfaceFaults = 0 PROVE SetupDone'
  <2>1. SetupDone
    BY <1>6 DEF SettingsInv
  <2>2. \A s \in 1 .. at - 1 : \A i \in DOMAIN sysctl : s \in 1 .. 8 /\ Written(i, s)
    BY <1>0, <2>1 DEF SetupDone
  <2>3. \A s \in 1 .. at - 1 : \A i \in DOMAIN sysctl : Written(i, s)'
    BY <1>5, <2>2
  <2>4. Written("default", setup.at)'
    BY <1>2, <1>5
  <2>5. \A s \in 1 .. setup'.at - 1 : \A i \in DOMAIN sysctl' : Written(i, s)'
    BY <1>2, <1>3, <2>3
  <2> QED
    BY <1>2, <2>4, <2>5 DEF SetupDone
<1> QED
  BY <1>0, <1>1, <1>2, <1>4, <1>5, <1>6 DEF SettingsInv

(* ... lists the interfaces ... *)
LEMMA ListPreserves == SettingsInv /\ listInterfaces => SettingsInv'
<1> SUFFICES ASSUME SettingsInv, listInterfaces PROVE SettingsInv'
  OBVIOUS
<1>1. /\ setup.phase = "list" /\ setup' = [setup EXCEPT !.phase = "interfaces", !.todo = existing]
      /\ UNCHANGED <<sysctl, interfaceFaults>>
  BY DEF listInterfaces
<1>2. existing \subseteq InterfaceNames
  BY DEF existing, SettingsInv, SettingsTypeOK
<1>3. /\ setup'.at = setup.at /\ setup'.phase = "interfaces" /\ setup'.todo = existing
      /\ setup' \in [at : 1 .. 9, phase : {"default", "list", "interfaces"}, todo : SUBSET InterfaceNames]
  BY <1>1, <1>2, Zenon DEF SettingsInv, SettingsTypeOK
<1>4. SettingsTypeOK'
  BY <1>1, <1>3 DEF SettingsInv, SettingsTypeOK
<1>5. \A i \in DOMAIN sysctl' : RouteInfoInOrder(i)'
  BY <1>1 DEF SettingsInv, RouteInfoInOrder
<1>6. SetupDone => SetupDone'
  BY <1>1, <1>3 DEF SetupDone, Written, existing
<1> QED
  BY <1>1, <1>3, <1>4, <1>5, <1>6 DEF SettingsInv

(* ... and goes on to the next setting when all of them were written. *)
LEMMA NextSettingPreserves == SettingsInv /\ nextSetting => SettingsInv'
<1> SUFFICES ASSUME SettingsInv, nextSetting PROVE SettingsInv'
  OBVIOUS
<1>1. /\ setup.phase = "interfaces" /\ setup.todo = {}
      /\ setup' = [at |-> setup.at + 1, phase |-> "default", todo |-> {}]
      /\ UNCHANGED <<sysctl, interfaceFaults>>
  BY DEF nextSetting
<1>2. setup.at \in 1 .. 8
  BY <1>1 DEF SettingsInv, SettingsTypeOK
<1>3. SettingsTypeOK'
  BY <1>1, <1>2 DEF SettingsInv, SettingsTypeOK
<1>4. \A i \in DOMAIN sysctl' : RouteInfoInOrder(i)'
  BY <1>1 DEF SettingsInv, RouteInfoInOrder
<1>5. ASSUME SetupDone PROVE SetupDone'
  <2>1. \A i \in DOMAIN sysctl : Written(i, setup.at)
    BY <1>1, <1>5 DEF SetupDone, existing
  <2>2. \A s \in 1 .. setup.at : \A i \in DOMAIN sysctl : Written(i, s)
    <3> SUFFICES ASSUME NEW s \in 1 .. setup.at, NEW i \in DOMAIN sysctl PROVE Written(i, s)
      OBVIOUS
    <3>1. s = setup.at \/ s \in 1 .. setup.at - 1
      BY <1>2
    <3> QED
      BY <1>5, <2>1, <3>1 DEF SetupDone
  <2>3. setup'.at - 1 = setup.at /\ setup'.phase = "default"
    BY <1>1, <1>2
  <2>4. \A s \in 1 .. setup'.at - 1 : \A i \in DOMAIN sysctl' : Written(i, s)'
    BY <1>1, <2>2, <2>3 DEF Written
  <2> QED
    BY <2>3, <2>4 DEF SetupDone
<1> QED
  BY <1>1, <1>3, <1>4, <1>5 DEF SettingsInv

(***************************************************************************)
(* The write to an interface, which may be gone, and may fail on the way.  *)
(* A failed write ends the claim about initializeAll, not the one about    *)
(* the order of the two writes of setAcceptIPv6RIO.                        *)
(***************************************************************************)
LEMMA WriteInterfacePreserves ==
    ASSUME SettingsInv, NEW i \in InterfaceNames, writeInterface(i)
    PROVE  SettingsInv'
<1> DEFINE at == setup.at
<1>1. /\ setup.phase = "interfaces" /\ i \in setup.todo
      /\ setup' = [setup EXCEPT !.todo = @ \ {i}]
  BY DEF writeInterface
<1>2. /\ setup'.at = at /\ setup'.phase = "interfaces" /\ setup'.todo = setup.todo \ {i} /\ at \in 1 .. 8
      /\ setup' \in [at : 1 .. 9, phase : {"default", "list", "interfaces"}, todo : SUBSET InterfaceNames]
  BY <1>1 DEF SettingsInv, SettingsTypeOK
<1>3. CASE i \notin existing
  <2>1. UNCHANGED <<sysctl, interfaceFaults>>
    BY <1>3 DEF writeInterface
  <2>2. SettingsTypeOK'
    BY <1>2, <2>1 DEF SettingsInv, SettingsTypeOK
  <2>3. \A j \in DOMAIN sysctl' : RouteInfoInOrder(j)'
    BY <2>1 DEF SettingsInv, RouteInfoInOrder
  <2>4. SetupDone => SetupDone'
    BY <1>1, <1>2, <1>3, <2>1 DEF SetupDone, Written, existing
  <2> QED
    BY <1>2, <2>1, <2>2, <2>3, <2>4 DEF SettingsInv
<1>4. CASE i \in existing /\ WriteSetting(i, ParametersOf(at)) /\ UNCHANGED interfaceFaults
  <2>1. DOMAIN sysctl' = DOMAIN sysctl /\ sysctl' \in [DOMAIN sysctl' -> [Parameters -> Values]]
    BY <1>4, WriteEffect DEF SettingsInv, existing
  <2>2. SettingsTypeOK'
    BY <1>2, <1>4, <2>1 DEF SettingsInv, SettingsTypeOK
  <2>3. /\ \A j \in DOMAIN sysctl, s \in 1 .. 8 : Written(j, s) => Written(j, s)'
        /\ \A s \in 1 .. 8 : ParametersOf(s) \subseteq ParametersOf(at) => Written(i, s)'
        /\ \A j \in DOMAIN sysctl' : RouteInfoInOrder(j)'
    <3>1. MaxPlen \in ParametersOf(at) => MinPlen \in ParametersOf(at)
      BY <1>2, SettingsShape
    <3>2. i \in DOMAIN sysctl
      BY <1>4 DEF existing
    <3> HIDE DEF at
    <3> QED
      BY <1>4, <3>1, <3>2, WritePreserves
  <2>4. ASSUME SetupDone PROVE SetupDone'
    <3>1. \A s \in 1 .. at - 1 : \A j \in DOMAIN sysctl : s \in 1 .. 8 /\ Written(j, s)
      BY <1>2, <2>4 DEF SetupDone
    <3>2. \A s \in 1 .. setup'.at - 1 : \A j \in DOMAIN sysctl' : Written(j, s)'
      BY <1>2, <2>1, <2>3, <3>1
    <3>3. Written("default", at) /\ \A j \in existing \ setup.todo : Written(j, at)
      BY <1>1, <2>4 DEF SetupDone
    <3>4. \A j \in existing' \ setup'.todo : j \in DOMAIN sysctl /\ (j = i \/ Written(j, at))
      BY <1>2, <2>1, <3>3 DEF existing
    <3>5. "default" \in DOMAIN sysctl
      BY DEF SettingsInv, SettingsTypeOK
    <3>6. \A p \in ParametersOf(at) : sysctl'["default"][p] # KernelDefault
      BY <1>2, <2>3, <3>3, <3>5 DEF Written
    <3>7. \A j \in existing' \ setup'.todo : \A p \in ParametersOf(at) : sysctl'[j][p] # KernelDefault
      BY <1>2, <2>3, <3>4 DEF Written
    <3> QED
      BY <1>2, <3>2, <3>6, <3>7 DEF SetupDone, Written
  <2> QED
    BY <1>2, <1>4, <2>2, <2>3, <2>4 DEF SettingsInv
<1>5. ASSUME i \in existing, Fault, NEW n \in 0 .. Len(Settings[at]) - 1,
             WriteSetting(i, {Settings[at][j] : j \in 1 .. n})
      PROVE  SettingsInv'
  <2> DEFINE W == {Settings[at][j] : j \in 1 .. n}
  <2>1. i \in DOMAIN sysctl /\ WriteSetting(i, W)
    BY <1>5 DEF existing
  <2>2. MaxPlen \notin W
    BY <1>2, SettingsShape, Zenon
  <2> HIDE DEF W
  <2>3. DOMAIN sysctl' = DOMAIN sysctl /\ sysctl' \in [DOMAIN sysctl' -> [Parameters -> Values]]
    BY <2>1, WriteEffect DEF SettingsInv
  <2>4. \A j \in DOMAIN sysctl' : RouteInfoInOrder(j)'
    BY <2>1, <2>2, WritePreserves
  <2>5. interfaceFaults' \in Nat /\ interfaceFaults' # 0
    BY <1>5 DEF Fault, SettingsInv, SettingsTypeOK
  <2>6. SettingsTypeOK'
    BY <1>2, <2>3, <2>5 DEF SettingsInv, SettingsTypeOK
  <2> QED
    BY <1>2, <2>4, <2>5, <2>6 DEF SettingsInv
<1> QED
  BY <1>3, <1>4, <1>5, Zenon DEF writeInterface

(* A caller sets one parameter. *)
LEMMA ParameterPreserves == SettingsInv /\ ParameterNext => SettingsInv'
<1> SUFFICES ASSUME SettingsInv, NEW i \in DOMAIN sysctl, NEW p \in Parameters, setParameterOf(i, p)
             PROVE  SettingsInv'
  BY InterfaceAssumption, Zenon DEF ParameterNext, setParameterOf
<1> DEFINE new == [sysctl[i] EXCEPT ![p] = "caller"]
<1>1. sysctl' = [sysctl EXCEPT ![i] = new] /\ UNCHANGED <<setup, interfaceFaults>>
  BY DEF setParameterOf
<1>2. sysctl[i] \in [Parameters -> Values]
  BY DEF SettingsInv, SettingsTypeOK
<1>3. /\ new \in [Parameters -> Values]
      /\ \A q \in Parameters : new[q] = IF q = p THEN "caller" ELSE sysctl[i][q]
  BY <1>2 DEF Values
<1> HIDE DEF new
<1>4. /\ DOMAIN sysctl' = DOMAIN sysctl /\ sysctl' \in [DOMAIN sysctl' -> [Parameters -> Values]]
      /\ \A q \in Parameters : sysctl'[i][q] = IF q = p THEN "caller" ELSE sysctl[i][q]
      /\ \A j \in DOMAIN sysctl \ {i} : sysctl'[j] = sysctl[j]
  BY <1>1, <1>3 DEF SettingsInv, SettingsTypeOK
<1>5. SettingsTypeOK'
  BY <1>1, <1>4 DEF SettingsInv, SettingsTypeOK
<1>6. ASSUME NEW j \in DOMAIN sysctl, NEW s \in 1 .. 8, Written(j, s) PROVE Written(j, s)'
  BY <1>4, <1>6, WrittenKept DEF KernelDefault
<1>7. ASSUME NEW j \in DOMAIN sysctl' PROVE RouteInfoInOrder(j)'
  <2>1. RouteInfoInOrder(j)
    BY <1>4 DEF SettingsInv
  <2> QED
    BY <1>4, <2>1, SettingsShape DEF RouteInfoInOrder, KernelDefault
<1>8. ASSUME SetupDone PROVE SetupDone'
  <2>1. setup.at = 9 /\ setup.phase = "default" /\ setup' = setup
    BY <1>1, SettingsShape DEF setParameterOf, ready, SettingsInv, SettingsTypeOK
  <2>2. \A s \in 1 .. 8 : \A j \in DOMAIN sysctl : Written(j, s)
    BY <1>8, <2>1 DEF SetupDone
  <2>3. \A s \in 1 .. 8 : \A j \in DOMAIN sysctl' : Written(j, s)'
    BY <1>4, <1>6, <2>2
  <2>4. \A s \in 1 .. setup'.at - 1 : s \in 1 .. 8
    BY <2>1
  <2> QED
    BY <2>1, <2>3, <2>4 DEF SetupDone
<1> QED
  BY <1>1, <1>5, <1>7, <1>8 DEF SettingsInv

(* A new interface starts as "default" is. *)
LEMMA CreatePreserves ==
    ASSUME SettingsInv, NEW i \in InterfaceNames, CreateInterface(i)
    PROVE  SettingsInv'
<1>1. /\ i \notin DOMAIN sysctl /\ "default" \in DOMAIN sysctl
      /\ sysctl' = [j \in DOMAIN sysctl \cup {i} |-> IF j = i THEN sysctl["default"] ELSE sysctl[j]]
      /\ UNCHANGED <<setup, interfaceFaults>>
  BY InterfaceAssumption DEF CreateInterface, existing, SettingsInv, SettingsTypeOK
<1>2. /\ DOMAIN sysctl' = DOMAIN sysctl \cup {i} /\ sysctl'[i] = sysctl["default"]
      /\ \A j \in DOMAIN sysctl : sysctl'[j] = sysctl[j]
  BY <1>1
<1>3. SettingsTypeOK'
  <2>1. \A j \in DOMAIN sysctl : sysctl[j] \in [Parameters -> Values]
    BY DEF SettingsInv, SettingsTypeOK
  <2>2. sysctl' \in [DOMAIN sysctl' -> [Parameters -> Values]]
    BY <1>1, <1>2, <2>1
  <2> QED
    BY <1>1, <1>2, <2>2 DEF SettingsInv, SettingsTypeOK
<1>4. \A j \in DOMAIN sysctl' : RouteInfoInOrder(j)'
  BY <1>1, <1>2 DEF SettingsInv, RouteInfoInOrder
<1>5. ASSUME SetupDone PROVE SetupDone'
  <2>1. \A s \in 1 .. setup'.at - 1 : \A j \in DOMAIN sysctl' : Written(j, s)'
    BY <1>1, <1>2, <1>5 DEF SetupDone, Written
  <2>2. setup'.phase # "default" => \A p \in ParametersOf(setup'.at) :
           sysctl'["default"][p] # KernelDefault /\ sysctl'[i][p] # KernelDefault
    BY <1>1, <1>2, <1>5 DEF SetupDone, Written
  <2>3. \A j \in existing' \ {i} : j \in existing /\ sysctl'[j] = sysctl[j]
    BY <1>2 DEF existing
  <2>4. setup'.phase = "interfaces" =>
           \A j \in existing' \ setup'.todo : \A p \in ParametersOf(setup'.at) : sysctl'[j][p] # KernelDefault
    BY <1>1, <1>5, <2>2, <2>3 DEF SetupDone, Written
  <2> QED
    BY <2>1, <2>2, <2>4 DEF SetupDone, Written
<1> QED
  BY <1>1, <1>3, <1>4, <1>5 DEF SettingsInv

(* An interface goes; the write to it that is still to come will find it gone. *)
LEMMA DestroyPreserves ==
    ASSUME SettingsInv, NEW i \in InterfaceNames, DestroyInterface(i)
    PROVE  SettingsInv'
<1>1. /\ i # "default" /\ sysctl' = [j \in DOMAIN sysctl \ {i} |-> sysctl[j]]
      /\ UNCHANGED <<setup, interfaceFaults>>
  BY InterfaceAssumption DEF DestroyInterface
<1>2. DOMAIN sysctl' = DOMAIN sysctl \ {i} /\ \A j \in DOMAIN sysctl' : sysctl'[j] = sysctl[j]
  BY <1>1
<1>3. SettingsTypeOK'
  <2>1. \A j \in DOMAIN sysctl : sysctl[j] \in [Parameters -> Values]
    BY DEF SettingsInv, SettingsTypeOK
  <2>2. sysctl' \in [DOMAIN sysctl' -> [Parameters -> Values]]
    BY <1>1, <1>2, <2>1
  <2> QED
    BY <1>1, <1>2, <2>2 DEF SettingsInv, SettingsTypeOK
<1>4. \A j \in DOMAIN sysctl' : RouteInfoInOrder(j)'
  BY <1>1, <1>2 DEF SettingsInv, RouteInfoInOrder
<1>5. ASSUME SetupDone PROVE SetupDone'
  <2>1. "default" \in DOMAIN sysctl'
    BY <1>1, <1>2 DEF SettingsInv, SettingsTypeOK
  <2> QED
    BY <1>1, <1>2, <1>5, <2>1 DEF SetupDone, Written, existing
<1> QED
  BY <1>1, <1>3, <1>4, <1>5 DEF SettingsInv

(* Steps that write no parameter, whether or not they are faults. *)
LEMMA SettingsFrame ==
    ASSUME SettingsInv, UNCHANGED <<sysctl, setup>>, UNCHANGED interfaceFaults \/ Fault
    PROVE  SettingsInv'
<1>1. interfaceFaults' \in Nat /\ (interfaceFaults' = 0 => interfaceFaults = 0)
  BY DEF Fault, SettingsInv, SettingsTypeOK
<1>2. SettingsTypeOK' /\ (SetupDone => SetupDone')
  BY <1>1 DEF SettingsInv, SettingsTypeOK, SetupDone, Written, existing
<1>3. \A i \in DOMAIN sysctl' : RouteInfoInOrder(i)'
  BY DEF SettingsInv, RouteInfoInOrder
<1> QED
  BY <1>1, <1>2, <1>3 DEF SettingsInv

(* netd restarts and writes all settings again. *)
LEMMA RestartPreserves == SettingsInv /\ RestartNetd => SettingsInv'
<1> SUFFICES ASSUME SettingsInv, RestartNetd PROVE SettingsInv'
  OBVIOUS
<1>1. /\ setup' = [at |-> 1, phase |-> "default", todo |-> {}] /\ sysctl' = sysctl
      /\ interfaceFaults' \in Nat /\ interfaceFaults' # 0
  BY DEF RestartNetd, Fault, SettingsInv, SettingsTypeOK
<1>2. SettingsTypeOK'
  BY <1>1 DEF SettingsInv, SettingsTypeOK
<1>3. \A i \in DOMAIN sysctl' : RouteInfoInOrder(i)'
  BY <1>1 DEF SettingsInv, RouteInfoInOrder
<1> QED
  BY <1>1, <1>2, <1>3 DEF SettingsInv

(* Every step preserves the invariant of the settings. *)
LEMMA SettingsNext == SettingsInv /\ [InterfaceNext]_interfaceVars => SettingsInv'
<1> SUFFICES ASSUME SettingsInv, [InterfaceNext]_interfaceVars PROVE SettingsInv'
  OBVIOUS
<1>1. ASSUME NEW i \in InterfaceNames, ConfigNext(i) PROVE SettingsInv'
  <2>1. UNCHANGED <<sysctl, setup>> /\ (UNCHANGED interfaceFaults \/ Fault)
    BY <1>1 DEF ConfigNext, clearAddrs, setCfg, setCfgFails
  <2> QED
    BY <2>1, SettingsFrame
<1>2. ASSUME NEW i \in InterfaceNames, PrivacyNext(i) PROVE SettingsInv'
  <2>1. UNCHANGED <<sysctl, setup>> /\ (UNCHANGED interfaceFaults \/ Fault)
    BY <1>2 DEF PrivacyNext, enableStablePrivacyAddresses, writeSecret, persistSecret, persistFails
  <2> QED
    BY <2>1, SettingsFrame
<1>3. CASE UNCHANGED interfaceVars
  BY <1>3, SettingsFrame DEF interfaceVars
<1>4. CASE initializeAll
  BY <1>4, WriteDefaultPreserves, ListPreserves, NextSettingPreserves, WriteInterfacePreserves
     DEF initializeAll
<1> QED
  BY <1>1, <1>2, <1>3, <1>4, RestartPreserves, ParameterPreserves, CreatePreserves, DestroyPreserves
     DEF InterfaceNext

(***************************************************************************)
(* initializeAll reaches every interface, also the ones that appear while  *)
(* it runs, and setAcceptIPv6RIO never leaves netd's maximum beside the    *)
(* kernel's minimum.                                                       *)
(***************************************************************************)
THEOREM InterfacesAreConfigured == InterfaceSpec => []EveryInterfaceIsConfigured
<1>1. SettingsInv => EveryInterfaceIsConfigured
  <2> SUFFICES ASSUME SettingsInv, NEW i \in existing
               PROVE  /\ ready /\ interfaceFaults = 0 => \A p \in Parameters : sysctl[i][p] # KernelDefault
                      /\ sysctl[i][MaxPlen] = "netd" => sysctl[i][MinPlen] # KernelDefault
    BY DEF EveryInterfaceIsConfigured, MinPlen, MaxPlen
  <2>1. i \in DOMAIN sysctl /\ RouteInfoInOrder(i)
    BY DEF existing, SettingsInv
  <2>2. ASSUME ready, interfaceFaults = 0, NEW p \in Parameters PROVE sysctl[i][p] # KernelDefault
    <3>1. setup.at = 9
      BY <2>2, SettingsShape DEF ready, SettingsInv, SettingsTypeOK
    <3>2. PICK s \in 1 .. 8 : p \in ParametersOf(s)
      BY SettingsShape
    <3>3. s \in 1 .. setup.at - 1
      BY <3>1
    <3>4. Written(i, s)
      BY <2>1, <2>2, <3>3 DEF SettingsInv, SetupDone
    <3> QED
      BY <3>2, <3>4 DEF Written
  <2> QED
    BY <2>1, <2>2 DEF RouteInfoInOrder
<1> QED
  BY <1>1, SettingsInitially, SettingsNext, PTL DEF InterfaceSpec

-----------------------------------------------------------------------------
(* A call in progress is not the record of no call. *)
LEMMA CallsInProgress == \A c \in PrivacyCalls : c # NoPrivacyCall /\ c.pc # "idle"
<1>1. \A c \in PrivacyCalls : c.pc # "idle"
  BY DEF PrivacyCalls
<1>2. NoPrivacyCall.pc = "idle"
  BY DEF NoPrivacyCall
<1> QED
  BY <1>1, <1>2

(* The fields of the secret after an assignment to one of them, or to two. *)
LEMMA SecretUpdate ==
    ASSUME PrivacyTypeOK, NEW i \in InterfaceNames, NEW v \in Nat
    PROVE  /\ LET s == [secret EXCEPT !.of[i] = v]
              IN  /\ s \in [property : Nat, of : [InterfaceNames -> Nat], generated : Nat, done : SUBSET InterfaceNames]
                  /\ s.property = secret.property /\ s.done = secret.done
                  /\ s.of = [secret.of EXCEPT ![i] = v]
           /\ \A d \in SUBSET InterfaceNames :
                 LET s == [secret EXCEPT !.done = d, !.property = v]
                 IN  /\ s \in [property : Nat, of : [InterfaceNames -> Nat], generated : Nat, done : SUBSET InterfaceNames]
                     /\ s.property = v /\ s.done = d /\ s.of = secret.of
           /\ \A d \in SUBSET InterfaceNames :
                 LET s == [secret EXCEPT !.generated = v, !.done = d]
                 IN  /\ s \in [property : Nat, of : [InterfaceNames -> Nat], generated : Nat, done : SUBSET InterfaceNames]
                     /\ s.property = secret.property /\ s.done = d /\ s.of = secret.of
           /\ \A d \in SUBSET InterfaceNames :
                 LET s == [secret EXCEPT !.of[i] = v, !.done = d]
                 IN  /\ s \in [property : Nat, of : [InterfaceNames -> Nat], generated : Nat, done : SUBSET InterfaceNames]
                     /\ s.property = secret.property /\ s.done = d
                     /\ s.of = [secret.of EXCEPT ![i] = v]
BY Zenon DEF PrivacyTypeOK

(***************************************************************************)
(* The step of a call about one interface: only what it says of that       *)
(* interface, and of the property, has to be looked at.                    *)
(***************************************************************************)
LEMMA PrivacyFrame ==
    ASSUME PrivacyInv, UNCHANGED <<secret, privacyCall>>
    PROVE  PrivacyInv'
BY DEF PrivacyInv, PrivacyTypeOK, CallInStep

(* netd starts. *)
LEMMA PrivacyInitially == InterfaceInit => PrivacyInv
BY DEF InterfaceInit, PrivacyInv, PrivacyTypeOK, CallInStep, kUninitialized

(* The call reads the property, and generates a secret if there is none; no other is in progress. *)
LEMMA EnablePreserves ==
    ASSUME MaxPrivacyCalls = 1, PrivacyInv, NEW i \in InterfaceNames, enableStablePrivacyAddresses(i)
    PROVE  PrivacyInv'
<1> DEFINE new == IF secret.property = kUninitialized THEN secret.generated + 1 ELSE secret.property
           gen == IF new > secret.generated THEN new ELSE secret.generated
           call == [pc |-> "write", oldSecret |-> secret.property, secret |-> new]
           busy == {j \in InterfaceNames : privacyCall[j] # NoPrivacyCall}
<1>1. /\ Cardinality(busy) < 1
      /\ secret' = [secret EXCEPT !.generated = gen, !.done = secret.done \ {i}]
      /\ privacyCall' = [privacyCall EXCEPT ![i] = call]
  BY DEF enableStablePrivacyAddresses
<1>2. busy = {}
  <2>1. IsFiniteSet(busy)
    BY InterfaceAssumption, FS_Subset
  <2>2. Cardinality(busy) \in Nat
    BY <2>1, FS_CardinalityType
  <2>3. Cardinality(busy) = 0
    BY <1>1, <2>2
  <2> QED
    BY <2>1, <2>3, FS_EmptySet
<1>3. \A j \in InterfaceNames : privacyCall[j] = NoPrivacyCall
  BY <1>2
<1>4. new \in Nat \ {kUninitialized} /\ gen \in Nat /\ secret.property \in Nat
      /\ (secret.property # kUninitialized => new = secret.property)
  BY DEF PrivacyInv, PrivacyTypeOK, kUninitialized
<1>5. call \in PrivacyCalls /\ call.oldSecret = secret.property /\ call.secret = new /\ call.pc = "write"
  BY <1>4 DEF PrivacyCalls
<1>6. secret.done \ {i} \in SUBSET InterfaceNames
  BY DEF PrivacyInv, PrivacyTypeOK
<1> HIDE DEF new, gen, call, busy
<1>7. /\ secret' \in [property : Nat, of : [InterfaceNames -> Nat], generated : Nat, done : SUBSET InterfaceNames]
      /\ secret'.property = secret.property /\ secret'.done = secret.done \ {i} /\ secret'.of = secret.of
  BY <1>1, <1>4, <1>6, SecretUpdate, Zenon DEF PrivacyInv
<1>8. /\ privacyCall' \in [InterfaceNames -> {NoPrivacyCall} \cup PrivacyCalls]
      /\ privacyCall'[i] = call
      /\ \A j \in InterfaceNames \ {i} : privacyCall'[j] = NoPrivacyCall
  BY <1>1, <1>3, <1>5 DEF PrivacyInv, PrivacyTypeOK
<1>9. \A j \in InterfaceNames : CallInStep(j)'
  BY <1>4, <1>5, <1>7, <1>8 DEF CallInStep
<1>10. \A j \in secret'.done : secret'.of[j] = secret'.property /\ secret'.property # kUninitialized
  BY <1>7 DEF PrivacyInv
<1> QED
  BY <1>7, <1>8, <1>9, <1>10 DEF PrivacyInv, PrivacyTypeOK

(* A call ends, or is cut off, with the secret as it was. *)
LEMMA CallEndsPreserves ==
    ASSUME PrivacyInv, NEW i \in InterfaceNames,
           privacyCall' = [privacyCall EXCEPT ![i] = NoPrivacyCall], UNCHANGED secret
    PROVE  PrivacyInv'
<1>1. /\ privacyCall' \in [InterfaceNames -> {NoPrivacyCall} \cup PrivacyCalls]
      /\ privacyCall'[i] = NoPrivacyCall
      /\ \A j \in InterfaceNames \ {i} : privacyCall'[j] = privacyCall[j]
  BY DEF PrivacyInv, PrivacyTypeOK
<1>2. \A j \in InterfaceNames : CallInStep(j)'
  BY <1>1 DEF PrivacyInv, CallInStep
<1> QED
  BY <1>1, <1>2 DEF PrivacyInv, PrivacyTypeOK

(* The secret is given to the kernel. *)
LEMMA WriteSecretPreserves ==
    ASSUME PrivacyInv, NEW i \in InterfaceNames, writeSecret(i)
    PROVE  PrivacyInv'
<1>1. privacyCall[i].pc = "write" /\ privacyCall[i] \in PrivacyCalls
  BY DEF writeSecret, PrivacyInv, PrivacyTypeOK, NoPrivacyCall
<1>2. CASE privacyCall' = [privacyCall EXCEPT ![i] = NoPrivacyCall] /\ UNCHANGED secret
  BY <1>2, CallEndsPreserves, Zenon
<1>3. CASE /\ secret' = [secret EXCEPT !.of[i] = privacyCall[i].secret]
           /\ privacyCall' = [privacyCall EXCEPT ![i].pc = "persist"]
  <2> DEFINE call == [privacyCall[i] EXCEPT !.pc = "persist"]
             v == privacyCall[i].secret
  <2>1. /\ call \in PrivacyCalls /\ call.pc = "persist" /\ call.secret = v
        /\ call.oldSecret = privacyCall[i].oldSecret /\ v \in Nat
    BY <1>1 DEF PrivacyCalls
  <2>2. privacyCall' = [privacyCall EXCEPT ![i] = call] /\ secret' = [secret EXCEPT !.of[i] = v]
    BY <1>3
  <2>3. privacyCall[i] # NoPrivacyCall
    BY <1>1, CallsInProgress
  <2>4. i \notin secret.done /\ privacyCall[i].oldSecret = secret.property
        /\ (secret.property # kUninitialized => v = secret.property)
    BY <2>3 DEF PrivacyInv, CallInStep
  <2> HIDE DEF call, v
  <2>5. /\ secret' \in [property : Nat, of : [InterfaceNames -> Nat], generated : Nat, done : SUBSET InterfaceNames]
        /\ secret'.property = secret.property /\ secret'.done = secret.done
        /\ secret'.of = [secret.of EXCEPT ![i] = v]
    BY <2>1, <2>2, SecretUpdate, Zenon DEF PrivacyInv
  <2>6. secret'.of[i] = v /\ \A j \in InterfaceNames \ {i} : secret'.of[j] = secret.of[j]
    BY <2>5 DEF PrivacyInv, PrivacyTypeOK
  <2>7. /\ privacyCall' \in [InterfaceNames -> {NoPrivacyCall} \cup PrivacyCalls]
        /\ privacyCall'[i] = call
        /\ \A j \in InterfaceNames \ {i} : privacyCall'[j] = privacyCall[j]
    BY <2>1, <2>2 DEF PrivacyInv, PrivacyTypeOK
  <2>8. \A j \in InterfaceNames : privacyCall'[j] # NoPrivacyCall => privacyCall[j] # NoPrivacyCall
    BY <2>3, <2>7
  <2>9. ASSUME NEW j \in InterfaceNames PROVE CallInStep(j)'
    <3>1. CASE j = i
      BY <2>1, <2>4, <2>5, <2>6, <2>7, <3>1 DEF CallInStep
    <3>2. CASE j # i
      BY <2>5, <2>6, <2>7, <3>2 DEF PrivacyInv, CallInStep
    <3> QED
      BY <3>1, <3>2
  <2>10. \A j \in secret'.done : secret'.of[j] = secret'.property /\ secret'.property # kUninitialized
    BY <2>4, <2>5, <2>6 DEF PrivacyInv, PrivacyTypeOK
  <2> QED
    BY <2>5, <2>7, <2>8, <2>9, <2>10 DEF PrivacyInv, PrivacyTypeOK
<1> QED
  BY <1>2, <1>3 DEF writeSecret

(* The secret is persisted: if there was none before, no call had succeeded. *)
LEMMA PersistPreserves ==
    ASSUME PrivacyInv, NEW i \in InterfaceNames, persistSecret(i)
    PROVE  PrivacyInv'
<1> DEFINE v == IF privacyCall[i].oldSecret = kUninitialized THEN privacyCall[i].secret ELSE secret.property
<1>1. privacyCall[i].pc = "persist" /\ privacyCall[i] \in PrivacyCalls
  BY DEF persistSecret, PrivacyInv, PrivacyTypeOK, NoPrivacyCall
<1>2. /\ secret' = [secret EXCEPT !.done = secret.done \cup {i}, !.property = v]
      /\ privacyCall' = [privacyCall EXCEPT ![i] = NoPrivacyCall]
  BY DEF persistSecret
<1>3. privacyCall[i] # NoPrivacyCall
  BY <1>1, CallsInProgress
<1>4. /\ privacyCall[i].oldSecret = secret.property /\ secret.of[i] = privacyCall[i].secret
      /\ secret.property # kUninitialized => privacyCall[i].secret = secret.property
  BY <1>1, <1>3 DEF PrivacyInv, CallInStep
<1>5. v \in Nat /\ v # kUninitialized /\ v = secret.of[i]
      /\ (secret.property # kUninitialized => v = secret.property)
  BY <1>1, <1>4 DEF PrivacyCalls
<1>6. secret.done \cup {i} \in SUBSET InterfaceNames
  BY DEF PrivacyInv, PrivacyTypeOK
<1> HIDE DEF v
<1>7. /\ secret' \in [property : Nat, of : [InterfaceNames -> Nat], generated : Nat, done : SUBSET InterfaceNames]
      /\ secret'.property = v /\ secret'.done = secret.done \cup {i} /\ secret'.of = secret.of
  BY <1>2, <1>5, <1>6, SecretUpdate, Zenon DEF PrivacyInv
<1>8. /\ privacyCall' \in [InterfaceNames -> {NoPrivacyCall} \cup PrivacyCalls]
      /\ privacyCall'[i] = NoPrivacyCall
      /\ \A j \in InterfaceNames \ {i} : privacyCall'[j] = privacyCall[j]
  BY <1>2 DEF PrivacyInv, PrivacyTypeOK
<1>9. \A j \in InterfaceNames : privacyCall'[j] = NoPrivacyCall
  BY <1>3, <1>8 DEF PrivacyInv
<1>10. \A j \in secret'.done : secret'.of[j] = secret'.property /\ secret'.property # kUninitialized
  BY <1>5, <1>7 DEF PrivacyInv
<1> QED
  BY <1>7, <1>8, <1>9, <1>10 DEF PrivacyInv, PrivacyTypeOK, CallInStep

(* An interface goes, and the call about it with it. *)
LEMMA DestroyKeepsPrivacy ==
    ASSUME PrivacyInv, NEW i \in InterfaceNames, DestroyInterface(i)
    PROVE  PrivacyInv'
<1> DEFINE v == kUninitialized
<1>1. /\ secret' = [secret EXCEPT !.of[i] = v, !.done = secret.done \ {i}]
      /\ privacyCall' = [privacyCall EXCEPT ![i] = NoPrivacyCall] /\ v \in Nat
  BY DEF DestroyInterface, kUninitialized
<1>2. secret.done \ {i} \in SUBSET InterfaceNames
  BY DEF PrivacyInv, PrivacyTypeOK
<1> HIDE DEF v
<1>3. /\ secret' \in [property : Nat, of : [InterfaceNames -> Nat], generated : Nat, done : SUBSET InterfaceNames]
      /\ secret'.property = secret.property /\ secret'.done = secret.done \ {i}
      /\ secret'.of = [secret.of EXCEPT ![i] = v]
  BY <1>1, <1>2, SecretUpdate, Zenon DEF PrivacyInv
<1>4. \A j \in InterfaceNames \ {i} : secret'.of[j] = secret.of[j]
  BY <1>3 DEF PrivacyInv, PrivacyTypeOK
<1>5. /\ privacyCall' \in [InterfaceNames -> {NoPrivacyCall} \cup PrivacyCalls]
      /\ privacyCall'[i] = NoPrivacyCall
      /\ \A j \in InterfaceNames \ {i} : privacyCall'[j] = privacyCall[j]
  BY <1>1 DEF PrivacyInv, PrivacyTypeOK
<1>6. \A j \in InterfaceNames : CallInStep(j)'
  BY <1>3, <1>4, <1>5 DEF PrivacyInv, CallInStep
<1>7. \A j \in secret'.done : secret'.of[j] = secret'.property /\ secret'.property # kUninitialized
  BY <1>3, <1>4 DEF PrivacyInv, PrivacyTypeOK
<1> QED
  BY <1>3, <1>5, <1>6, <1>7 DEF PrivacyInv, PrivacyTypeOK

(* netd restarts: the calls are gone, the property stays. *)
LEMMA RestartKeepsPrivacy == PrivacyInv /\ RestartNetd => PrivacyInv'
BY DEF PrivacyInv, RestartNetd, PrivacyTypeOK, CallInStep

(* Every step preserves the invariant of the secret, if calls come one at a time. *)
LEMMA PrivacyStep ==
    ASSUME MaxPrivacyCalls = 1, PrivacyInv, [InterfaceNext]_interfaceVars
    PROVE  PrivacyInv'
<1>1. ASSUME NEW i \in InterfaceNames, PrivacyNext(i) PROVE PrivacyInv'
  <2>1. CASE persistFails(i)
    BY <2>1, CallEndsPreserves, Zenon DEF persistFails
  <2> QED
    BY <1>1, <2>1, EnablePreserves, WriteSecretPreserves, PersistPreserves DEF PrivacyNext
<1>2. ASSUME NEW i \in InterfaceNames, ConfigNext(i) \/ CreateInterface(i) PROVE PrivacyInv'
  <2>1. UNCHANGED <<secret, privacyCall>>
    BY <1>2 DEF ConfigNext, clearAddrs, setCfg, setCfgFails, CreateInterface
  <2> QED
    BY <2>1, PrivacyFrame
<1>3. CASE initializeAll \/ ParameterNext \/ UNCHANGED interfaceVars
  <2>1. UNCHANGED <<secret, privacyCall>>
    BY <1>3 DEF initializeAll, writeDefault, listInterfaces, nextSetting, writeInterface,
         ParameterNext, setParameterOf, interfaceVars
  <2> QED
    BY <2>1, PrivacyFrame
<1> QED
  BY <1>1, <1>2, <1>3, RestartKeepsPrivacy, DestroyKeepsPrivacy DEF InterfaceNext

(***************************************************************************)
(* An interface whose setIPv6AddrGenMode succeeded uses the secret that is *)
(* persisted, whatever failed before and wherever netd was stopped, as     *)
(* long as callers wait for one call before they make the next: the        *)
(* function holds no lock.                                                 *)
(***************************************************************************)
THEOREM SecretsStayPersisted ==
    ASSUME MaxPrivacyCalls = 1
    PROVE  InterfaceSpec => []SecretsArePersisted
<1>1. PrivacyInv => SecretsArePersisted
  BY DEF PrivacyInv, SecretsArePersisted
<1>2. PrivacyInv /\ [InterfaceNext]_interfaceVars => PrivacyInv'
  BY PrivacyStep
<1> QED
  BY <1>1, <1>2, PrivacyInitially, PTL DEF InterfaceSpec
================================================================================
