--------------------------- MODULE AdmissionConfig ---------------------------
(***************************************************************************)
(* The admission configuration a QPMTargetController keeps,  *)
(* and what it has told the admission library.  Each controller call runs  *)
(* under the controller's lock and is one action; UTIL_QPM's               *)
(* configure_device_profile is two calls, with the lock dropped between    *)
(* them (Reapplying).  A library call may raise, and then has no effect.   *)
(***************************************************************************)
EXTENDS Naturals, FiniteSets

CONSTANTS Admins,       \* clients of the control-plane API
          Baselines,    \* baseline circuits
          MaxCredits,   \* bound on total_credits
          MaxVersion    \* bound on the number of accepted updates

VARIABLES profile,      \* device_profile: [credits, baseline], or NoProfile
          config,       \* admission_configuration, or NoConfig
          versions,     \* admission_config_versions
          libProfile,   \* the profile the library has registered
          libPolicy,    \* the policy the library applies, with its estimator
          unrepaired,   \* a failed update the library was not restored from
          read,         \* read[a]: what get_admission_policy told a
          at,           \* at[a]: a's place in configure_device_profile
          current       \* current[a]: local of configure_default_admission_policy

avars == <<profile, config, versions, libProfile, libPolicy, unrepaired,
           read, at, current>>

NoProfile == [credits |-> 0, baseline |-> "none"]
NoConfig == [policy |-> "none", credits |-> 0, baseline |-> "none"]

\* A profile without credits has no total_credits; a configuration without
\* a baseline takes the profile's.
Profiles == [credits : 0..MaxCredits, baseline : Baselines]
Requests == [policy : {"unlimited", "credit"}, credits : 0..MaxCredits,
             baseline : Baselines \cup {"none"}]
Configs == [policy : {"unlimited", "credit"}, credits : 0..MaxCredits,
            baseline : Baselines]

AConfigInit ==
    /\ profile = NoProfile /\ config = NoConfig
    /\ versions = [profile |-> 0, policy |-> 0]
    /\ libProfile = NoProfile /\ libPolicy = "none"
    /\ unrepaired = FALSE
    /\ read = [a \in Admins |-> [version |-> 0, config |-> NoConfig]]
    /\ at = [a \in Admins |-> "idle"]
    /\ current = [a \in Admins |-> NoConfig]

\* _normalize_policy_capacity and _normalize_admission_configuration, which
\* raise for a request that is not Valid.
Credits(c) == IF c.credits # 0 THEN c.credits ELSE profile.credits
Valid(c) ==
    /\ profile # NoProfile
    /\ c.policy = "unlimited" => c.credits = 0
    /\ c.policy = "credit" => Credits(c) > 0
NormalConfig(c) ==
    [policy |-> c.policy,
     credits |-> IF c.policy = "credit" THEN Credits(c) ELSE 0,
     baseline |-> IF c.baseline # "none" THEN c.baseline ELSE profile.baseline]
ProfileUnder(c) ==
    [credits |-> IF c.policy = "credit" THEN c.credits ELSE profile.credits,
     baseline |-> c.baseline]

BumpBoth(changed) ==
    versions' = [profile |-> versions.profile + (IF changed THEN 1 ELSE 0),
                 policy |-> versions.policy + 1]
BumpForProfile(changed) ==
    versions' = [v \in {"profile", "policy"} |->
                    versions[v] + (IF changed THEN 1 ELSE 0)]
Bump(changed) == BumpBoth(changed)

\* What the library has registered after `done` of the three calls of an
\* update; the profile is registered only where it changes.
Registered(done, new) ==
    IF done >= 1 /\ ProfileUnder(new) # profile THEN ProfileUnder(new) ELSE libProfile

\* _restore_admission_configuration after `done` of the three library calls
\* succeeded: with nothing to go back to it returns, and it swallows an
\* error of its own, `fails` being how many of its calls succeed.
RestoreForgettingProfile(done, new, fails) ==
    /\ libProfile' = Registered(done, new)
    /\ UNCHANGED <<libPolicy, unrepaired>>
Restore(done, new, fails) ==
    LET nothing == config = NoConfig \/ profile = NoProfile
        calls == IF nothing THEN 0 ELSE fails
    IN  /\ libProfile' = IF calls >= 1 THEN profile ELSE Registered(done, new)
        /\ libPolicy' = IF calls = 3 THEN config.policy ELSE libPolicy
        /\ unrepaired' = (unrepaired \/ (done >= 1 /\ calls < 3))

Unchanged(c) == config = NormalConfig(c)
UpToDate(a, checked) == checked => read[a].version = versions.policy

\* set_admission_policy: `done` library calls succeed, 3 of them is success.
Apply(a, c, checked, done, fails) ==
    LET new == NormalConfig(c) IN
    /\ Valid(c) /\ UpToDate(a, checked) /\ ~Unchanged(c)
    /\ \/ /\ done = 3
          /\ versions.policy < MaxVersion
          /\ libProfile' = Registered(done, new)
          /\ libPolicy' = new.policy
          /\ profile' = ProfileUnder(new) /\ config' = new
          /\ Bump(ProfileUnder(new) # profile)
          /\ unrepaired' = (unrepaired /\ libProfile' # profile')
       \/ /\ done < 3
          /\ Restore(done, new, fails)
          /\ UNCHANGED <<profile, config, versions>>

SetAdmissionPolicy(a) ==
    /\ at[a] = "idle"
    /\ \E c \in Requests, checked \in BOOLEAN, done \in 0..3, fails \in 0..3 :
          (done = 3 => fails = 3) /\ Apply(a, c, checked, done, fails)
    /\ UNCHANGED <<read, at, current>>

GetAdmissionPolicy(a) ==
    /\ at[a] = "idle"
    /\ read' = [read EXCEPT ![a] = [version |-> versions.policy, config |-> config]]
    /\ UNCHANGED <<profile, config, versions, libProfile, libPolicy, unrepaired,
                   at, current>>

\* configure_device_profile of the controller; the caller then reads the
\* configuration, without the lock, to apply it again.
ConfigureDeviceProfile(a) ==
    /\ at[a] = "idle"
    /\ \E p \in Profiles :
          \/ /\ p = profile
             /\ UNCHANGED <<profile, libProfile, versions>>
          \/ /\ p # profile /\ versions.profile < MaxVersion
             /\ profile' = p /\ libProfile' = p
             /\ versions' = [versions EXCEPT !.profile = @ + 1]
    /\ at' = [at EXCEPT ![a] = "read"]
    /\ UNCHANGED <<config, libPolicy, unrepaired, read, current>>

ReadCurrent(a) ==
    /\ at[a] = "read"
    /\ current' = [current EXCEPT ![a] =
                      IF config # NoConfig THEN config
                      ELSE [policy |-> "unlimited", credits |-> 0,
                            baseline |-> profile.baseline]]
    /\ at' = [at EXCEPT ![a] = "apply"]
    /\ UNCHANGED <<profile, config, versions, libProfile, libPolicy, unrepaired,
                   read>>

Reapply(a) ==
    /\ at[a] = "apply"
    /\ at' = [at EXCEPT ![a] = "idle"]
    /\ current' = [current EXCEPT ![a] = NoConfig]
    /\ \/ /\ \E done \in 0..3, fails \in 0..3 :
                (done = 3 => fails = 3) /\ Apply(a, current[a], FALSE, done, fails)
       \/ /\ Valid(current[a]) => Unchanged(current[a])
          /\ UNCHANGED <<profile, config, versions, libProfile, libPolicy, unrepaired>>
    /\ UNCHANGED <<read>>

AConfigNext ==
    \E a \in Admins :
       \/ SetAdmissionPolicy(a) \/ GetAdmissionPolicy(a)
       \/ ConfigureDeviceProfile(a) \/ ReadCurrent(a) \/ Reapply(a)

AConfigSpec == AConfigInit /\ [][AConfigNext]_avars
------------------------------------------------------------------------------
\* A version names one configuration: an administrator whose read is of the
\* version in force has read the configuration in force, so that an update
\* with expected_version never overwrites one its author has not seen.
VersionNamesConfig ==
    \A a \in Admins :
       read[a].version = versions.policy => read[a].config = config

\* Once no failed update is left unrepaired, the library applies the profile
\* and the policy the controller reports, through any sequence of updates,
\* failing library calls and restores.
LibraryInForce ==
    ~unrepaired => /\ libProfile = profile
                   /\ config # NoConfig => libPolicy = config.policy

\* The administrators, the controller and the library agree on what is in
\* force.
ConfigurationAgrees ==
    VersionNamesConfig /\ LibraryInForce
==============================================================================
