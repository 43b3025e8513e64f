------------------------------ MODULE Settings ------------------------------
(***************************************************************************)
(* The settings of one organization: SettingsService, the data migration   *)
(* of SettingsMigrationService and the plan change of AdminService, which  *)
(* all write the same JSON column.                                         *)
(*                                                                         *)
(* The JSON is a function from its keys to whoever wrote them last.  A     *)
(* user's edit merges into the JSON it read and is written only when       *)
(* settingsVersion has not moved; a plan change and the migration write    *)
(* back the JSON they read without looking at the version, and without     *)
(* moving it.  A refused request changes nothing and is not modelled.      *)
(***************************************************************************)
EXTENDS Naturals

CONSTANTS
    SettingsRequests,   \* PUT /settings, PUT /settings/prefix, PATCH plan, the migration
    Unset,              \* the key is absent
    Legacy              \* what the organization had before the settings were typed

ASSUME SettingsAssumption == Unset \notin SettingsRequests /\ Legacy \notin SettingsRequests \cup {Unset}

VARIABLES
    settings,           \* Organization.settings
    settingsVersion,
    plan,               \* Organization.plan
    salePrefix,         \* the prefix of the latest SALE sequence row
    settingsRequest,    \* progress of each request
    latest,             \* history: the last accepted edit of each key, and the last downgrade
    clobbered           \* history: a stale plan change or migration was written

settingsVars == <<settings, settingsVersion, plan, salePrefix, settingsRequest, latest,
                  clobbered>>

EditableKeys == {"printHeader", "custom.theme"}   \* a typed key and one in the custom section
SettingsKeys == EditableKeys \cup {"downgradeFlags", "receiptPrefix", "custom.receiptPrefix"}
SettingsWriters == SettingsRequests \cup {Unset, Legacy}

SettingsIdle == [at |-> "new", seen |-> [k \in SettingsKeys |-> Unset], version |-> 0,
                 keys |-> {}]
SettingsAt(r, step) == settingsRequest[r].at = step
SettingsGoto(r, step) == settingsRequest' = [settingsRequest EXCEPT ![r].at = step]
SettingsAnswer(r) == settingsRequest' = [settingsRequest EXCEPT ![r] = [SettingsIdle EXCEPT !.at = "done"]]

\* An organization that predates the typed settings: its prefix is still in the JSON.
SettingsInit ==
    /\ settings = [k \in SettingsKeys |-> IF k = "receiptPrefix" THEN Legacy ELSE Unset]
    /\ settingsVersion = 0
    /\ plan = "PRO"
    /\ salePrefix = Unset
    /\ settingsRequest = [r \in SettingsRequests |-> SettingsIdle]
    /\ latest = [k \in EditableKeys \cup {"downgradeFlags"} |-> Unset]
    /\ clobbered = FALSE

\* organization.findUnique
ReadSettings(r, step, keys) ==
    /\ SettingsAt(r, "new")
    /\ settingsRequest' = [settingsRequest EXCEPT ![r] =
           [at |-> step, seen |-> settings, version |-> settingsVersion, keys |-> keys]]
    /\ UNCHANGED <<settings, settingsVersion, plan, salePrefix, latest, clobbered>>

---------------------------------------------------------------------------
(* PUT /settings *)

\* mergeSettingsJson: system and typed keys stay, an unknown key at the root
\* moves into the custom section, and the keys that were sent are overlaid.
Merged(seen, r, keys) ==
    [k \in SettingsKeys |->
        IF k \in keys THEN r
        ELSE IF k = "receiptPrefix" THEN Unset
        ELSE IF k = "custom.receiptPrefix" /\ seen["receiptPrefix"] # Unset
             THEN seen["receiptPrefix"]
        ELSE seen[k]]

EditSettingsRead(r) ==
    \E keys \in SUBSET EditableKeys : keys # {} /\ ReadSettings(r, "edit", keys)

SameVersion(r) == settingsVersion = settingsRequest[r].version

\* updateMany({ settingsVersion }); no row is a 409
EditSettingsWrite(r) ==
    /\ SettingsAt(r, "edit")
    /\ \/ /\ SameVersion(r)
          /\ settings' = Merged(settingsRequest[r].seen, r, settingsRequest[r].keys)
          /\ settingsVersion' = settingsVersion + 1
          /\ latest' = [k \in DOMAIN latest |->
                 IF k \in settingsRequest[r].keys THEN r ELSE latest[k]]
       \/ /\ ~SameVersion(r)
          /\ UNCHANGED <<settings, settingsVersion, latest>>
    /\ SettingsAnswer(r)
    /\ UNCHANGED <<plan, salePrefix, clobbered>>

(* PUT /settings/prefix: the prefix of the latest SALE row *)
EditPrefix(r) ==
    /\ SettingsAt(r, "new")
    /\ salePrefix' = r
    /\ SettingsAnswer(r)
    /\ UNCHANGED <<settings, settingsVersion, plan, latest, clobbered>>

---------------------------------------------------------------------------
(* PATCH /admin/organizations/:id/plan *)

\* From PRO to BASIC the counts are read next; any other change writes the plan alone.
PlanRead(r) ==
    \/ plan = "PRO" /\ ReadSettings(r, "flags", {})
    \/ plan = "PRO" /\ ReadSettings(r, "stay", {})
    \/ plan = "BASIC" /\ ReadSettings(r, "upgrade", {})

\* Written over the JSON as it was read: stale when it has changed since.
WriteUnversioned(r, json) ==
    /\ settings' = json
    /\ clobbered' = (clobbered \/ settingsVersion # settingsRequest[r].version)

WithFlags(r) == [settingsRequest[r].seen EXCEPT !["downgradeFlags"] = r]

DowngradeWrite(r) ==
    /\ SettingsAt(r, "flags")
    /\ WriteUnversioned(r, WithFlags(r))
    /\ plan' = "BASIC"
    /\ latest' = [latest EXCEPT !["downgradeFlags"] = r]
    /\ SettingsAnswer(r)
    /\ UNCHANGED <<settingsVersion, salePrefix>>

PlanWrite(r) ==
    /\ settingsRequest[r].at \in {"stay", "upgrade"}
    /\ plan' \in (IF SettingsAt(r, "stay") THEN {"PRO"} ELSE {"PRO", "BASIC"})
    /\ SettingsAnswer(r)
    /\ UNCHANGED <<settings, settingsVersion, salePrefix, latest, clobbered>>

---------------------------------------------------------------------------
(* SettingsMigrationService.migrateOrganization *)

MigrateRead(r) == ReadSettings(r, "normalize", {})

\* normalizeSettingsJson: the old prefix leaves the JSON, to be written to the
\* SALE row; it is a key of its own, so nothing else moves.
Normalized(seen) == [seen EXCEPT !["receiptPrefix"] = Unset]

MigrateWrite(r) ==
    /\ SettingsAt(r, "normalize")
    /\ WriteUnversioned(r, Normalized(settingsRequest[r].seen))
    /\ IF settingsRequest[r].seen["receiptPrefix"] = Unset
       THEN SettingsAnswer(r)
       ELSE SettingsGoto(r, "relocate")
    /\ UNCHANGED <<settingsVersion, plan, salePrefix, latest>>

\* Mutant: a prefix is not written over.
RelocateNothing(r) == salePrefix
Relocated(r) == settingsRequest[r].seen["receiptPrefix"]

\* The SALE row is there: it is created with its organization, and nothing deletes one.
MigratePrefix(r) ==
    /\ SettingsAt(r, "relocate")
    /\ salePrefix' = Relocated(r)
    /\ SettingsAnswer(r)
    /\ UNCHANGED <<settings, settingsVersion, plan, latest, clobbered>>

\* The process ends between the two writes of the migration.
MigrationInterrupted(r) ==
    /\ SettingsAt(r, "relocate")
    /\ SettingsGoto(r, "failed")
    /\ UNCHANGED <<settings, settingsVersion, plan, salePrefix, latest, clobbered>>

---------------------------------------------------------------------------
SettingsStep(r) ==
    \/ EditSettingsWrite(r) \/ DowngradeWrite(r) \/ PlanWrite(r)
    \/ MigrateWrite(r) \/ MigratePrefix(r) \/ MigrationInterrupted(r)

SettingsNext ==
    \E r \in SettingsRequests :
        EditSettingsRead(r) \/ EditPrefix(r) \/ PlanRead(r) \/ MigrateRead(r) \/ SettingsStep(r)

SettingsSpec == SettingsInit /\ [][SettingsNext]_settingsVars

---------------------------------------------------------------------------
SettingsTypeOK ==
    /\ settings \in [SettingsKeys -> SettingsWriters]
    /\ settingsVersion \in Nat
    /\ plan \in {"PRO", "BASIC"}
    /\ salePrefix \in SettingsWriters
    /\ settingsRequest \in [SettingsRequests ->
         [at : {"new", "edit", "flags", "stay", "upgrade", "normalize", "relocate", "done",
                "failed"},
          seen : [SettingsKeys -> SettingsWriters], version : Nat, keys : SUBSET EditableKeys]]
    /\ latest \in [EditableKeys \cup {"downgradeFlags"} -> SettingsRequests \cup {Unset}]
    /\ clobbered \in BOOLEAN

\* An accepted edit of a key stays until the next accepted edit of that key:
\* edits never lose one another, and plan changes and the migration only lose
\* one that they overlap (settings.service.ts:159-171, admin.service.ts:217-227).
EditsKept == ~clobbered => \A k \in EditableKeys : settings[k] = latest[k]

\* The old prefix is still in the JSON or in the SALE row, wherever edits moved
\* it, unless somebody has set another one or the migration ended half way
\* (settings.service.ts:55-79, migration.ts:113-133).
LegacyPrefixKept ==
    \/ Legacy \in {settings["receiptPrefix"], settings["custom.receiptPrefix"], salePrefix}
    \/ salePrefix \in SettingsRequests
    \/ \E r \in SettingsRequests : settingsRequest[r].at \in {"relocate", "failed"}

\* Nothing that was set is lost: neither an accepted edit nor the prefix of before the
\* migration, in whatever order edits, plan changes and migrations come.
SettingsKept == EditsKept /\ LegacyPrefixKept
=============================================================================
