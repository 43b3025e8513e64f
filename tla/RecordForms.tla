---------------------------- MODULE RecordForms ----------------------------
(***************************************************************************)
(* The pages that keep one kind of record: inventory, categories,          *)
(* customers, suppliers and expenses.  Each has one form that edits a      *)
(* record or creates one, and dialogs that confirm a removal.  (Their      *)
(* lists are in module RecordList.)                                        *)
(*                                                                         *)
(* A form can be closed (Escape, the backdrop, the cross) and another one  *)
(* opened while a save, the upload of an image or a removal is pending.    *)
(* What its answer then does, it does to whatever is open: a save that     *)
(* succeeded closes the form, an image puts back the text the form had     *)
(* when the file was chosen, and a removed product closes its form.        *)
(*                                                                         *)
(* The text of a form is told by the record it was loaded from and by how  *)
(* often the user typed in it.  One removal and one upload are pending at  *)
(* a time.                                                                 *)
(***************************************************************************)
EXTENDS Naturals, FiniteSets

CONSTANTS
    Records,
    FirstRecords,       \* those that exist when the page is opened
    Forms,              \* the forms the user opens, numbered in that order
    NothingEdited,      \* no record, or no form
    MaxTyped            \* how often the user types in one form

ASSUME RecordFormsAssumption ==
    /\ FirstRecords \subseteq Records
    /\ Forms \subseteq Nat
    /\ NothingEdited \notin Records \cup Forms
    /\ MaxTyped \in Nat

VARIABLES
    recordPage,         \* which page it is
    life,               \* the records on the server
    form,               \* on the screen; due: as it was opened or typed in, an answer was
    save,               \* what each form has sent
    upload,             \* the image that is on its way, with the text of its form
    dialog,             \* what the user is asked to confirm
    removal,            \* the removal that is pending
    mixed,              \* history: records saved with the text of another, without a late image
    lost                \* history: forms that lost their text though no answer was due

formVars == <<recordPage, life, form, save, upload, dialog, removal, mixed, lost>>

NoForm == [open |-> FALSE, session |-> NothingEdited, record |-> NothingEdited, of |-> NothingEdited,
           typed |-> 0, active |-> TRUE, due |-> FALSE, stray |-> FALSE]
Unused == [at |-> "unused", record |-> NothingEdited, of |-> NothingEdited,
           typed |-> 0, stray |-> FALSE]
Idle == [Unused EXCEPT !.at = "idle"]
NoUpload == [session |-> NothingEdited, of |-> NothingEdited, typed |-> 0]
NoDialog == [op |-> "none", record |-> NothingEdited]
NoRemoval == [op |-> "none", record |-> NothingEdited, session |-> NothingEdited, closes |-> FALSE]

FormsInit ==
    /\ recordPage \in {"inventory", "categories", "customers", "suppliers", "expenses"}
    /\ life = [r \in Records |-> IF r \in FirstRecords THEN "active" ELSE "none"]
    /\ form = NoForm
    /\ save = [s \in Forms |-> Unused]
    /\ upload = NoUpload /\ dialog = NoDialog /\ removal = NoRemoval
    /\ mixed = {} /\ lost = {}

Inventory == recordPage = "inventory"
Saving == {s \in Forms : save[s].at = "pending"}
Uploading == upload # NoUpload
\* An answer is due that may close a form, or change what it holds.
Due == Saving # {} \/ Uploading \/ (Inventory /\ removal # NoRemoval)
\* Nothing lies over the page, or over the form.
PageFree == ~form.open /\ dialog = NoDialog
FormFree == form.open /\ dialog = NoDialog
\* The form is closed; record is what the page goes on to remember as edited.
Closed(record) == [NoForm EXCEPT !.record = record]
\* The text of the open form vanishes.
Losing(vanishes) == lost' = IF vanishes /\ ~form.due THEN lost \cup {form.session} ELSE lost

---------------------------------------------------------------------------
(* The form *)

Opens(s, record, of, active) ==
    /\ PageFree
    /\ \A t \in Forms : t < s <=> save[t] # Unused
    /\ form' = [open |-> TRUE, session |-> s, record |-> record, of |-> of, typed |-> 0,
                active |-> active, due |-> Due, stray |-> FALSE]
    /\ save' = [save EXCEPT ![s] = Idle]
    /\ UNCHANGED <<recordPage, life, upload, dialog, removal, mixed, lost>>

\* handleEdit: an inactive product opens too, but cannot be submitted.
EditOpens(s, r) ==
    /\ life[r] = "active" \/ (Inventory /\ life[r] = "inactive")
    /\ Opens(s, r, r, life[r] = "active")

\* Mutant: a new record is opened over the one edited last.
EditingLast == form.record
EditingNew == NothingEdited

\* handleCreate
CreateOpens(s) == Opens(s, EditingNew, NothingEdited, TRUE)

Types ==
    /\ FormFree
    /\ form.typed < MaxTyped
    /\ form' = [form EXCEPT !.typed = @ + 1, !.due = @ \/ Due]
    /\ UNCHANGED <<recordPage, life, save, upload, dialog, removal, mixed, lost>>

\* The record being edited is remembered, unless the form is left with
\* "Cancelar" on the inventory page, or is the form of expenses.
FormCloses ==
    /\ form.open
    /\ \/ recordPage # "expenses" /\ form' = Closed(form.record)
       \/ /\ recordPage = "expenses" \/ (Inventory /\ FormFree)
          /\ form' = Closed(NothingEdited)
    /\ UNCHANGED <<recordPage, life, save, upload, dialog, removal, mixed, lost>>

\* The button waits for the save that is pending; each form of expenses has its own.
Submits ==
    /\ FormFree
    /\ form.active
    /\ IF recordPage = "expenses" THEN form.session \notin Saving ELSE Saving = {}
    /\ save' = [save EXCEPT ![form.session] =
                   [at |-> "pending", record |-> form.record, of |-> form.of,
                    typed |-> form.typed, stray |-> form.stray]]
    /\ UNCHANGED <<recordPage, life, form, upload, dialog, removal, mixed, lost>>

\* The request writes the text it carries to its record, or makes a new one of it.
SaveWrites(s) ==
    \E r \in Records :
        /\ IF save[s].record = NothingEdited THEN life[r] = "none"
           ELSE r = save[s].record /\ life[r] = "active"
        /\ life' = [life EXCEPT ![r] = "active"]
        /\ mixed' = IF save[s].of # save[s].record /\ ~save[s].stray THEN mixed \cup {r} ELSE mixed

\* What is typed is in the form, and the save of s does not carry it.
Unsent(s) == form.open /\ form.typed > (IF form.session = s THEN save[s].typed ELSE 0)

\* The save succeeds: the form that is open is closed.
SaveSucceeds(s) ==
    /\ s \in Saving
    /\ SaveWrites(s)
    /\ save' = [save EXCEPT ![s] = Idle]
    /\ form' = Closed(IF recordPage = "expenses" THEN NothingEdited ELSE form.record)
    /\ Losing(Unsent(s))
    /\ UNCHANGED <<recordPage, upload, dialog, removal>>

\* It is refused, or its answer is lost: the form stays, to be sent again.
SaveFails(s) ==
    /\ s \in Saving
    /\ SaveWrites(s) \/ UNCHANGED <<life, mixed>>
    /\ save' = [save EXCEPT ![s] = Idle]
    /\ UNCHANGED <<recordPage, form, upload, dialog, removal, lost>>

---------------------------------------------------------------------------
(* The image of a product *)

ChoosesImage ==
    /\ Inventory /\ FormFree
    /\ ~Uploading
    /\ upload' = [session |-> form.session, of |-> form.of, typed |-> form.typed]
    /\ UNCHANGED <<recordPage, life, form, save, dialog, removal, mixed, lost>>

\* onChange of the form that chose the file: its text then, with the image.
\* A form that is opened later puts its own text in its place.
ImageArrives ==
    /\ Uploading
    /\ LET own == form.session = upload.session
           kept == IF own THEN upload.typed ELSE 0
           late == [form EXCEPT !.of = upload.of, !.typed = kept, !.stray = @ \/ ~own]
       IN /\ form' = IF form.open THEN late ELSE form
          /\ Losing(form.open /\ form.typed > kept)
    /\ upload' = NoUpload
    /\ UNCHANGED <<recordPage, life, save, dialog, removal, mixed>>

ImageFails ==
    /\ Uploading
    /\ upload' = NoUpload
    /\ UNCHANGED <<recordPage, life, form, save, dialog, removal, mixed, lost>>

---------------------------------------------------------------------------
(* Removals *)

\* From the card of a record; a product is deleted for good from its form.
Asks(op, r) ==
    /\ dialog = NoDialog
    /\ \/ op = "remove" /\ ~form.open /\ life[r] = "active"
       \/ op = "reactivate" /\ Inventory /\ ~form.open /\ life[r] = "inactive"
       \/ op = "delete" /\ Inventory /\ form.open /\ form.record = r
    /\ dialog' = [op |-> op, record |-> r]
    /\ UNCHANGED <<recordPage, life, form, save, upload, removal, mixed, lost>>

DialogCloses ==
    /\ dialog # NoDialog
    /\ dialog' = NoDialog
    /\ UNCHANGED <<recordPage, life, form, save, upload, removal, mixed, lost>>

Removes(op, r) ==
    /\ removal = NoRemoval
    /\ removal' = [op |-> op, record |-> r, session |-> form.session,
                   closes |-> Inventory /\ form.record = r]
    /\ UNCHANGED <<recordPage, life, form, save, upload, dialog, mixed, lost>>

Confirms == dialog # NoDialog /\ Removes(dialog.op, dialog.record)

\* A supplier is reactivated without a question.
ReactivatesSupplier(r) ==
    /\ recordPage = "suppliers" /\ PageFree
    /\ life[r] = "inactive"
    /\ Removes("reactivate", r)

Removed(op) ==
    CASE op = "reactivate" -> "active"
      [] op = "remove" /\ recordPage \in {"inventory", "suppliers"} -> "inactive"
      [] OTHER -> "gone"

RemovalWrites ==
    /\ life[removal.record] \in {"active", "inactive"}
    /\ life' = [life EXCEPT ![removal.record] = Removed(removal.op)]

\* However it ends, its dialog closes.
RemovalEnds ==
    /\ removal # NoRemoval
    /\ \/ /\ RemovalWrites
          /\ form' = IF removal.closes THEN Closed(NothingEdited) ELSE form
          /\ Losing(removal.closes /\ form.open /\ form.typed > 0 /\ form.session # removal.session)
       \/ (RemovalWrites \/ UNCHANGED life) /\ UNCHANGED <<form, lost>>
    /\ removal' = NoRemoval
    /\ dialog' = IF removal.op = dialog.op THEN NoDialog ELSE dialog
    /\ UNCHANGED <<recordPage, save, upload, mixed>>

FormsNext ==
    \/ \E s \in Forms :
         \/ CreateOpens(s) \/ SaveSucceeds(s) \/ SaveFails(s)
         \/ \E r \in Records : EditOpens(s, r)
    \/ Types \/ FormCloses \/ Submits
    \/ ChoosesImage \/ ImageArrives \/ ImageFails
    \/ \E r \in Records :
         \/ ReactivatesSupplier(r)
         \/ \E op \in {"remove", "delete", "reactivate"} : Asks(op, r)
    \/ DialogCloses \/ Confirms \/ RemovalEnds

FormsSpec == FormsInit /\ [][FormsNext]_formVars

---------------------------------------------------------------------------
Texts == Records \cup {NothingEdited}
Sessions == Forms \cup {NothingEdited}

FormsTypeOK ==
    /\ life \in [Records -> {"none", "active", "inactive", "gone"}]
    /\ form \in [open : BOOLEAN, session : Sessions, record : Texts, of : Texts,
                 typed : 0..MaxTyped, active : BOOLEAN, due : BOOLEAN, stray : BOOLEAN]
    /\ save \in [Forms -> [at : {"unused", "idle", "pending"}, record : Texts, of : Texts,
                           typed : 0..MaxTyped, stray : BOOLEAN]]
    /\ upload \in [session : Sessions, of : Texts, typed : 0..MaxTyped]
    /\ mixed \subseteq Records /\ lost \subseteq Forms

\* A record is saved with its own text, unless the image of an earlier form
\* arrived in the form that saved it; and what the user types is gone only when
\* the user leaves the form, or when it was opened or typed in while an answer
\* was still due (inventory/page.tsx:110-277, 528, ImageUpload.tsx:29-64,
\* ExpenseFormModal.tsx:116-169).
FormsKeepTheirRecord == mixed = {} /\ lost = {}
=============================================================================
