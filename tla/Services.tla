-------------------------------- MODULE Services --------------------------------
(***************************************************************************)
(* Requests of auth-service, chat-service and contact-service that are     *)
(* made of several calls to a database: sign-ins by QR code, the counting  *)
(* of wrong passwords, members of spaces, contact requests; and the        *)
(* browser's own store of what it has to send.  They share no rows: a      *)
(* behaviour is of one of them.                                            *)
(***************************************************************************)
EXTENDS QrLogin, LoginProtection, Members, Contacts, QueueStorage

VARIABLE kind               \* "qr", "login", "members", "contacts" or "queue"

authVars == <<qrVars, loginVars>>
servicesVars == <<kind, authVars, memberVars, contactVars, storageVars>>

\* The parts that a behaviour is not about stay in one initial state.
ServicesInit ==
  /\ kind \in {"qr", "login", "members", "contacts", "queue"}
  /\ QrInit /\ LoginInit /\ StorageInit
  /\ MembersInit /\ (kind # "members" => Owners = People)
  /\ ContactsInit /\ (kind # "contacts" => asker = CHOOSE f \in [Posts -> Peers] : TRUE)

QrRequest ==
  kind = "qr" /\ QrNext /\ UNCHANGED <<kind, loginVars, memberVars, contactVars, storageVars>>
LoginRequest ==
  kind = "login" /\ LoginNext /\ UNCHANGED <<kind, qrVars, memberVars, contactVars, storageVars>>
MemberRequest ==
  kind = "members" /\ MembersNext /\ UNCHANGED <<kind, authVars, contactVars, storageVars>>
ContactRequest ==
  kind = "contacts" /\ ContactsNext /\ UNCHANGED <<kind, authVars, memberVars, storageVars>>
QueueStep ==
  kind = "queue" /\ StorageNext /\ UNCHANGED <<kind, authVars, memberVars, contactVars>>

ServicesNext == QrRequest \/ LoginRequest \/ MemberRequest \/ ContactRequest \/ QueueStep

ServicesSpec == ServicesInit /\ [][ServicesNext]_servicesVars

===============================================================================
