---------------------------- MODULE MCSendBatch ----------------------------
EXTENDS SendBatch

CONSTANTS p, q, ann, bob

\* Two packages by mail to the same contact, and two by WhatsApp: the channels have
\* nothing in common but the way of a message.
Mails == [channel |-> [x \in Packages |-> "email"], audience |-> [x \in Packages |-> {ann}]]
Templates == [channel |-> [x \in Packages |-> "whatsapp"],
              audience |-> [x \in Packages |-> IF x = p THEN {ann, bob} ELSE {ann}]]

MailsOrTemplates == {Mails, Templates}
=============================================================================
