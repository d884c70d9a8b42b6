------------------------- MODULE MCEnterpriseImport -------------------------
EXTENDS EnterpriseImport

Pipeline == <<"tags", "contacts", "contact_tags">>

\* One tag, two contacts on two pages, and the tags of both on one page.
Pages == [tags |-> <<{"t"}>>, contacts |-> <<{"c"}, {"d"}>>,
          contact_tags |-> <<{"ct", "dt"}>>]

Ends == [t |-> {}, c |-> {}, d |-> {}, ct |-> {"c", "t"}, dt |-> {"d", "t"}]

Everything == {{"tags", "contacts", "contact_tags"}}
EverythingOrContacts == Everything \cup {{"contacts"}}
=============================================================================
