SPECIFICATION Spec
CONSTANTS
    Nodes <- MCNodes
    Forms <- MCForms
    Dialogs = {"cancelModal"}
    Places <- MCPlaces
    Path <- MCPath
    Attrs <- MCAttrs
    Outcome <- MCOutcome
    Href <- MCHref
    Opens <- MCOpens
    Closes <- MCCloses
    Removes <- MCRemoves
    Inside <- MCInside
    Native <- MCNative
    Link <- MCLink
    FormOf <- MCFormOf
    Confirms = {"cancelForm"}
    Autosubmit = {"language"}
    Changes = {"recurring"}
    Hovers = {"lesson", "blocked"}
    None = None
INVARIANTS
    TypeOK
    OneWay
    PreviewFollows
