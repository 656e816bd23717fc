\* The edit form sends the city of the add form.
CONSTANTS
    Pages = {p1}
    NoPage = NoPage
    Texts = {x}
    Empty = Empty
    MaxAddresses = 2
    MaxUpdates = 1
SPECIFICATION Spec
INVARIANTS
    EditedHasCity
