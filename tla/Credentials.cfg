CONSTANTS
    label = label
    plain = plain
    special = special
    escaped = escaped
    nothing = nothing
    httpd = httpd
    input = input
    Passwords <- ThePasswords
    Stored <- TheTexts
    Default = label
    Form <- TheForm
    None = nothing
SPECIFICATION Spec
INVARIANTS
    KeysPresent
    LabelWorks
    
