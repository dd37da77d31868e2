SPECIFICATION Spec
CONSTANTS
    Procs = {p1, p2}
    Kinds = {"native", "spl"}
    Signers = {"direct", "mpc"}
    Amounts <- Unread
    Payer = payer
    Recipients = {payer, other, stranger}
    TokenAccounts <- Held
    Mint = mint
    Funds = 610
    Fee = 5
    Window = 1
    MaxSlot = 1
    MaxForks = 1
    MaxFaults = 2
    Ticks = 1
    Shares = {TRUE, FALSE}
    SystemProgram = system
    TokenProgram = token
    p1 = p1
    p2 = p2
    system = system
    token = token
    payer = payer
    other = other
    stranger = stranger
    mint = mint
    mint2 = mint2
    ata1 = ata1
    ata2 = ata2
    ata3 = ata3
    ata4 = ata4
INVARIANTS SentIsConfirmed 
SYMMETRY Symmetry
CHECK_DEADLOCK FALSE
